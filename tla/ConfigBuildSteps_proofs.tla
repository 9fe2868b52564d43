----------------------- MODULE ConfigBuildSteps_proofs -----------------------
(***************************************************************************)
(* Proof that build(), made one lookup at a time, implements the atomic   *)
(* KeylimeConfig::Start when the file is not edited while the agent       *)
(* builds (EditsWhileBuilding = FALSE), for every environment, file, uid  *)
(* and set of identity records.                                           *)
(*                                                                         *)
(* The argument: while the agent builds, nothing build() reads changes,   *)
(* every lookup made so far succeeded and acc holds its value (IInv), so  *)
(* the work_dir read earlier is the one work_dir_get gives and each       *)
(* lookup is the atomic build's (Resolve).  The lookups build() makes in  *)
(* Fields order and checks in BuildOrder order agree: the fields outside  *)
(* BuildOrder never fail, and Fields lists those of BuildOrder in the     *)
(* same order (FieldIdx).  So the first failing lookup is the one Build   *)
(* returns, and the last lookup builds Build's snapshot.                  *)
(***************************************************************************)
EXTENDS ConfigBuildSteps, WellFoundedInduction, TLAPS

\* The atomic build's lookups for this build's UUID.
R == Atomic!Resolve(fresh)

IInv ==
    /\ phase \in {"stopped", "building", "running", "failed"}
    /\ fresh \in UuidIds
    /\ phase \in {"stopped", "building"} => config = None /\ error = None
    /\ phase = "building" =>
         /\ pos \in 1 .. Len(Fields)
         /\ DOMAIN acc = {Fields[i] : i \in 1 .. pos - 1}
         /\ \A i \in 1 .. pos - 1 : /\ R[Fields[i]].ok
                                    /\ acc[Fields[i]] = R[Fields[i]].val

\* tlapm does not import the lemmas of KeylimeConfig_proofs through an
\* INSTANCE, so the facts about the atomic build this proof needs are
\* proved again here, for Atomic.

\* A non-empty set of naturals has a least element, and Min picks it.
LEMMA MinOfNats ==
    \A S \in SUBSET Nat :
        S # {} => Atomic!Min(S) \in S /\ \A y \in S : Atomic!Min(S) <= y
<1> SUFFICES ASSUME NEW S \in SUBSET Nat, S # {}
             PROVE  Atomic!Min(S) \in S /\ \A y \in S : Atomic!Min(S) <= y
    OBVIOUS
<1>1. PICK x \in S : \A y \in S : ~(<<y, x>> \in OpToRel(<, Nat))
    BY Zenon, NatLessThanWellFounded, WFMin
<1>2. \A y \in S : ~(y < x)
    <2> TAKE y \in S
    <2>1. y < x => <<y, x>> \in OpToRel(<, Nat)
        BY Zenon DEF OpToRel
    <2>2. QED
        BY Zenon, <1>1, <2>1
<1>3. \A y \in S : x <= y
    BY <1>2
<1>4. QED
    BY Zenon, <1>3 DEF Atomic!Min

LEMMA LookupsUnchanged ==
    ASSUME UNCHANGED <<env, file, sections, confAt, euid>>
    PROVE  /\ \A sec, key :
                Atomic!config_get(sec, key)' = Atomic!config_get(sec, key)
           /\ \A sec, key, var :
                Atomic!config_get_env(sec, key, var)'
                    = Atomic!config_get_env(sec, key, var)
<1>1. \A v : Atomic!IsSet(v)' = Atomic!IsSet(v)
    BY DEF Atomic!IsSet
<1>2. Atomic!config_file_get' = Atomic!config_file_get
    BY <1>1 DEF Atomic!config_file_get
<1>3. \A sec, key : Atomic!config_get(sec, key)' = Atomic!config_get(sec, key)
    BY <1>2 DEF Atomic!config_get
<1>4. QED
    BY <1>1, <1>3 DEF Atomic!config_get_env

\* The same holds of the record of lookups, field by field: the provers
\* compare two 29-field records only through their fields.
LEMMA ResolveInUnchanged ==
    ASSUME NEW id, NEW wd, UNCHANGED <<env, file, sections, confAt, euid>>
    PROVE  Atomic!ResolveIn(id, wd)' = Atomic!ResolveIn(id, wd)
<1> DEFINE r == Atomic!ResolveIn(id, wd)
<1>1. /\ \A sec, key :
            Atomic!config_get(sec, key)' = Atomic!config_get(sec, key)
      /\ \A sec, key, var :
            Atomic!config_get_env(sec, key, var)'
                = Atomic!config_get_env(sec, key, var)
    BY LookupsUnchanged
<1>2. /\ Atomic!cloudagent_contact_ip_get' = Atomic!cloudagent_contact_ip_get
      /\ Atomic!cloudagent_contact_port_get'
          = Atomic!cloudagent_contact_port_get
    BY Zenon, <1>1 DEF Atomic!cloudagent_contact_ip_get,
           Atomic!cloudagent_contact_port_get, Atomic!AndThen, Atomic!OrElse,
           Atomic!Ok, Atomic!Err
<1>3. Atomic!run_revocation_get' = Atomic!run_revocation_get
    BY Zenon, <1>1 DEF Atomic!run_revocation_get, Atomic!bool_from_str,
           Atomic!to_lowercase, Atomic!AndThen, Atomic!OrElse, Atomic!Ok,
           Atomic!Err
<1>4. /\ \A k, N : Atomic!AlgFrom(k, N)' = Atomic!AlgFrom(k, N)
      /\ \A k : Atomic!RequiredBool(k)' = Atomic!RequiredBool(k)
      /\ \A k, d, a : Atomic!LenientBool(k, d, a)'
          = Atomic!LenientBool(k, d, a)
    BY Zenon, <1>1 DEF Atomic!AlgFrom, Atomic!RequiredBool, Atomic!LenientBool,
           Atomic!bool_from_str, Atomic!to_lowercase, Atomic!AndThen,
           Atomic!OrElse, Atomic!Ok, Atomic!Err
<1>5. \A x : LET b == Atomic!bool_from_str(Atomic!to_lowercase(x),
                                         "allow_payload_revocation_actions")
             IN  b' = b
    BY DEF Atomic!bool_from_str, Atomic!to_lowercase, Atomic!Ok, Atomic!Err
<1>6.
       /\ r'.agent_ip = r.agent_ip
       /\ r'.agent_port = r.agent_port
       /\ r'.registrar_ip = r.registrar_ip
       /\ r'.registrar_port = r.registrar_port
       /\ r'.agent_uuid = r.agent_uuid
       /\ r'.agent_contact_ip = r.agent_contact_ip
       /\ r'.agent_contact_port = r.agent_contact_port
       /\ r'.hash_alg = r.hash_alg
       /\ r'.enc_alg = r.enc_alg
       /\ r'.sign_alg = r.sign_alg
       /\ r'.run_revocation = r.run_revocation
       /\ r'.revocation_cert = r.revocation_cert
       /\ r'.revocation_ip = r.revocation_ip
       /\ r'.revocation_port = r.revocation_port
       /\ r'.secure_size = r.secure_size
       /\ r'.payload_script = r.payload_script
       /\ r'.dec_payload_filename = r.dec_payload_filename
       /\ r'.key_filename = r.key_filename
       /\ r'.extract_payload_zip = r.extract_payload_zip
       /\ r'.work_dir = r.work_dir
       /\ r'.tpm_data_path = r.tpm_data_path
       /\ r'.tpm_data = r.tpm_data
       /\ r'.keylime_ca_path = r.keylime_ca_path
       /\ r'.revocation_actions = r.revocation_actions
       /\ r'.revocation_actions_dir = r.revocation_actions_dir
       /\ r'.allow_payload_revocation_actions =
            r.allow_payload_revocation_actions
       /\ r'.run_as = r.run_as
       /\ r'.mtls_enabled = r.mtls_enabled
       /\ r'.enable_insecure_payload = r.enable_insecure_payload
    BY ZenonT(60), <1>1, <1>2, <1>3, <1>4, <1>5 DEF Atomic!ResolveIn, Atomic!AndThen,
           Atomic!OrElse, Atomic!Ok, Atomic!Err
<1>7. r =
       [agent_ip |-> r.agent_ip, agent_port |-> r.agent_port,
        registrar_ip |-> r.registrar_ip,
        registrar_port |-> r.registrar_port, agent_uuid |-> r.agent_uuid,
        agent_contact_ip |-> r.agent_contact_ip,
        agent_contact_port |-> r.agent_contact_port,
        hash_alg |-> r.hash_alg, enc_alg |-> r.enc_alg,
        sign_alg |-> r.sign_alg, run_revocation |-> r.run_revocation,
        revocation_cert |-> r.revocation_cert,
        revocation_ip |-> r.revocation_ip,
        revocation_port |-> r.revocation_port,
        secure_size |-> r.secure_size, payload_script |-> r.payload_script,
        dec_payload_filename |-> r.dec_payload_filename,
        key_filename |-> r.key_filename,
        extract_payload_zip |-> r.extract_payload_zip,
        work_dir |-> r.work_dir, tpm_data_path |-> r.tpm_data_path,
        tpm_data |-> r.tpm_data, keylime_ca_path |-> r.keylime_ca_path,
        revocation_actions |-> r.revocation_actions,
        revocation_actions_dir |-> r.revocation_actions_dir,
        allow_payload_revocation_actions |->
          r.allow_payload_revocation_actions,
        run_as |-> r.run_as, mtls_enabled |-> r.mtls_enabled,
        enable_insecure_payload |-> r.enable_insecure_payload]
    BY DEF Atomic!ResolveIn
<1>8. r' =
       [agent_ip |-> r'.agent_ip, agent_port |-> r'.agent_port,
        registrar_ip |-> r'.registrar_ip,
        registrar_port |-> r'.registrar_port, agent_uuid |-> r'.agent_uuid,
        agent_contact_ip |-> r'.agent_contact_ip,
        agent_contact_port |-> r'.agent_contact_port,
        hash_alg |-> r'.hash_alg, enc_alg |-> r'.enc_alg,
        sign_alg |-> r'.sign_alg, run_revocation |-> r'.run_revocation,
        revocation_cert |-> r'.revocation_cert,
        revocation_ip |-> r'.revocation_ip,
        revocation_port |-> r'.revocation_port,
        secure_size |-> r'.secure_size,
        payload_script |-> r'.payload_script,
        dec_payload_filename |-> r'.dec_payload_filename,
        key_filename |-> r'.key_filename,
        extract_payload_zip |-> r'.extract_payload_zip,
        work_dir |-> r'.work_dir, tpm_data_path |-> r'.tpm_data_path,
        tpm_data |-> r'.tpm_data, keylime_ca_path |-> r'.keylime_ca_path,
        revocation_actions |-> r'.revocation_actions,
        revocation_actions_dir |-> r'.revocation_actions_dir,
        allow_payload_revocation_actions |->
          r'.allow_payload_revocation_actions,
        run_as |-> r'.run_as, mtls_enabled |-> r'.mtls_enabled,
        enable_insecure_payload |-> r'.enable_insecure_payload]
    BY DEF Atomic!ResolveIn
<1>9. QED
    BY <1>6, <1>7, <1>8

LEMMA ResolveUnchanged ==
    ASSUME NEW id, UNCHANGED <<env, file, sections, confAt, euid>>
    PROVE  Atomic!Resolve(id)' = Atomic!Resolve(id)
<1>1. Atomic!work_dir_get' = Atomic!work_dir_get
    BY LookupsUnchanged DEF Atomic!work_dir_get
<1>2. QED
    BY <1>1, ResolveInUnchanged DEF Atomic!Resolve

-----------------------------------------------------------------------------
(* The two orders of the lookups. *)

\* The index in Fields of each field of BuildOrder.
FieldIdx == <<1, 2, 3, 4, 5, 7, 8, 9, 10, 11, 12, 13, 14, 15, 16, 17, 18, 19,
              23, 26>>

\* The fields build() computes without a ? that can fail.
Outside == {"agent_contact_ip", "work_dir", "tpm_data_path", "tpm_data",
            "revocation_actions", "revocation_actions_dir", "run_as",
            "mtls_enabled", "enable_insecure_payload"}

\* The lengths of the two orders.
LEMMA OrderLengths == Len(Fields) = 29 /\ Len(Atomic!BuildOrder) = 20
BY DEF Fields, Atomic!BuildOrder

\* Fields lists each field once.
LEMMA FieldsInjective == \A i, j \in 1 .. 29 : i # j => Fields[i] # Fields[j]
BY DEF Fields

\* Fields lists the fields of BuildOrder in BuildOrder's order ...
LEMMA FieldIdxMaps ==
    \A j \in 1 .. 20 : /\ FieldIdx[j] \in 1 .. 29
                       /\ Fields[FieldIdx[j]] = Atomic!BuildOrder[j]
BY DEF Fields, Atomic!BuildOrder, FieldIdx

LEMMA FieldIdxIncreasing ==
    \A i, j \in 1 .. 20 : i < j => FieldIdx[i] < FieldIdx[j]
BY DEF FieldIdx

\* ... and the others are Outside.
LEMMA FieldsCovered ==
    \A p \in 1 .. 29 : \/ Fields[p] \in Outside
                       \/ \E j \in 1 .. 20 : FieldIdx[j] = p
BY DEF Fields, FieldIdx, Outside

\* The lookups outside BuildOrder always succeed, and the lookups are
\* exactly the fields of Fields.
LEMMA ResolveShape ==
    \A id : /\ \A f \in Outside : Atomic!Resolve(id)[f].ok
           /\ DOMAIN Atomic!Resolve(id) = {Fields[i] : i \in 1 .. 29}
           /\ Atomic!Resolve(id).work_dir = Atomic!Ok(Atomic!work_dir_get)
<1> SUFFICES ASSUME NEW id
             PROVE  /\ \A f \in Outside : Atomic!Resolve(id)[f].ok
                    /\ DOMAIN Atomic!Resolve(id) = {Fields[i] : i \in 1 .. 29}
                    /\ Atomic!Resolve(id).work_dir =
                         Atomic!Ok(Atomic!work_dir_get)
    BY Zenon
<1> DEFINE r == Atomic!ResolveIn(id, Atomic!work_dir_get)
<1>1. Atomic!Resolve(id) = r
    BY DEF Atomic!Resolve
<1>2. /\ r.agent_contact_ip.ok /\ r.work_dir.ok /\ r.tpm_data_path.ok
      /\ r.tpm_data.ok /\ r.revocation_actions.ok
      /\ r.revocation_actions_dir.ok /\ r.run_as.ok /\ r.mtls_enabled.ok
      /\ r.enable_insecure_payload.ok
    BY Zenon DEF Atomic!ResolveIn, Atomic!AndThen, Atomic!OrElse, Atomic!Ok
<1>6. \A f \in Outside : r[f].ok
    BY <1>2 DEF Outside
<1>3. DOMAIN r = {Fields[i] : i \in 1 .. 29}
    BY DEF Atomic!ResolveIn, Fields
<1>4. r.work_dir = Atomic!Ok(Atomic!work_dir_get)
    BY DEF Atomic!ResolveIn
<1>5. QED
    BY <1>1, <1>6, <1>3, <1>4


-----------------------------------------------------------------------------
(* A step of the build against the atomic build. *)

\* The work_dir a lookup uses is the one work_dir_get gives: read now, or
\* read earlier from the same file.  So each lookup is the atomic build's.
LEMMA LookupIsResolve ==
    ASSUME IInv, phase = "building"
    PROVE  Lookup(Fields[pos]) = R[Fields[pos]]
<1>1. "work_dir" \in DOMAIN acc => acc["work_dir"] = Atomic!work_dir_get
    <2> SUFFICES ASSUME "work_dir" \in DOMAIN acc
                 PROVE  acc["work_dir"] = Atomic!work_dir_get
        OBVIOUS
    <2>1. PICK i \in 1 .. pos - 1 : Fields[i] = "work_dir"
        BY DEF IInv
    <2>2. acc["work_dir"] = R["work_dir"].val
        BY <2>1 DEF IInv
    <2>3. QED
        BY <2>2, ResolveShape DEF R, Atomic!Ok
<1>2. QED
    BY <1>1 DEF Lookup, R, Atomic!Resolve

\* A field of BuildOrder comes after the ones BuildOrder puts before it.
LEMMA IdxBelow ==
    \A i, j \in 1 .. 20 : i < j => FieldIdx[i] \in 1 .. FieldIdx[j] - 1
<1> SUFFICES ASSUME NEW i \in 1 .. 20, NEW j \in 1 .. 20, i < j
             PROVE  FieldIdx[i] \in 1 .. FieldIdx[j] - 1
    OBVIOUS
<1>1. FieldIdx[i] \in Nat /\ FieldIdx[i] >= 1 /\ FieldIdx[j] \in Nat
    BY FieldIdxMaps
<1>2. FieldIdx[i] < FieldIdx[j]
    BY FieldIdxIncreasing
<1>3. QED
    BY <1>1, <1>2

\* The least element of a set of indices that holds j and nothing below j.
LEMMA MinIs ==
    \A S \in SUBSET (1 .. 20) : \A j \in 1 .. 20 :
      (j \in S /\ \A i \in 1 .. 20 : i < j => i \notin S) => Atomic!Min(S) = j
<1> SUFFICES ASSUME NEW S \in SUBSET (1 .. 20), NEW j \in 1 .. 20, j \in S,
                    \A i \in 1 .. 20 : i < j => i \notin S
             PROVE  Atomic!Min(S) = j
    OBVIOUS
<1>1. Atomic!Min(S) \in S /\ Atomic!Min(S) <= j
    BY MinOfNats
<1>2. PICK m \in S : m = Atomic!Min(S)
    BY Zenon, <1>1
<1>3. m = j
    <2>1. m <= j /\ m \in 1 .. 20
        BY <1>1, <1>2
    <2>2. ~(m < j)
        BY <2>1
    <2>3. QED
        BY <2>1, <2>2
<1>4. QED
    BY <1>2, <1>3

\* The last field is none of the others, and the others with it are all.
LEMMA LastField ==
    /\ \A i \in 1 .. 28 : Fields[i] # Fields[29]
    /\ {Fields[i] : i \in 1 .. 28} \cup {Fields[29]} = {Fields[i] : i \in 1 .. 29}
<1>1. \A i \in 1 .. 28 : Fields[i] # Fields[29]
    BY FieldsInjective
<1>2. {Fields[i] : i \in 1 .. 28} \cup {Fields[29]} = {Fields[i] : i \in 1 .. 29}
    BY DEF Fields
<1>3. QED
    BY <1>1, <1>2

\* For any record of lookups Rs in which the fields outside BuildOrder
\* succeed: when the lookups of Fields before p succeed and the one at p
\* fails, the first failing lookup of BuildOrder is the one at p.
LEMMA FirstFailure ==
    \A Rs : \A p \in 1 .. 29 :
      (/\ \A f \in Outside : Rs[f].ok
       /\ \A i \in 1 .. p - 1 : Rs[Fields[i]].ok
       /\ ~Rs[Fields[p]].ok)
      => LET bad == {i \in 1 .. Len(Atomic!BuildOrder) :
                       ~Rs[Atomic!BuildOrder[i]].ok}
         IN  bad # {} /\ Atomic!BuildOrder[Atomic!Min(bad)] = Fields[p]
<1> SUFFICES ASSUME NEW Rs, NEW p \in 1 .. 29,
                    \A f \in Outside : Rs[f].ok,
                    \A i \in 1 .. p - 1 : Rs[Fields[i]].ok,
                    ~Rs[Fields[p]].ok
             PROVE  LET bad == {i \in 1 .. Len(Atomic!BuildOrder) :
                                  ~Rs[Atomic!BuildOrder[i]].ok}
                    IN  bad # {} /\ Atomic!BuildOrder[Atomic!Min(bad)] = Fields[p]
    BY Zenon
<1> DEFINE BO == Atomic!BuildOrder
           bad == {i \in 1 .. Len(BO) : ~Rs[BO[i]].ok}
<1>1. PICK j \in 1 .. 20 : FieldIdx[j] = p
    BY Zenon, FieldsCovered
<1>2. j \in bad
    BY <1>1, FieldIdxMaps, OrderLengths
<1>3. \A i \in 1 .. 20 : i < j => i \notin bad
    <2> SUFFICES ASSUME NEW i \in 1 .. 20, i < j PROVE Rs[BO[i]].ok
        BY OrderLengths
    <2>1. FieldIdx[i] \in 1 .. p - 1
        BY <1>1, IdxBelow
    <2>2. QED
        BY <2>1, FieldIdxMaps
<1>4. bad \in SUBSET (1 .. 20) /\ bad # {}
    BY <1>2, OrderLengths
<1>5. Atomic!Min(bad) = j
    BY Zenon, <1>2, <1>3, <1>4, MinIs
<1>6. QED
    BY Zenon, <1>1, <1>4, <1>5, FieldIdxMaps

\* When every lookup of Fields succeeds, none of BuildOrder fails.
LEMMA NoFailure ==
    \A Rs : (\A i \in 1 .. 29 : Rs[Fields[i]].ok) =>
              {i \in 1 .. Len(Atomic!BuildOrder) : ~Rs[Atomic!BuildOrder[i]].ok}
                = {}
BY FieldIdxMaps, OrderLengths

\* The values gathered for the 28 first fields, with the last one's, are
\* the values of all the lookups.
LEMMA Gathered ==
    \A Rs, ac :
      (/\ DOMAIN Rs = {Fields[i] : i \in 1 .. 29}
       /\ DOMAIN ac = {Fields[i] : i \in 1 .. 28}
       /\ \A i \in 1 .. 28 : ac[Fields[i]] = Rs[Fields[i]].val)
      => [x \in DOMAIN ac \cup {Fields[29]} |->
            IF x = Fields[29] THEN Rs[x].val ELSE ac[x]]
         = [f \in DOMAIN Rs |-> Rs[f].val]
<1> SUFFICES ASSUME NEW Rs, NEW ac,
                    DOMAIN Rs = {Fields[i] : i \in 1 .. 29},
                    DOMAIN ac = {Fields[i] : i \in 1 .. 28},
                    \A i \in 1 .. 28 : ac[Fields[i]] = Rs[Fields[i]].val
             PROVE  [x \in DOMAIN ac \cup {Fields[29]} |->
                       IF x = Fields[29] THEN Rs[x].val ELSE ac[x]]
                    = [f \in DOMAIN Rs |-> Rs[f].val]
    BY ZenonT(60)
<1>1. DOMAIN ac \cup {Fields[29]} = DOMAIN Rs
    BY ZenonT(60), LastField
<1>2. QED
    BY ZenonT(60), <1>1, LastField

\* A lookup that fails is the first failing one in BuildOrder too: the
\* atomic build returns its error.
LEMMA FailStep ==
    ASSUME IInv, phase = "building", ~R[Fields[pos]].ok
    PROVE  Atomic!Build(fresh) = R[Fields[pos]]
<1>1. pos \in 1 .. 29
    BY OrderLengths DEF IInv
<1>2. \A i \in 1 .. pos - 1 : R[Fields[i]].ok
    BY DEF IInv
<1>3. LET bad == {i \in 1 .. Len(Atomic!BuildOrder) :
                    ~R[Atomic!BuildOrder[i]].ok}
      IN  bad # {} /\ Atomic!BuildOrder[Atomic!Min(bad)] = Fields[pos]
    BY ZenonT(60), <1>1, <1>2, FirstFailure, ResolveShape DEF R
<1>4. QED
    BY <1>3 DEF Atomic!Build, R

\* When the last lookup succeeds, every lookup of BuildOrder did, and the
\* values gathered are the atomic build's snapshot.
LEMMA DoneStep ==
    ASSUME IInv, phase = "building", pos = Len(Fields), R[Fields[pos]].ok
    PROVE  Atomic!Build(fresh) =
             Atomic!Ok([x \in DOMAIN acc \cup {Fields[pos]} |->
                          IF x = Fields[pos] THEN R[x].val ELSE acc[x]])
<1>1. pos = 29
    BY OrderLengths
<1>2. /\ DOMAIN acc = {Fields[i] : i \in 1 .. pos - 1}
      /\ \A i \in 1 .. pos - 1 : R[Fields[i]].ok /\ acc[Fields[i]] = R[Fields[i]].val
    BY DEF IInv
<1>3. 1 .. pos - 1 = 1 .. 28
    BY <1>1
<1>4. /\ DOMAIN acc = {Fields[i] : i \in 1 .. 28}
      /\ \A i \in 1 .. 28 : R[Fields[i]].ok /\ acc[Fields[i]] = R[Fields[i]].val
    BY <1>2, <1>3, Zenon
<1>5. R[Fields[29]].ok
    BY <1>1, Zenon
<1>6. \A i \in 1 .. 29 : R[Fields[i]].ok
    <2> TAKE i \in 1 .. 29
    <2>1. i \in 1 .. 28 \/ i = 29
        OBVIOUS
    <2>2. QED
        BY <2>1, <1>4, <1>5, Zenon
<1>7. Atomic!Build(fresh) = Atomic!Ok([f \in DOMAIN R |-> R[f].val])
    BY Zenon, <1>6, NoFailure DEF Atomic!Build, R
<1>8. DOMAIN R = {Fields[i] : i \in 1 .. 29}
    BY Zenon, ResolveShape DEF R
<1>9. [x \in DOMAIN acc \cup {Fields[29]} |->
         IF x = Fields[29] THEN R[x].val ELSE acc[x]]
      = [f \in DOMAIN R |-> R[f].val]
    <2>1. \A i \in 1 .. 28 : acc[Fields[i]] = R[Fields[i]].val
        BY Zenon, <1>4
    <2>2. QED
        BY ZenonT(60), <1>4, <1>8, <2>1, Gathered
<1>10. [x \in DOMAIN acc \cup {Fields[pos]} |->
          IF x = Fields[pos] THEN R[x].val ELSE acc[x]]
       = [x \in DOMAIN acc \cup {Fields[29]} |->
          IF x = Fields[29] THEN R[x].val ELSE acc[x]]
    BY <1>1
<1>11. QED
    BY Zenon, <1>7, <1>9, <1>10

-----------------------------------------------------------------------------
(* The inductive invariant. *)

\* Nothing build() reads changes: its lookups stay what they were.
LEMMA RUnchanged ==
    ASSUME UNCHANGED <<env, file, sections, confAt, euid, fresh>>
    PROVE  R' = R
<1>1. PICK id : id = fresh
    OBVIOUS
<1>2. Atomic!Resolve(id)' = Atomic!Resolve(id)
    BY ResolveUnchanged
<1>3. QED
    BY <1>1, <1>2 DEF R

LEMMA InitIInv == Init => IInv
BY DEF Init, IInv

\* With the file fixed during a build, an operator's change happens only
\* while the agent is stopped.
LEMMA EditsStopped ==
    ASSUME EditsWhileBuilding = FALSE, FileChangeAllowed
    PROVE  phase = "stopped"
BY DEF FileChangeAllowed

LEMMA NextIInv ==
    ASSUME EditsWhileBuilding = FALSE, IInv, [Next]_vars
    PROVE  IInv'
<1>1. CASE BeginBuild
    BY <1>1, OrderLengths DEF BeginBuild, IInv
<1>2. CASE BuildStep
    <2> DEFINE f == Fields[pos]
               r == Lookup(f)
               a == [x \in DOMAIN acc \cup {f} |-> IF x = f THEN r.val ELSE acc[x]]
    <2>1. phase = "building" /\ pos \in 1 .. 29
        BY <1>2, OrderLengths DEF BuildStep, IInv
    <2>2. R' = R
        BY <1>2, RUnchanged DEF BuildStep
    <2>3. r = R[f]
        BY <2>1, LookupIsResolve
    <2>4. CASE ~r.ok
        BY <1>2, <2>4 DEF BuildStep, IInv
    <2>5. CASE r.ok /\ pos = Len(Fields)
        BY <1>2, <2>5 DEF BuildStep, IInv
    <2>6. CASE r.ok /\ pos # Len(Fields)
        <3>1. /\ acc' = a /\ pos' = pos + 1 /\ phase' = "building"
              /\ config' = config /\ error' = error /\ fresh' = fresh
            BY <1>2, <2>6 DEF BuildStep
        <3>2. pos' \in 1 .. Len(Fields)
            BY <2>1, <2>6, <3>1, OrderLengths
        <3>3. DOMAIN acc = {Fields[i] : i \in 1 .. pos - 1}
            BY <2>1 DEF IInv
        <3>4. DOMAIN acc' = {Fields[i] : i \in 1 .. pos' - 1}
            BY <2>1, <3>1, <3>3
        <3>5. \A i \in 1 .. pos' - 1 : /\ R'[Fields[i]].ok
                                       /\ acc'[Fields[i]] = R'[Fields[i]].val
            <4> TAKE i \in 1 .. pos' - 1
            <4>1. CASE i = pos
                BY <2>2, <2>3, <2>6, <3>1, <4>1
            <4>2. CASE i # pos
                <5>1. i \in 1 .. pos - 1
                    BY <2>1, <3>1, <4>2
                <5>2. Fields[i] # f
                    <6>1. i \in 1 .. 29 /\ pos \in 1 .. 29 /\ i # pos
                        BY <2>1, <5>1
                    <6>2. QED
                        BY <6>1, FieldsInjective
                <5>3. R[Fields[i]].ok /\ acc[Fields[i]] = R[Fields[i]].val
                    BY <2>1, <5>1 DEF IInv
                <5>4. Fields[i] \in DOMAIN acc
                    BY <3>3, <5>1
                <5>5. QED
                    BY <2>2, <3>1, <5>2, <5>3, <5>4
            <4>3. QED
                BY <4>1, <4>2
        <3>6. fresh' \in UuidIds /\ config' = None /\ error' = None
            BY <2>1, <3>1 DEF IInv
        <3>7. QED
            BY ZenonT(60), <3>1, <3>2, <3>4, <3>5, <3>6 DEF IInv
    <2>7. QED
        BY <2>4, <2>5, <2>6
<1>3. CASE \E k \in Atomic!Keys : \E x \in FileDomain[k] : EditFile(k, x)
    BY Zenon, <1>3, EditsStopped DEF EditFile, IInv
<1>4. CASE \E S \in SectionSets : SetSections(S)
    BY Zenon, <1>4, EditsStopped DEF SetSections, IInv
<1>5. CASE \E P \in ConfSets : SetConfAt(P)
    BY Zenon, <1>5, EditsStopped DEF SetConfAt, IInv
<1>6. CASE \E v \in Atomic!EnvVars : \E x \in EnvDomain[v] : SetEnv(v, x)
    BY <1>6 DEF SetEnv, IInv
<1>7. CASE \E u \in Euids : SetEuid(u)
    BY <1>7 DEF SetEuid, IInv
<1>8. CASE Stop
    BY <1>8 DEF Stop, IInv
<1>9. CASE UNCHANGED vars
    <2>1. R' = R
        BY <1>9, RUnchanged DEF vars
    <2>2. QED
        BY <1>9, <2>1 DEF vars, IInv
<1>10. QED
    BY <1>1, <1>2, <1>3, <1>4, <1>5, <1>6, <1>7, <1>8, <1>9 DEF Next

-----------------------------------------------------------------------------
(* The refinement. *)

\* Ok(v) succeeds with value v.
LEMMA OkFields == \A x, v : x = Atomic!Ok(v) => x.ok /\ x.val = v
BY DEF Atomic!Ok

\* A build in progress maps onto a stopped agent.
LEMMA InitRefines == Init => Atomic!Init
BY DEF Init, Atomic!Init

\* Each step is a step of the atomic build or leaves its variables alone:
\* beginning the build and the lookups that succeed short of the last one
\* are stutters, the failing lookup or the last one is Start for this
\* build's UUID, and the operator's changes and Stop are the atomic ones.
LEMMA StepRefines ==
    ASSUME EditsWhileBuilding = FALSE, IInv, [Next]_vars
    PROVE  [Atomic!Next]_Atomic!vars
<1>1. CASE BeginBuild
    BY <1>1 DEF BeginBuild, Atomic!vars
<1>2. CASE BuildStep
    <2> DEFINE f == Fields[pos]
               r == Lookup(f)
               a == [x \in DOMAIN acc \cup {f} |-> IF x = f THEN r.val ELSE acc[x]]
    <2>1. /\ phase = "building" /\ config = None /\ error = None
          /\ fresh \in UuidIds
        BY <1>2 DEF BuildStep, IInv
    <2>2. r = R[f]
        BY <2>1, LookupIsResolve
    <2>3. UNCHANGED <<env, file, sections, confAt, euid>>
        BY <1>2 DEF BuildStep
    <2>4. CASE ~r.ok
        <3>1. Atomic!Build(fresh) = r
            BY <2>1, <2>2, <2>4, FailStep
        <3>2. /\ phase' = "failed" /\ config' = config
              /\ error' = [kind |-> r.kind, key |-> r.key]
            BY <1>2, <2>4 DEF BuildStep
        <3>3. /\ (IF phase = "building" THEN "stopped" ELSE phase) = "stopped"
              /\ (IF phase = "building" THEN "stopped" ELSE phase)' = "failed"
            BY <2>1, <3>2
        <3>4. ~Atomic!Build(fresh).ok
            BY <2>4, <3>1
        <3>5. Atomic!Start
            BY ZenonT(60), <2>1, <2>3, <3>1, <3>2, <3>3, <3>4 DEF Atomic!Start
        <3>6. QED
            BY <3>5 DEF Atomic!Next
    <2>5. CASE r.ok /\ pos = Len(Fields)
        <3>1. a = [x \in DOMAIN acc \cup {Fields[pos]} |->
                     IF x = Fields[pos] THEN R[x].val ELSE acc[x]]
            BY <2>2
        <3>2. Atomic!Build(fresh) = Atomic!Ok(a)
            BY ZenonT(60), <2>1, <2>2, <2>5, <3>1, DoneStep
        <3>3. /\ phase' = "running" /\ config' = a /\ error' = error
            BY <1>2, <2>5 DEF BuildStep
        <3>4. Atomic!Build(fresh).ok /\ Atomic!Build(fresh).val = a
            BY ZenonT(60), <3>2, OkFields
        <3>5. /\ (IF phase = "building" THEN "stopped" ELSE phase) = "stopped"
              /\ (IF phase = "building" THEN "stopped" ELSE phase)' = "running"
            BY ZenonT(60), <2>1, <3>3
        <3>6. Atomic!Start
            BY ZenonT(60), <2>1, <2>3, <3>3, <3>4, <3>5 DEF Atomic!Start
        <3>7. QED
            BY <3>6 DEF Atomic!Next
    <2>6. CASE r.ok /\ pos # Len(Fields)
        BY <1>2, <2>1, <2>6 DEF BuildStep, Atomic!vars
    <2>7. QED
        BY <2>4, <2>5, <2>6
<1>3. CASE \E k \in Atomic!Keys : \E x \in FileDomain[k] : EditFile(k, x)
    <2>0. PICK k \in Atomic!Keys : \E x \in FileDomain[k] : EditFile(k, x)
        BY <1>3
    <2>1. PICK x \in FileDomain[k] : EditFile(k, x)
        BY <2>0
    <2>2. Atomic!EditFile(k, x)
        BY ZenonT(60), <2>1, EditsStopped DEF EditFile, Atomic!EditFile
    <2>3. QED
        BY <2>2 DEF Atomic!Next
<1>4. CASE \E S \in SectionSets : SetSections(S)
    <2>1. PICK S \in SectionSets : SetSections(S)
        BY <1>4
    <2>2. Atomic!SetSections(S)
        BY Zenon, <2>1, EditsStopped DEF SetSections, Atomic!SetSections
    <2>3. QED
        BY Zenon, <2>2 DEF Atomic!Next
<1>5. CASE \E P \in ConfSets : SetConfAt(P)
    <2>1. PICK P \in ConfSets : SetConfAt(P)
        BY <1>5
    <2>2. Atomic!SetConfAt(P)
        BY ZenonT(60), <2>1, EditsStopped DEF SetConfAt, Atomic!SetConfAt
    <2>3. QED
        BY Zenon, <2>2 DEF Atomic!Next
<1>6. CASE \E v \in Atomic!EnvVars : \E x \in EnvDomain[v] : SetEnv(v, x)
    <2>0. PICK v \in Atomic!EnvVars : \E x \in EnvDomain[v] : SetEnv(v, x)
        BY <1>6
    <2>1. PICK x \in EnvDomain[v] : SetEnv(v, x)
        BY <2>0
    <2>2. Atomic!SetEnv(v, x)
        BY ZenonT(60), <2>1 DEF SetEnv, Atomic!SetEnv
    <2>3. QED
        BY ZenonT(60), <2>2 DEF Atomic!Next
<1>7. CASE \E u \in Euids : SetEuid(u)
    <2>1. PICK u \in Euids : SetEuid(u)
        BY <1>7
    <2>2. Atomic!SetEuid(u)
        BY <2>1 DEF SetEuid, Atomic!SetEuid
    <2>3. QED
        BY Zenon, <2>2 DEF Atomic!Next
<1>8. CASE Stop
    BY Zenon, <1>8 DEF Stop, Atomic!Stop, Atomic!Next
<1>9. CASE UNCHANGED vars
    BY <1>9 DEF vars, Atomic!vars
<1>10. QED
    BY Zenon, <1>1, <1>2, <1>3, <1>4, <1>5, <1>6, <1>7, <1>8, <1>9 DEF Next

\* KeylimeConfig::build, whose config_get calls each reload the file,
\* gives the snapshot, or the first error, that one atomic build from the
\* state the file was in gives -- provided the file does not change while
\* the agent builds.  (TLC shows the build_atomicity run violating this
\* when it may.)
THEOREM BuildRefinement ==
    ASSUME EditsWhileBuilding = FALSE
    PROVE  Spec => BuildIsAtomic
<1>1. Init => IInv
    BY InitIInv
<1>2. IInv /\ [Next]_vars => IInv'
    BY Zenon, NextIInv
<1>3. IInv /\ [Next]_vars => [Atomic!Next]_Atomic!vars
    BY Zenon, StepRefines
<1>4. Init => Atomic!Init
    BY InitRefines
<1>5. QED
    BY <1>1, <1>2, <1>3, <1>4, PTL DEF Spec, BuildIsAtomic, Atomic!Spec

=============================================================================
