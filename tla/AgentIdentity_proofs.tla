------------------------ MODULE AgentIdentity_proofs ------------------------
(***************************************************************************)
(* Proofs that AgentIdentity's type invariant and its safety properties   *)
(* hold for every value of the constants.                                 *)
(*                                                                         *)
(* None of the properties is inductive by itself: DiskHoldsRunningAk needs *)
(* to know the AK created is the one StoreWrite writes, AkMatchesConfig   *)
(* that the snapshot still holds the configured algorithms, and           *)
(* RegenerationsBounded that a start which will create an AK has already  *)
(* been paid for by the first start, an edit or a fault.  IInv adds these *)
(* facts; Debt is 1 exactly when the next AK creation is still to come.   *)
(***************************************************************************)
EXTENDS AgentIdentity, TLAPS

\* The next start (or the start in progress) will have to create an AK.
Need ==
    \/ phase = "down" /\ ~(disk \in Records /\ valid(disk, cfgHash, cfgSign))
    \/ phase = "loaded" /\ ~Reusable(snap)

Debt == IF Need THEN 1 ELSE 0

\* The part of IInv that bounds the AKs created.
GenInv == gen + Debt <= 1 + edits + faults

IInv ==
    /\ TypeOK
    /\ (phase = "down") <=> (snap = None)
    /\ phase # "down" => snap.hash_alg = cfgHash /\ snap.sign_alg = cfgSign
    /\ phase \in {"created", "writing", "up"} =>
           /\ ak \in Records
           /\ ak.hash = snap.hash_alg /\ ak.sign = snap.sign_alg
    /\ phase = "loaded" => snap.tpm_data = Load(disk)
    /\ phase = "up" => disk = ak
    /\ GenInv

USE ConstAssumption

LEMMA InitIInv == Init => IInv
<1> SUFFICES ASSUME Init PROVE IInv
    OBVIOUS
<1>1. TypeOK
    BY DEF Init, TypeOK
<1>2. Need
    BY DEF Init, Need
<1>3. QED
    BY <1>1, <1>2 DEF Init, IInv, GenInv, Debt

LEMMA TypeStep == TypeOK /\ IInv /\ [Next]_vars => TypeOK'
<1> SUFFICES ASSUME IInv, [Next]_vars PROVE TypeOK'
    OBVIOUS
<1> USE DEF IInv, TypeOK
<1>1. CASE \E h \in HashAlgs, s \in SignAlgs : EditConfig(h, s)
    BY <1>1 DEF EditConfig
<1>2. CASE Start
    BY <1>2 DEF Start, Snapshots, Load
<1>3. CASE ReuseAk
    <2>1. snap \in Snapshots /\ snap.tpm_data # None
        BY <1>3 DEF ReuseAk, Reusable
    <2>2. QED
        BY <1>3, <2>1 DEF ReuseAk, Snapshots
<1>4. CASE CreateAk
    BY <1>4 DEF CreateAk, Records, Snapshots
<1>5. CASE StoreCreate
    BY <1>5 DEF StoreCreate
<1>6. CASE StoreWrite
    BY <1>6 DEF StoreWrite
<1>7. CASE Crash
    BY <1>7 DEF Crash
<1>8. CASE Stop
    BY <1>8 DEF Stop
<1>9. CASE UNCHANGED vars
    BY <1>9 DEF vars
<1>10. QED
    BY <1>1, <1>2, <1>3, <1>4, <1>5, <1>6, <1>7, <1>8, <1>9 DEF Next

LEMMA DebtType == Debt \in {0, 1} /\ Debt' \in {0, 1}
BY DEF Debt

LEMMA NextIInv == IInv /\ [Next]_vars => IInv'
<1> SUFFICES ASSUME IInv, [Next]_vars PROVE IInv'
    OBVIOUS
<1>0. TypeOK'
    BY TypeStep DEF IInv
<1>g. GenInv /\ gen \in Nat /\ edits \in Nat /\ faults \in Nat
    BY DEF IInv, GenInv, TypeOK
<1>1. ASSUME NEW h \in HashAlgs, NEW s \in SignAlgs, EditConfig(h, s)
      PROVE IInv'
    <2>1. GenInv'
        <3>1. gen' = gen /\ edits' = edits + 1 /\ faults' = faults
            BY <1>1 DEF EditConfig
        <3>2. QED
            BY <3>1, <1>g DEF GenInv, Debt
    <2>2. QED
        BY <1>0, <1>1, <2>1 DEF EditConfig, IInv, GenInv
<1>2. CASE Start
    <2>1. Need' = Need
        BY <1>2 DEF Start, Need, Reusable, Load, IInv
    <2>2. GenInv'
        BY <1>2, <1>g, <2>1 DEF Start, GenInv, Debt
    <2>3. snap' \in Snapshots
        BY <1>2 DEF Start, Snapshots, Load, IInv, TypeOK
    <2>4. QED
        BY <1>0, <1>2, <2>2, <2>3 DEF Start, IInv, GenInv
<1>3. CASE ReuseAk
    <2>1. ~Need'
        BY <1>3 DEF ReuseAk, Need
    <2>2. GenInv'
        BY <1>3, <1>g, <2>1, DebtType DEF ReuseAk, GenInv, Debt
    <2>3. ak' \in Records /\ ak'.hash = snap.hash_alg /\ ak'.sign = snap.sign_alg
        BY <1>3 DEF ReuseAk, Reusable, valid, IInv, TypeOK, Snapshots
    <2>4. disk = ak'
        BY <1>3 DEF ReuseAk, Reusable, IInv, Load
    <2>5. QED
        BY <1>0, <1>3, <2>2, <2>3, <2>4 DEF ReuseAk, IInv, GenInv
<1>4. CASE CreateAk
    <2>1. Need /\ ~Need'
        BY <1>4 DEF CreateAk, Need
    <2>2. GenInv'
        BY <1>4, <1>g, <2>1 DEF CreateAk, GenInv, Debt
    <2>3. QED
        BY <1>0, <1>4, <2>2 DEF CreateAk, IInv, GenInv, TypeOK, Records, Snapshots
<1>5. CASE StoreCreate
    <2>1. ~Need /\ ~Need'
        BY <1>5 DEF StoreCreate, Need
    <2>2. GenInv'
        BY <1>5, <1>g, <2>1 DEF StoreCreate, GenInv, Debt
    <2>3. QED
        BY <1>0, <1>5, <2>2 DEF StoreCreate, IInv, GenInv
<1>6. CASE StoreWrite
    <2>1. ~Need /\ ~Need'
        BY <1>6 DEF StoreWrite, Need
    <2>2. GenInv'
        BY <1>6, <1>g, <2>1 DEF StoreWrite, GenInv, Debt
    <2>3. QED
        BY <1>0, <1>6, <2>2 DEF StoreWrite, IInv, GenInv
<1>7. CASE Crash
    <2>1. GenInv'
        <3>1. gen' = gen /\ edits' = edits /\ faults' = faults + 1
            BY <1>7 DEF Crash
        <3>2. QED
            BY <3>1, <1>g DEF GenInv, Debt
    <2>2. QED
        BY <1>0, <1>7, <2>1 DEF Crash, IInv, GenInv
<1>8. CASE Stop
    <2>1. ~Need /\ ~Need'
        BY <1>8 DEF Stop, Need, valid, IInv
    <2>2. GenInv'
        BY <1>8, <1>g, <2>1 DEF Stop, GenInv, Debt
    <2>3. QED
        BY <1>0, <1>8, <2>2 DEF Stop, IInv, GenInv
<1>9. CASE UNCHANGED vars
    BY <1>0, <1>9 DEF vars, IInv, GenInv, Debt, Need, Reusable, valid, Load
<1>10. QED
    BY <1>1, <1>2, <1>3, <1>4, <1>5, <1>6, <1>7, <1>8, <1>9 DEF Next

LEMMA IInvSafe == IInv => AkMatchesConfig /\ DiskHoldsRunningAk /\ RegenerationsBounded
BY DebtType DEF IInv, GenInv, AkMatchesConfig, DiskHoldsRunningAk, RegenerationsBounded, TypeOK

\* Every reachable state is well typed: the record on disk, the snapshot and
\* the AK in use always have the shapes TpmData and KeylimeConfig give them.
THEOREM TypeCorrect == Spec => []TypeOK
<1>1. Init => IInv
    BY InitIInv
<1>2. IInv /\ [Next]_vars => IInv'
    BY NextIInv
<1>3. IInv => TypeOK
    BY DEF IInv
<1>4. QED
    BY <1>1, <1>2, <1>3, PTL DEF Spec

\* For every set of algorithms and every number of edits and faults, an
\* agent never runs with an AK made for other algorithms than it was
\* configured with (TpmData::valid), while it runs tpmdata.json holds that
\* AK, and it creates a new AK only after a first start, an edit or a fault.
THEOREM Safety == Spec => [](AkMatchesConfig /\ DiskHoldsRunningAk /\ RegenerationsBounded)
<1>1. Init => IInv
    BY InitIInv
<1>2. IInv /\ [Next]_vars => IInv'
    BY NextIInv
<1>3. QED
    BY <1>1, <1>2, IInvSafe, PTL DEF Spec


\* While the agent runs, tpmdata.json holds the AK it works with (the store
\* in create_ak / the valid-record path of the start), for every set of
\* algorithms, edits and faults: a restart finds the AK in use.
THEOREM DiskHoldsRunningAkHolds == Spec => []DiskHoldsRunningAk
BY Safety, PTL

\* The number of AKs the agent has created never exceeds one per first
\* start, configuration edit and crash or failed store, for every bound.
THEOREM RegenerationsBoundedHolds == Spec => []RegenerationsBounded
BY Safety, PTL

-----------------------------------------------------------------------------
(* The start sequence implements the abstract identity. *)

\* IInv, and what the refinement needs besides: an AK is only created when
\* the stored one does not match the configuration, and while the record
\* is written the file is the truncated one File::create left.
RInv ==
    /\ IInv
    /\ phase = "created" => ~Identity!Matches(StoredAk)
    /\ phase = "writing" => disk = Partial

LEMMA InitRInv == Init => RInv
BY InitIInv DEF Init, RInv

LEMMA NextRInv == RInv /\ [Next]_vars => RInv'
<1> SUFFICES ASSUME RInv, [Next]_vars PROVE RInv'
    OBVIOUS
<1>1. IInv'
    BY NextIInv DEF RInv
<1>2. CASE CreateAk
    <2>1. /\ snap.tpm_data = Load(disk)
          /\ snap.hash_alg = cfgHash /\ snap.sign_alg = cfgSign
          /\ ~Reusable(snap)
        BY <1>2 DEF CreateAk, RInv, IInv
    <2>2. QED
        BY <1>1, <1>2, <2>1
           DEF CreateAk, RInv, Identity!Matches, StoredAk, Load, Reusable, valid
<1>3. CASE StoreCreate
    BY <1>1, <1>3 DEF StoreCreate, RInv
<1>4. CASE \/ \E h \in HashAlgs, s \in SignAlgs : EditConfig(h, s)
           \/ Start \/ ReuseAk \/ StoreWrite \/ Crash \/ Stop
    BY <1>1, <1>4 DEF EditConfig, Start, ReuseAk, StoreWrite, Crash, Stop, RInv
<1>5. CASE UNCHANGED vars
    BY <1>1, <1>5 DEF vars, RInv, StoredAk, Identity!Matches
<1>6. QED
    BY <1>2, <1>3, <1>4, <1>5 DEF Next

\* The initial state is the abstract one: down, and no tpmdata.json.
LEMMA InitRefines == Init => Identity!Init
BY DEF Init, Identity!Init, StoredAk

\* Each step of the start sequence is a step of the abstract identity, or
\* leaves what it sees unchanged.
LEMMA StepRefines ==
    RInv /\ [Next]_vars => [Identity!Next]_Identity!avars
<1> SUFFICES ASSUME RInv, [Next]_vars
             PROVE  [Identity!Next]_Identity!avars
    OBVIOUS
<1>1. IInv /\ TypeOK
    BY DEF RInv, IInv
<1>2. ASSUME NEW h \in HashAlgs, NEW s \in SignAlgs, EditConfig(h, s)
      PROVE  Identity!Edit(h, s)
    BY <1>2 DEF EditConfig, Identity!Edit, StoredAk
<1>3. CASE Start \/ CreateAk
    BY <1>3 DEF Start, CreateAk, Identity!avars, StoredAk
<1>4. CASE ReuseAk
    <2>1. /\ snap.tpm_data = Load(disk)
          /\ snap.hash_alg = cfgHash /\ snap.sign_alg = cfgSign
          /\ Reusable(snap)
        BY <1>4 DEF ReuseAk, RInv, IInv
    <2>2. Identity!Matches(StoredAk)
        BY <2>1 DEF Identity!Matches, StoredAk, Load, Reusable, valid
    <2>3. Identity!Run
        BY <1>4, <2>2 DEF ReuseAk, Identity!Run, StoredAk
    <2>4. QED
        BY <2>3 DEF Identity!Next
<1>5. CASE StoreCreate
    <2>1. Identity!Discard
        BY <1>5 DEF StoreCreate, RInv, Identity!Discard, StoredAk
    <2>2. QED
        BY <2>1 DEF Identity!Next
<1>6. CASE StoreWrite
    <2>1. /\ disk = Partial
          /\ ak \in Records
          /\ ak.hash = cfgHash /\ ak.sign = cfgSign
        BY <1>6 DEF StoreWrite, RInv, IInv
    <2>2. ~Identity!Matches(StoredAk)
        BY <2>1 DEF Identity!Matches, StoredAk
    <2>3. StoredAk' = ak
        BY <1>6, <2>1 DEF StoreWrite, StoredAk
    <2>4. ak \in {x \in Identity!AkRecords : x.hash = cfgHash /\ x.sign = cfgSign}
        BY <2>1 DEF Identity!AkRecords, Records
    <2>5. Identity!Run
        BY <1>6, <2>2, <2>3, <2>4 DEF StoreWrite, Identity!Run
    <2>6. QED
        BY <2>5 DEF Identity!Next
<1>7. CASE Crash \/ Stop
    <2>1. CASE phase = "up"
        BY <1>7, <2>1 DEF Crash, Stop, Identity!Next, Identity!Halt, StoredAk
    <2>2. CASE phase # "up"
        BY <1>7, <2>2 DEF Crash, Stop, Identity!avars, StoredAk
    <2>3. QED
        BY <2>1, <2>2
<1>8. CASE UNCHANGED vars
    BY <1>8 DEF vars, Identity!avars, StoredAk
<1>9. QED
    BY <1>2, <1>3, <1>4, <1>5, <1>6, <1>7, <1>8 DEF Next, Identity!Next

\* The start sequence of the agent, with crashes between any two of its
\* steps, implements the abstract identity: the stored AK is kept while it
\* matches the configuration, and replaced only by an AK for the
\* configured algorithms, after the stale one was given up.
THEOREM IdentityRefinement == Spec => IdentityRefines
<1>1. Spec => []RInv
    BY InitRInv, NextRInv, PTL DEF Spec
<1>2. QED
    BY <1>1, InitRefines, StepRefines, PTL
       DEF Spec, IdentityRefines, Identity!Spec

=============================================================================
