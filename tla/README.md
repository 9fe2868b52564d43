# TLA+ models of the keylime agent's configuration, identity record and key shares

This directory holds TLA+ specifications of `src/src/common.rs` of the rust
keylime agent. It also holds TLC configurations that model-check them on small
instances, and TLAPS proofs, for every value of the constants, of the
configuration's precedence properties, of the stepwise build implementing the
atomic one, and of the identity-record and key-share properties.

## The system

`common.rs` has three parts with state and failure paths:

* **Configuration resolution.** At startup, `KeylimeConfig::build` (lines
  233–383) reads about thirty settings and produces one immutable snapshot.
  It reads them through three resolvers:
  * `config_get` (527–554) reloads the INI file on every call, from the path
    `config_file_get` gives (466–478).
  * `config_get_env` (563–575) lets a non-empty environment variable override
    the file.
  * `get_uuid` (433–457) normalises the agent UUID.

  Most lookups end in `?`, so the first failing lookup aborts the build.
  Others fall back to defaults:
  * the contact address and port (490–518);
  * `work_dir`;
  * the revocation actions;
  * the defaulted booleans;
  * `run_as`, which is read only when the effective uid is 0.

  `build` also loads the identity record `<work_dir>/tpmdata.json` if it exists
  and parses (288–303).
* **Identity record.** `TpmData` (169–197) holds the algorithms of the
  attestation key (AK) and the AK's context:
  * `load` opens and parses the record.
  * `store` is `File::create`, which truncates, followed by a write.
  * `valid` compares the record's algorithms with the configured ones.

  The agent's main program is outside `src/`. It reuses the loaded AK when
  `valid` holds, and otherwise creates a new AK and stores it (spec 4.3).
* **SymmKey** (122–167). This is a key of 16 or 32 bytes. `try_from` checks the
  length, and `xor` combines two keys of equal length. The agent combines its U
  and V key shares with `xor`.

These parts interact through the snapshot:
* The snapshot's algorithms and `tpm_data` decide whether the AK is reused.
* The snapshot's `work_dir` decides where the record is read and written.
* `SymmKey` is used later, independently of the other two.

## Modules

| Module | Models | State | Actions |
|---|---|---|---|
| `KeylimeConfig` | `build` and every resolver it calls | `env`, `file` (key → text or `Absent`), `sections`, `confAt` (paths where a config file exists), `euid`, `phase`, `config` (snapshot), `error` | `SetEnv`, `EditFile`, `SetSections`, `SetConfAt`, `SetEuid` (operator changes while stopped), `Start` (= `build`), `Stop` |
| `AgentIdentity` | `TpmData` load/store/valid and the reuse-or-create decision, across restarts, algorithm edits and crashes | `cfgHash`, `cfgSign`, `disk` (None, `Partial` or a record), `phase`, `snap`, `ak`, `gen`, `edits`, `faults` | `EditConfig`, `Start`, `ReuseAk`, `CreateAk`, `StoreCreate`, `StoreWrite`, `Crash`, `Stop` |
| `SymmKey` | `try_from`, `xor`, and the delivery and combination of shares | `u`, `v`, `k`, `kFrom`, `lastErr` | `Deliver(slot, bytes)`, `Combine` |
| `KeylimeConfigNames` | the constants, sections, keys and variables of the configuration, and the `Text` abstraction | | |
| `ConfigBuildSteps` | `build` one lookup at a time, each `config_get` reloading the file, with operator edits between lookups | `KeylimeConfig`'s variables, plus `pos` (next lookup), `acc` (values so far), `fresh` (this build's `Uuid::new_v4`) | `BeginBuild`, `BuildStep` (one `?`-ended lookup, the last returning the snapshot), `EditFile`, `SetSections`, `SetConfAt` (allowed during a build when `EditsWhileBuilding`), `SetEnv`, `SetEuid`, `Stop` |
| `AgentIdentityAbstract` | what the agent promises of its AK (spec 3, 4.3): the stored AK is kept while it matches the configured algorithms and replaced only by one made for them | `cfgHash`, `cfgSign`, `up`, `key` (the stored AK or `None`) | `Edit`, `Discard` (a stale record given up while down), `Run`, `Halt` |
| `KeylimeConfig_proofs`, `ConfigBuildSteps_proofs`, `AgentIdentity_proofs`, `SymmKey_proofs` | TLAPS proofs about the module each is named after | | |
| `ConfigBuildSteps_paths` | TLAPS proofs of `ConfigBuildSteps`' `TypeOK` and `IdentityPathsAgree` with edits allowed during a build | | |
| `MC_KeylimeConfig`, `MC_ConfigBuildSteps`, `MC_ConfigValues`, `MC_AgentIdentity`, `MC_SymmKey` | constants for TLC | | |

### How the models correspond to the code

**Text.** In `KeylimeConfig`, a string is abstracted to a *Text*: a word plus
whether it was written in upper case. That is all that the following can tell
apart:
* `to_lowercase`;
* `bool::from_str` (which accepts exactly `true` and `false`);
* the literal matches (`"default"`, `"openstack"`, …);
* `Uuid::parse_str`, which accepts either case and a dashed or simple form, and
  prints the canonical form.

`Numerals` is the part of `parse::<u32>` the runs use.

**Results.** `ResolveIn(fresh, wd)` evaluates every lookup as a Result. `Build` returns the
failing lookup that comes first in `BuildOrder`, the order of the `?` returns
in `build`; if none fails, it returns the whole snapshot. `Resolve` reads `work_dir` once and passes it
to `ResolveIn`, as `build` reuses its `work_dir` for the paths. Because `build` makes
no state change before it returns, computing every lookup and then picking the
first error is the same as stopping at the first one.

**Lookup by lookup, and the refinement.** `KeylimeConfig`'s `Start` builds
the snapshot from one state of the file, which is what spec 2 describes.
`ConfigBuildSteps` is closer to the code: `Fields` lists the snapshot's
fields in the order `build` computes them, and each `BuildStep` makes one
lookup against the file as it is at that moment (`config_get` calls
`Ini::load_from_file` every time, line 529). The path fields use the
`work_dir` already stored in `acc`. `ConfigBuildSteps` instantiates
`KeylimeConfig` as `Atomic`, mapping `"building"` to `"stopped"`: a build in
progress looks like an agent that has not started yet. `BuildIsAtomic ==
Atomic!Spec` says that the stepwise build implements the atomic one.

**The identity record.** In `AgentIdentity`, a record is
`[hash, sign, ctx]`, where `ctx` numbers the AK. `Load` gives `None` for a
missing or unparsable file, as the warning branches of `build` do. `store` is
split into `StoreCreate` (the file is truncated to `Partial`) and `StoreWrite`.
`Crash` covers both a process death and the `?` of a failing `File::create` or
write; either way the agent ends. `AgentIdentity` instantiates
`AgentIdentityAbstract` as `Identity`. The mapping: `up` is phase `"up"`, so
loading, creating and writing happen while the abstract agent is still down.
`key` is `StoredAk`, the record in the file, or `None` for no file and for a
truncated one. Under it, `ReuseAk` is `Run` keeping the key. `StoreCreate` is
`Discard`. `StoreWrite` is `Run` with a new key. `Stop`, and a `Crash` of a
running agent, are `Halt`. The other steps leave the abstract state as it is.

**Key shares.** In `SymmKey`, bytes are numbers and `ByteXor` is the
bit-by-bit xor, written as a recursive function. The share slots and
`Combine` are modelled from the spec, because their callers are outside `src/`.

## Runs

| Run | Checks | Shows |
|---|---|---|
| `config_precedence` | `TypeOK`, `EnvOutranksFile`, `WorkDirPaths` | Set, empty and unset variables, against present and missing keys, a missing section, and a missing or relocated file. A non-empty variable wins and an empty one is ignored. A required setting found nowhere aborts the build. The CA path and `tpmdata.json` follow the resolved `work_dir` (including `""`), and the record is loaded exactly when that directory holds a good one. |
| `config_values` | `OptionalAbsenceTolerated`, `UuidCanonical`, `LegacyListenKey` | The texts settings are parsed from. A configured UUID keeps its identity in any case and form, and the placeholders are recognised only in lower case. The legacy `listen_notfications` key is used only when the current key is missing. Leaving out an optional setting never aborts the build. |
| `config_malformed_bool` (violation) | `MalformedBoolRejected` | `mtls_cert_enabled = no` starts with mTLS on. |
| `config_run_as_empty` (violation) | `RunAsEmptyNoDrop` | `run_as =` gives `Some("")`. |
| `config_contact_port` (violation) | `ContactPortIsPort` | Ports 0 and 70000 are accepted. |
| `identity_lifecycle` | `TypeOK`, `AkMatchesConfig`, `DiskHoldsRunningAk`, `RegenerationsBounded`, `Recovers` | Up to 2 algorithm edits and 2 crashes, at any point, including between truncate and write. |
| `identity_refines` | `IdentityRefines` | The same instance without fairness: every behaviour is one of `AgentIdentityAbstract`, so a stored AK is never overwritten or truncated while it matches the configuration. |
| `config_revocation_env` (violation) | `RevocationEnvHonoured` | `REVOCATION_IP`/`REVOCATION_PORT` set: the snapshot keeps the file's revocation address. |
| `build_refines` | `TypeOK`, `BuildIsAtomic` | No edits during a build: the stepwise build refines the atomic `Start`, including which lookup's error ends a build. |
| `build_interleaved` | `IdentityPathsAgree` | Edits of `keylime_dir`, `keylime_ca`, `registrar_ip`, the sections and the file's location between any two lookups. `tpm_data_path`, the record loaded and a default CA path all follow the one `work_dir` the snapshot reports. |
| `build_atomicity` (violation) | `BuildIsAtomic` | An edit between two lookups gives a snapshot that no single version of the file gives. |
| `symmkey_combine` | `TypeOK`, `CombinedLengthPreserved` | Every byte string of 0–3 two-bit bytes, delivered as either share in any order. The key lengths are scaled to 1 and 2. |

Every property of a passing run has a mutant in `PROJECT.json`. A mutant is a
plausible bug in the modelled code, and TLC finds it. Examples:
* an empty variable taken as an override;
* UUID case kept;
* the record read from the default directory;
* the legacy key tried first;
* a failed build's error dropped;
* `valid` comparing only the hash;
* a truncated file taken for a record;
* the write's error ignored in `store`;
* the record found never;
* an unreadable record made fatal;
* the length check dropped from `xor`;
* the lookups made in another order than `build`'s;
* a build that keeps the previous build's values;
* `work_dir` re-read for each path instead of reused.

### Findings

* **Mixed snapshot** (spec gap, line 529). Spec 2 calls the snapshot an
  immutable record populated once. The code reloads the file for each of
  about thirty lookups, so an edit during startup mixes two versions: TLC
  shows an agent running with the old `registrar_ip` and the new rest.
  `build_interleaved` shows what stays safe: the identity paths are derived
  from one `work_dir`.
* **`REVOCATION_IP` ignored** (spec/code divergence, line 271).
  `revocation_ip_get`/`revocation_port_get` read the environment first, as
  their comments and spec 4.1 say, but `build` never calls them.
* `mtls_cert_enabled = no`, `run_as =`, and contact ports 0 and 70000: see
  the violation runs above.

### Bounds

* **Configuration runs.** Each run varies a handful of keys and variables over
  the values that take every branch of the code it exercises, and keeps every
  other key at one good value. Other keys do not interact with the ones varied:
  each lookup depends only on its own key, its variable, the file's location
  and its section.
* **Stepwise build.** `keylime_dir` takes two values and `Absent`,
  `keylime_ca` the default and a path, `registrar_ip` a value and `Absent`,
  `KEYLIME_DIR` set and unset; sections and the file's location may vanish.
  That is every branch of the path derivation and a required key appearing
  or disappearing between lookups, with 29 lookups per build.
* **Two UUIDs** are enough to tell "kept its identity" from "replaced".
* **Two edits and two faults** reach every order in which a stale, truncated or
  good record can meet a start.
* **Keys of 1 and 2 bytes, with inputs of 0–3 bytes**, give:
  * a valid share of each length;
  * an invalid length below (0) and above (3) the valid ones;
  * every mismatched pair.

  Two-bit bytes give `ByteXor` two bit positions, so an error that
  confuses or mixes positions shows.

### Fairness

`identity_lifecycle` assumes weak fairness of `Start`, `ReuseAk`, `CreateAk`,
`StoreCreate` and `StoreWrite`:
* Startup is one sequential program; once it has begun, its next step stays
  enabled until it is taken (spec 5).
* A stopped or crashed agent is started again by its service manager.

Edits, crashes and stops get no fairness, and they are bounded. `Recovers`
therefore says: once the operator and the faults stop interfering, the agent
runs with its AK on disk, whatever half-written file a crash left behind.

## Proofs

`KeylimeConfig_proofs` proves, for every environment, file, section set,
uid and set of identity records, under `ConfigAssumption` and
`NoneAssumption` (`Option::None` is not the loaded record):
* **`EnvOutranksFileHolds`:** `Spec => []EnvOutranksFile`.
* **`WorkDirPathsHold`:** `Spec => []WorkDirPaths`.
* **`LegacyListenKeyHolds`:** `Spec => []LegacyListenKey`.
* **`UuidCanonicalHolds`:** `Spec => []UuidCanonical`. This one also
  assumes `UuidAssumption`, which encodes the UUID text format
  `Uuid::parse_str` reads:
  * distinct UUIDs have distinct simple forms;
  * a simple form is neither a hyphenated one nor `openstack`, `hash_ek` or
    `generate`;
  * no UUID is one of those words.

  The lemma `GetUuid` follows `get_uuid`'s arms in the code's match order.
* **`OptionalAbsenceToleratedHolds`:** `Spec => []OptionalAbsenceTolerated`.
  Leaving out an optional setting never stops the agent. The argument:
  * `FailedTolerable`: a failing `Build` returns the error of the first
    failing lookup of `BuildOrder`.
  * `LookupErrors`: every lookup fails, if at all, in one of two ways.
    Either it names a required key (`ErrKeys`: `config_get`,
    `config_get_env` and `bool::from_str` fail with the key they were
    asked for). Or it is `agent_contact_port` or
    `allow_payload_revocation_actions`, which fail only on a value that
    was present and malformed.
  * For this property, `IInv` also records that a failed agent's `error`
    is the error of a build on the current state (`Failed`).

The inductive invariant `IInv` says that `file` maps keys to texts or
`Absent`, and that a running agent's snapshot is `Build(id).val` of a
successful build on the *current* state, for some UUID. It holds because
every operator change needs a stopped agent, so the inputs `build` read
cannot change while the agent runs (`BuildUnchanged`). `BuildOk` turns a
successful `Build` into "every lookup of `BuildOrder` succeeded". Each
property is then a fact about one field's lookup (`ResolveFields`,
`ConfigGet`, `ConfigGetEnv`). `config_get`, `get_uuid`, the contact-port lookup,
the lenient booleans and the properties are written as `IF` chains rather than `CASE`, for two reasons:
* The code tests in a fixed order. `config_get` loads, then takes the
  section, then the key (`common.rs` 527-554). `get_uuid` is a first-match
  `match` (433-457). A `CASE` with overlapping arms would choose between
  them arbitrarily.
* The SMT backend does not take `CASE`.

Some leaves name their prover (`Zenon`, `ZenonT(60)`). These are leaves
that unfold the large `ResolveIn` record, or that are purely set and
record reasoning. SMT runs out of time on them, and Zenon proves them.

`ConfigBuildSteps_proofs` proves **`BuildRefinement`**: if
`EditsWhileBuilding = FALSE`, then `Spec => BuildIsAtomic`. So `build`,
made one reloading lookup at a time, implements `KeylimeConfig`'s atomic
`Start` under the mapping "a build in progress is a stopped agent". Its
`IInv` says three things during a build:
* `pos` is in `1..29`;
* `acc` holds exactly the fields before `pos`;
* each of them succeeded with the value the atomic build's `Resolve(fresh)`
  gives.

`IInv` is needed because the last lookup's step must produce `Build`'s whole
snapshot. The step argument has three parts:
* A lookup's `work_dir` is `work_dir_get`'s (`LookupIsResolve`).
* The fields outside `BuildOrder` never fail.
* `Fields` lists `BuildOrder`'s fields in the same order (`FieldIdx`), so
  the first failing lookup is `Build`'s `Min(bad)` (`FirstFailure`,
  `FailStep`), and the last lookup builds the snapshot (`DoneStep`).

`BeginBuild` and the intermediate lookups are stutters. The failing or last
lookup is `Start` with witness `fresh`. Edits, `Stop` and the stutters map
one-to-one. With edits allowed, the hypothesis is false, and the
`build_atomicity` run shows the property failing.

tlapm does not carry a module's theorems through `INSTANCE`. So the facts
about the atomic build that the refinement needs (`MinOfNats`,
`ResolveUnchanged`, ...) are proved again for `Atomic!` in
`ConfigBuildSteps_proofs`.

`AgentIdentity_proofs` proves two theorems for all algorithm sets and all
bounds, under `ConstAssumption`:
* **`TypeCorrect`:** `Spec => []TypeOK`.
* **`Safety`:** `Spec => [](AkMatchesConfig /\ DiskHoldsRunningAk /\ RegenerationsBounded)`,
  with `DiskHoldsRunningAkHolds` and `RegenerationsBoundedHolds` as its
  corollaries for the two properties the runs check.

None of the three properties is inductive on its own, so the proofs use a
stronger invariant, `IInv`. It adds these facts:
* the snapshot is `None` exactly when the agent is down;
* once loaded, the snapshot holds the configured algorithms;
* after creation, the AK matches the snapshot;
* a loaded snapshot holds `Load(disk)`, which is what `ReuseAk` needs in order
  to keep `disk = ak`;
* `gen + Debt <= 1 + edits + faults`.

`Debt` is 1 when the next start, or the start in progress, must create an AK.
It is needed because the first start after an edit or a crash creates an AK
only later, while the bound has already been paid for by the edit or fault.

The proof establishes three facts:
* `Init => IInv`;
* `IInv /\ [Next]_vars => IInv'`, with one step per action;
* `IInv` implies each property.

`PTL` then combines them.

`AgentIdentity_proofs` also proves that the start sequence implements the
abstract identity:
* **`IdentityRefinement`:** `Spec => IdentityRefines`. Every step is an
  abstract step or leaves the abstract state unchanged. So no step
  overwrites or truncates a stored AK made for the configured algorithms.

The refinement adds two facts to `IInv` to get `RInv`:
* in phase `"created"` the stored AK does not match the configuration;
* in phase `"writing"` the file is the truncated one.

The first is what makes `StoreCreate` an abstract `Discard`, which may only
drop a stale record. It holds because `CreateAk` requires `~Reusable(snap)`,
the snapshot holds `Load(disk)` and the configured algorithms, and nothing
changes the file or the configuration between them. The second is what makes
`StoreWrite` a `Run` from "no key". `StepRefines` maps each action to its
abstract step (see *The identity record* above).

`ConfigBuildSteps_paths` proves, for every `EditsWhileBuilding`, so with the
file, its sections and its location edited between any two lookups:
* **`TypeOKHolds`:** `Spec => []TypeOK`.
* **`IdentityPathsAgreeHolds`:** `Spec => []IdentityPathsAgree`.

`IdentityPathsAgree` is about the snapshot only, so it is not inductive: the
last lookup builds the snapshot from `acc`. The inductive invariant `PInv`
adds `PathsFrom(acc)`: during a build, each of `tpm_data_path`, `tpm_data`
and `keylime_ca_path` that `acc` already holds agrees with `acc`'s
`work_dir`. It also adds `TInv`: the types, and `acc` holds exactly the
fields before `pos`. The step for the lookup at `pos` then splits on where
`pos` stands:
* Before 21, none of the three paths is in `acc`.
* At 21, 22 or 23, the lookup resolves with `acc`'s `work_dir`
  (`ResolvePaths`). The CA path comes either from that `work_dir` or from
  the file's `keylime_ca` (`CaGet`), and the record is loaded exactly when
  the directory holds one (`TpmLoad`).
* After 23, `acc`'s earlier values are kept.

No edit touches `acc`. The assumption the proof uses is
`StepAssumption`: `None` is not the loaded record, and every key has some
value. `ConfigBuildSteps` states it itself, because tlapm does not carry
the assumptions of an `INSTANCE`d module (`KeylimeConfig`'s
`NoneAssumption`) into the instantiating one.

`SymmKey_proofs` proves **`LengthSafety`**: `Spec => [](KeyLengthsValid /\
CombinedLengthPreserved)` for all key lengths, byte widths and input sets,
under `SymmKeyAssumption`. Every held share or key has one of the two
lengths, and a combined key is as long as both its shares. The inductive
invariant adds that the held shares are byte sequences. The lemma
`LenOfBuilt` (a function over `1..n` is a sequence of length `n`) is the
only fact about `xor`'s result the proof needs, so it never looks at what
`ByteXor` computes.

## Only model-checked

The following stay with TLC:
* **Liveness.** `Recovers` holds under fairness, which TLAPS cannot reason
  about here.
* **`KeylimeConfig`'s `TypeOK`.** It says that a running agent's snapshot
  is not `None`. A proof would need an assumption that the model value
  `None` differs from every record, and TLA+ cannot state that about a
  constant without fixing its values. It is checked on the instances
  above.
* **SymmKey's `TypeOK`.** It needs a
  combined byte to be a byte, `ByteXor(x, y) \in Bytes`. `ByteXor` is a
  function defined by recursion over the bit positions, so that bound is an
  induction over them. The library's induction and recursion theorems take
  an operator parameter, which the installed provers cannot instantiate.

## Not modelled

* `JsonWrapper`, `APIVersion`, the constants and `ima_ml_path_get`: formatting
  and static values, with no state.
* `KeylimeConfig::default`: test only.
* Several agents sharing one `work_dir`: spec 5 accepts this race as a
  limitation.

## Plan for later work

1. **Composition.** A composed module will take `AgentIdentity`'s
   `snap.tpm_data` and `work_dir` from `KeylimeConfig`'s `Build`, so that a
   `KEYLIME_DIR` change orphans the record and forces a new AK.
2. **More proofs.** `KeylimeConfig`'s `TypeOK`, if the configuration's
   snapshot is given a type that `None` can be assumed outside of.
