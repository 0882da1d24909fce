# TLA+ models of the bicycle-bc pallets

This directory models the two FRAME pallets under
`src/packages/solochain-template/pallets/`. You can check them with TLC.

## 1. Inventory

### The system's parts

| Component | Code | State | Operations |
|---|---|---|---|
| Record Store | `user-profile/src/lib.rs` 38-47, 60-66 | `Profiles: AccountId -> UserProfile{account, username, avatar?, bio?, created_at}` | written by `set_username` and `update_profile`, never removed |
| Username Index | lib.rs 72-79 | `UsernameToAccount: BoundedVec -> AccountId` | insert/remove in `set_username` (138, 158) and `update_profile` (213, 217) |
| Stats Store | lib.rs 49-58, 68-70 | `UserStatsMap: AccountId -> UserStats{total_races, wins, total_distance, total_rewards}` | lazily created by both profile calls (143, 191-193); overwritten field by field by `update_stats` |
| Bounded-Text | `BoundedVec<u8, Limit>` | none (a value type) | `try_from`, which fails when the vector is longer than the bound |
| Profile Directory Service | lib.rs 116-291 | the three maps above | `set_username`, `update_profile`, `update_stats` |
| Counter Service | `simple-counter/src/lib.rs` | `Counter: u64` (ValueQuery, default 0) | `increment` (`checked_add`, `Overflow`), `reset` |
| FRAME dispatch (not in the repo) | `#[pallet::call]` | per-call storage layer | authenticates the origin; commits the writes of an `Ok` call and rolls back those of an `Err` call, events included |
| Event sink (frame_system) | `deposit_event` | the block's events | one event per successful call |
| Weights and benchmarks | weights.rs, benchmarking.rs, mock.rs | none | declared DB reads/writes per call, and the setups the weights are measured from (modelled in the `*Weights` modules) |
| Unit tests | tests.rs | none | test harness (not modelled) |

### How the parts interact

The parts communicate only through storage that the dispatchables share. The
runtime applies extrinsics one at a time, and each dispatchable runs to
completion, so nothing runs concurrently. The hard behaviours are the
following:

* **Sequences of calls by several accounts.** The index and the profiles must
  stay a bijection across any order of renames and takeovers.
* **Early returns after writes.** `update_profile` writes `UserStatsMap` (192)
  and `UsernameToAccount` (213-217) before it validates the avatar (221-225)
  and the bio (228-232). Atomicity therefore depends on FRAME's transactional
  storage layer. That layer is FRAME's, not this repository's. `Dispatch`
  assumes it, so the answer to spec §9's open question (the half-written
  state is never committed) is an assumption of the model. No property checks
  it.
* **The empty username.** It is the default username of profiles that
  `update_profile` creates. It is also a valid argument to both calls, so it
  can get an index entry that another account's call then removes.
* **The u64 boundary** of the counter.

### What makes each part correct

* **Directory:**
  * Index bijection (I1).
  * Uniqueness of non-empty names.
  * Every profile has stats.
  * Records and `created_at` persist.
  * Failed calls change nothing.
  * Renaming to the same name is idempotent.
  * Each stats entry belongs to its own account (I2).
  * A call never touches another account's index entry.
* **Counter:**
  * It never wraps around.
  * `Overflow` happens exactly at the maximum.

## 2. Modules

| Module | Models | Composes |
|---|---|---|
| `UserProfile.tla` | the user-profile pallet: the three storage maps, the three dispatchables, FRAME's storage layer (`Dispatch`), the block number | instantiates `UsernameRegistry` as its abstract spec |
| `UsernameRegistry.tla` | the abstract directory: accounts -> usernames, claim a name nobody else holds (the empty default exempt) | — |
| `UserProfileWeights.tla` | the storage reads and writes of each path of each user-profile call, and the three benchmarks of `benchmarking.rs` (setup, call, verify) | extends `UserProfile` |
| `MCUserProfile.tla` | the TLC instances: two or three accounts, symmetry, narrowed argument sets | extends `UserProfileWeights` |
| `SimpleCounter.tla` | the simple-counter pallet | — |
| `SimpleCounterWeights.tla` | the counter's storage accesses per path, the weights declared in `weights.rs`, and its two benchmarks | extends `SimpleCounter` |
| `MCSimpleCounter.tla` | the TLC instance | extends `SimpleCounterWeights` |

### How `UserProfile` corresponds to the code

* **Variables.** `profiles`, `userStatsMap` and `usernameToAccount` are the
  storage maps, written as partial functions. `Insert` and `Delete` are
  `StorageMap::insert` and `StorageMap::remove`. `blockNumber` is
  `frame_system::block_number()`. The `NewBlock` action advances it and
  clears the events, as `frame_system` does at block initialisation.
  `lastEvent` is the last deposited event, with its payload. `lastResult` is
  the `DispatchResult` of the last extrinsic in the block.
* **Call bodies.** `SetUsernameBody`, `UpdateProfileBody` and
  `UpdateStatsBody` each translate one whole dispatchable. Each is a pure
  operator over a storage record, and returns three things:
  * the result;
  * the storage as it stood when the body returned (the writes before an
    early `?` included);
  * the event.
* **Steps.** The steps a plausible bug would change are operators of their
  own, each preceded by its mutant:
  * `TakenByOther`: the taken check;
  * `SetUsernameIndex`: remove the old mapping, then insert the new one;
  * `SetUsernameCreatedAt` and `SetUsernameStats`: the create-or-keep branch
    of `set_username`;
  * `UpdateProfileStats`: the lazy stats entry;
  * `AvatarFits`: the avatar's bound.
* **Dispatch.** `Dispatch` commits that storage and the event on `Ok`, and
  nothing on `Err`. This is FRAME's default behaviour, which the model
  assumes; no change to a call body can alter it. `UnsignedCall` is `ensure_signed` failing with
  `BadOrigin`. Because the bodies are operators, `IdempotentSetUsername` can
  apply `set_username` twice to any reachable state.
* **Arguments.**
  * Usernames: every valid username, plus the shortest over-long one.
  * Avatars and bios: the longest valid vector and the shortest over-long
    one. The code only tests their length.
  * Each `Option<Option<_>>` argument is absent, `Some(None)` or
    `Some(Some(v))`.
  * `update_stats` (`StatsArg`): each field absent or given a value from
    `StatValues`. The MC module narrows this to `MCStatsArg`, where one call
    gives all four fields the same value or leaves them all. The four fields
    are written independently by identical code.
* **Event vectors.** `ProfileUpdated` re-bounds the vectors it was given
  with `try_from(..).unwrap_or_default()` (lines 239-242). `EventBytes`
  models this conversion as what it does: a vector over the bound becomes
  empty.

### Weights and benchmarks

FRAME charges a call's declared weight before it dispatches the call, and it
charges failed calls too. The database part of that weight counts storage
reads and writes, and it is generated from a benchmark. It is therefore only
right if the benchmark takes the call's heaviest path.

* **Access counts.** `SetUsernameIO`, `UpdateProfileIO` and `UpdateStatsIO`
  count the reads and writes of each path through a call body, early returns
  included, line by line.
* **Whitelisted keys.** `frame_system`'s block number and events are left
  out, because the benchmarking framework whitelists them.
* **Benchmarks.** `Benchmarks` applies the bodies to each benchmark's setup
  storage and evaluates its verify block.
  * The literal byte strings (`b"testuser"`, `b"newuser"`, `b"My bio"`)
    and stat values are kept as they are.
  * `new_test_ext` becomes the empty storage.
  * The benchmark run replaces the bounds by the mock runtime's
    (`MockMaxUsernameLength`, `MockMaxBioLength`: 32 and 256), because
    `impl_benchmark_test_suite!` runs the benchmarks in that runtime.
* **Counter.** `SimpleCounterWeights` does the same for increment and reset,
  against the reads and writes declared in `weights.rs`.

## 3. Runs

| Run | Config | Expect | What it shows |
|---|---|---|---|
| `directory_safety` | `MCUserProfile.cfg` | pass | See the list below. |
| `events_match_storage` | `MCUserProfile_Events.cfg` | pass | The last event always describes the storage its call left (`EventMatchesStorage`). UsernameSet gives the profile's name and index entry; ProfileUpdated gives each field that was passed; StatsUpdated gives the stored stats. |
| `rename_chains` | `MCUserProfile_Chains.cfg` | pass | Three accounts contend for the names `""`, `x`, `y` and `z`. Every chain of renames and takeovers keeps `IndexBijection` and `RegistryRefined`. |
| `stats_reset_by_set_username` | `MCUserProfile_StatsReset.cfg` | violation | `update_stats(1)` followed by a first `set_username` resets the stats to 0 (lib.rs:143): a code bug against spec I2 |
| `others_index_entry_removed` | `MCUserProfile_OthersEntry.cfg` | violation | Trace: `set_username(a1, "")`, then `update_profile(a2, Some("x"))`. The second call deletes `"" -> a1` (lib.rs:213). |
| `empty_username_set` | `MCUserProfile_EmptyName.cfg` | violation | `set_username` accepts `""`, which spec §3 excludes |
| `set_username_wipes_avatar_bio` | `MCUserProfile_AvatarWiped.cfg` | violation | `set_username` on an existing profile clears its avatar and bio (lib.rs:151-152). The spec's "unchanged or default" does not say which is meant. |
| `username_set_event_on_rename` | `MCUserProfile_UsernameSetEvent.cfg` | violation | `set_username` deposits `UsernameSet` on a rename too. The event's doc comment (lib.rs:84) says it marks profile creation. |
| `benchmarks_heaviest_path` | `MCUserProfile_Benchmarks.cfg` | pass | Each user-profile benchmark passes its verify block, and no call by any account, from any reachable storage and with any arguments, makes more reads or writes than its benchmark measured. It is checked under the mock runtime's bounds (32 and 256) with the benchmarks' literal inputs. The `update_profile` benchmark is heaviest only because its setup writes a profile without stats, a state no call sequence produces; a setup with stats misses the write of line 192. |
| `counter_weights` | `MCSimpleCounter_Weights.cfg` | pass | The declared weights equal the accesses of the benchmarked paths and cover every path, the Overflow path at the maximum included. Each benchmark's verify block holds. The mutant drops `reads(1)` from increment's declared weight. |
| `counter_safety` | `MCSimpleCounter.cfg` | pass | `CounterOnlyDropsOnReset` and `OverflowOnlyAtMax`, with unsigned calls included |

`directory_safety` checks every sequence of calls by two accounts, unsigned
calls and two blocks included, and shows that:

* the index stays a bijection (`IndexBijection`);
* every profile has stats;
* records and `created_at` persist;
* `set_username` is idempotent;
* the directory refines `UsernameRegistry` (`RegistryRefined`).

Each property of a passing run has a mutant in `PROJECT.json`: a plausible bug
in the code, which TLC reports as a violation of that property.

### Bounds, and why they are enough

* **Accounts.**
  * Two accounts in `directory_safety` and `events_match_storage`. Every
    branch of the code involves the caller and at most one other account:
    the holder of the name, or the holder of the `""` entry.
  * `rename_chains` adds a third account and a third name. To stay within
    five minutes, it narrows the avatar and bio arguments to leaving or
    clearing the field (`MCNoText`). That run is about the index, which
    those arguments never touch.
* **`NameBytes = {"x","y"}`, `MaxUsernameLength = 1`.** This gives the names
  `""`, `"x"` and `"y"`, plus one over-long name. Two non-empty names let one
  account give up a name while the other takes it.
* **`MaxBioLength = 2`,** different from the username bound. An avatar
  validated against the wrong bound then breaks `TypeOK`.
* **`StatValues`.**
  * `{0}` in `directory_safety`, where the stats only need to exist.
  * `{0, 1}` in `events_match_storage` and in the stats-reset run, so that a
    written value differs from the one read.
* **`MaxBlock = 1`.** Two blocks are enough to tell a kept `created_at` from
  a fresh one. The event run uses one block, because `created_at` is not in
  any event.
* **`benchmarks_heaviest_path`.**
  * It uses the mock's bounds, 32 and 256.
  * The usernames are `""` and the two benchmark literals (`MCMockUsernames`),
    plus a 33-byte over-long one. They cannot all be enumerated at length 32.
  * It uses two accounts, one block and the stat value 0.
  * The accesses depend on which entries exist, not on their values.
  * Reachable storages include an account with no stats entry and one with
    a profile, which are the two sides of every branch that changes a count.
* **Counter width of 7 bits.** The maximum is then 127, so the overflow
  boundary is reached.
* **Symmetry** over accounts is sound because the code compares accounts only
  for equality.

### Fairness

None. The pallets do nothing of their own accord: every step is an extrinsic
that some account may or may not submit. So no liveness property is claimed.
No run disables deadlock checking, because some call is always enabled.

## 4. Not modelled

* **Events other than the last one of the block.** Every property reads the
  latest event.
* **The `ref_time` constants of the weights.** Only the database
  reads and writes are compared.
* **The user-profile weights.** `lib.rs:11` declares `pub mod weights`, but
  there is no `weights.rs` under `user-profile/src`. Likewise, the counter's
  benchmark suite names `crate::mock`, which has no file under
  `simple-counter/src`. So there are no declared user-profile weights to
  compare against; the run checks the benchmarks they would be generated
  from instead.
* **The byte lengths that benchmarks pass.** The benchmarks pass 8, 7 and 6
  bytes, against the mock's bounds of 32 and 256 (`mock.rs:39-40`). The
  benchmark run uses exactly these literals and bounds. But the model counts
  storage accesses, not encoded bytes, and nothing in the repository says
  what proof size the weights should cover. So this gap is listed as a
  hazard and has no property.
* **The unit tests, and the mock's `construct_runtime` and `frame_system`
  config.** They are test
  harness.
* **Event fields that no property compares.** `created_at` is not in any
  event; the stats fields are kept whole.
* **Stat values beyond a small set.** The stat fields are only ever
  overwritten, so their width plays no role.
* **Saturation of the block number into u64.** The mock's block number is
  already a u64.

## 5. Plan

1. Done: `UserProfile` with its storage-layer dispatch, `UsernameRegistry` as
   a refinement target, and `SimpleCounter`.
2. Done: unsigned origins (`BadOrigin`), event payloads
   (`EventMatchesStorage`), the event finding, and the three-account
   `rename_chains` run.
3. Done: weights and benchmarks (`UserProfileWeights`,
   `SimpleCounterWeights`).
4. Done: the event's vector conversion, and the benchmark run under the
   mock runtime's bounds and literals.
5. Left out on purpose: a `DirectoryFixed` variant that follows spec §4.2.
   It would insert stats only if absent and never remove another account's
   `""` entry. It would model code that the repository does not contain, so
   the violation runs record the divergences instead.
