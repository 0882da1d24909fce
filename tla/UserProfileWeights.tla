------------------------- MODULE UserProfileWeights -------------------------
(***************************************************************************)
(* Weight accounting of the user-profile pallet: the storage reads and     *)
(* writes each path of a call makes (lib.rs), and the setup and arguments  *)
(* each benchmark measures the call with (benchmarking.rs).  The weight    *)
(* generated from a benchmark is charged for every call before dispatch,   *)
(* failed calls included, so the benchmark must measure the heaviest path. *)
(* frame_system's block number and events are whitelisted by the          *)
(* benchmarking framework and not counted.                                 *)
(***************************************************************************)
EXTENDS UserProfile

\* A count of storage accesses, as DbWeight::reads(r) + writes(w).
IO(r, w) == [reads |-> r, writes |-> w]
Within(io, w) == io.reads <= w.reads /\ io.writes <= w.writes

\* set_username: UsernameToAccount::get (line 131), Profiles::get (136),
\* then either the remove of the old mapping (138) or the stats insert
\* (143), then the Profiles and UsernameToAccount inserts (157-158).
SetUsernameIO(s, who, username) ==
  CASE ~Fits(username, MaxUsernameLength) -> IO(0, 0)
    [] TakenByOther(s, who, username) -> IO(1, 0)
    [] OTHER -> IO(2, 1 + 2)

\* update_profile: Profiles::get (182) and contains_key (191), the stats
\* insert when absent (192); for a username, UsernameToAccount::get (206),
\* remove and insert (213, 217); the Profiles insert (235) once the avatar
\* and bio checks (221-232) pass.
UpdateProfileIO(s, who, username, avatar, bio) ==
  LET stats == IF who \in DOMAIN s.stats THEN 0 ELSE 1
      named == IF username = None THEN 0 ELSE 1
  IN CASE username # None /\ ~Fits(username.some, MaxUsernameLength) -> IO(2, stats)
       [] username # None /\ TakenByOther(s, who, username.some) -> IO(3, stats)
       [] \/ SetsValue(avatar) /\ ~AvatarFits(avatar.some.some)
          \/ SetsValue(bio) /\ ~Fits(bio.some.some, MaxBioLength) ->
            IO(2 + named, stats + 2 * named)
       [] OTHER -> IO(2 + named, stats + 2 * named + 1)

\* update_stats: UserStatsMap::get (262) and insert (279).
UpdateStatsIO(s, who, given) == IO(1, 1)

-----------------------------------------------------------------------------
(* The benchmarks, run against the mock runtime from an empty storage.    *)

\* The bounds the mock runtime configures (mock.rs, Config for Test).
MockMaxUsernameLength == 32
MockMaxBioLength == 256

EmptyStorage == [profiles |-> <<>>, stats |-> <<>>, index |-> <<>>]

\* whitelisted_caller() and account("caller", 0, SEED): one account.
BenchCaller == CHOOSE a \in Accounts : TRUE

\* The byte-string literals the benchmarks pass.
BenchName == <<"t", "e", "s", "t", "u", "s", "e", "r">>
BenchNewName == <<"n", "e", "w", "u", "s", "e", "r">>
BenchBio == <<"M", "y", " ", "b", "i", "o">>

\* Mutant: the update_profile setup also creates the caller's stats entry,
\* as any profile created by a call has one.
BenchUpdateProfileSetupWithStats ==
  [profiles |-> BenchCaller :> [account |-> BenchCaller, username |-> BenchName,
                                avatar |-> None, bio |-> None, created_at |-> 1],
   stats |-> BenchCaller :> DefaultStats,
   index |-> BenchName :> BenchCaller]

\* update_profile's setup inserts a profile named "testuser" and its index
\* entry, but no stats entry.
BenchUpdateProfileSetup ==
  [profiles |-> BenchCaller :> [account |-> BenchCaller, username |-> BenchName,
                                avatar |-> None, bio |-> None, created_at |-> 1],
   stats |-> <<>>,
   index |-> BenchName :> BenchCaller]

\* update_stats' setup inserts UserStats::default() for the caller, and the
\* call sets all four fields.
BenchUpdateStatsSetup == [EmptyStorage EXCEPT !.stats = BenchCaller :> DefaultStats]
BenchStats == [total_races |-> Some(10), wins |-> Some(5),
               total_distance |-> Some(1000), total_rewards |-> Some(5000)]

\* Each benchmark: the call's result, its verify block, and the storage
\* accesses it measures.
Benchmarks ==
  LET su == SetUsernameBody(EmptyStorage, BenchCaller, BenchName)
      up == UpdateProfileBody(BenchUpdateProfileSetup, BenchCaller, Some(BenchNewName),
                              None, Some(Some(BenchBio)))
      us == UpdateStatsBody(BenchUpdateStatsSetup, BenchCaller, BenchStats)
  IN [set_username |->
        [ok |-> su.result = "Ok" /\ BenchCaller \in DOMAIN su.storage.profiles,
         io |-> SetUsernameIO(EmptyStorage, BenchCaller, BenchName)],
      update_profile |->
        [ok |-> up.result = "Ok" /\ up.storage.profiles[BenchCaller].username = BenchNewName,
         io |-> UpdateProfileIO(BenchUpdateProfileSetup, BenchCaller, Some(BenchNewName),
                                None, Some(Some(BenchBio)))],
      update_stats |->
        [ok |-> us.result = "Ok"
                /\ us.storage.stats[BenchCaller].total_races = BenchStats.total_races.some,
         io |-> UpdateStatsIO(BenchUpdateStatsSetup, BenchCaller, BenchStats)]]

-----------------------------------------------------------------------------

\* Each benchmark passes its verify block and measures the heaviest path of
\* its call: from every reachable storage, no call by any account with any
\* arguments (failing ones included) reads or writes more than the benchmark
\* did.  The update_profile benchmark reaches the stats insert of line 192
\* only because its setup writes a profile without stats, a state no call
\* sequence produces.
BenchmarksMeasureHeaviestPath ==
  /\ \A call \in DOMAIN Benchmarks : Benchmarks[call].ok
  /\ \A who \in Accounts :
       /\ \A u \in UsernameArg :
            Within(SetUsernameIO(Storage, who, u), Benchmarks.set_username.io)
       /\ \A u \in Option(UsernameArg), a \in Option(Option(AvatarArg)),
             b \in Option(Option(BioArg)) :
            Within(UpdateProfileIO(Storage, who, u, a, b), Benchmarks.update_profile.io)
       /\ \A given \in StatsArg :
            Within(UpdateStatsIO(Storage, who, given), Benchmarks.update_stats.io)
=============================================================================
