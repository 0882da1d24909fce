---------------------------- MODULE UserProfile ----------------------------
(***************************************************************************)
(* The user-profile pallet (pallets/user-profile/src/lib.rs): three       *)
(* storage maps (Profiles, UserStatsMap, UsernameToAccount) and the three  *)
(* dispatchables set_username, update_profile and update_stats.            *)
(*                                                                         *)
(* The runtime applies extrinsics one at a time, so each dispatchable is   *)
(* one atomic step.  Each call body is written as an operator that returns *)
(* the DispatchResult, the storage as the body left it when it returned    *)
(* (the writes made before an early `?` return included) and the event it  *)
(* deposits; Dispatch then plays FRAME's transactional storage layer,      *)
(* which keeps the writes of an Ok call and discards those of an Err.      *)
(*                                                                         *)
(* Byte vectors are sequences over small alphabets; BoundedVec::try_from   *)
(* is the length check against the configured bound.  The stat counters    *)
(* range over a small set of values (they are only overwritten, never      *)
(* added to, so their width plays no role).  The steps a plausible bug     *)
(* would change are operators of their own, each preceded by its mutant.   *)
(***************************************************************************)
EXTENDS Naturals, Sequences, SequencesExt, Functions

CONSTANTS
  Accounts,           \* AccountIds that sign extrinsics (model values)
  NameBytes,          \* bytes that usernames are made of
  TextBytes,          \* bytes that avatars and bios are made of
  MaxUsernameLength,  \* Config::MaxUsernameLength (also bounds the avatar)
  MaxBioLength,       \* Config::MaxBioLength
  StatValues,         \* values given to the UserStats counters
  MaxBlock,           \* bound on frame_system's block number
  None                \* Option::None

ASSUME MaxUsernameLength \in Nat /\ MaxBioLength \in Nat /\ MaxBlock \in Nat
ASSUME 0 \in StatValues /\ StatValues \subseteq Nat

VARIABLES
  profiles,           \* Profiles: AccountId -> UserProfile
  userStatsMap,       \* UserStatsMap: AccountId -> UserStats
  usernameToAccount,  \* UsernameToAccount: username -> AccountId
  blockNumber,        \* frame_system::Pallet::block_number()
  lastEvent,          \* the last event deposited by this pallet
  lastResult          \* the DispatchResult of the last extrinsic

storage == <<profiles, userStatsMap, usernameToAccount>>
vars == <<profiles, userStatsMap, usernameToAccount, blockNumber, lastEvent, lastResult>>

-----------------------------------------------------------------------------
(* Option<T> and the inputs a signed origin can pass.                      *)

Some(x) == [some |-> x]
Option(S) == {None} \union {Some(x) : x \in S}

\* A vector of n bytes.
Filled(bytes, n) == [i \in 1..n |-> CHOOSE b \in bytes : TRUE]

\* Vec<u8> arguments.  Usernames are keys, so every valid one is passed,
\* plus the shortest over-long one; the code never compares avatar or bio
\* contents, so for them the boundary lengths are passed: the longest
\* vector that fits and the shortest that does not.
Username == BoundedSeq(NameBytes, MaxUsernameLength)
UsernameArg == Username \union {Filled(NameBytes, MaxUsernameLength + 1)}
AvatarArg == {Filled(TextBytes, MaxUsernameLength), Filled(TextBytes, MaxUsernameLength + 1)}
BioArg == {Filled(TextBytes, MaxBioLength), Filled(TextBytes, MaxBioLength + 1)}

\* BoundedVec::try_from succeeds exactly when the vector fits the bound.
Fits(v, bound) == Len(v) <= bound

\* StorageMap::insert and StorageMap::remove on a partial function.
Insert(m, k, v) == k :> v @@ m
Delete(m, k) == Restrict(m, DOMAIN m \ {k})

StatFields == {"total_races", "wins", "total_distance", "total_rewards"}
UserStats == [StatFields -> StatValues]
DefaultStats == [f \in StatFields |-> 0]

\* The four Option arguments of update_stats, one per field.
StatsArg == [StatFields -> Option(StatValues)]

UserProfileRec ==
  [account : Accounts, username : Username,
   avatar : Option(BoundedSeq(TextBytes, MaxUsernameLength)),
   bio : Option(BoundedSeq(TextBytes, MaxBioLength)),
   created_at : 0..MaxBlock]

Errors == {"UsernameTaken", "UsernameTooLong", "BioTooLong", "BadOrigin"}

\* The storage as a record, so that call bodies can be applied to any state.
Storage == [profiles |-> profiles, stats |-> userStatsMap, index |-> usernameToAccount]

\* The events this pallet deposits.
UsernameSetEv(who, name) == [kind |-> "UsernameSet", account |-> who, username |-> name]
\* ProfileUpdated re-bounds the arguments it was given with
\* BoundedVec::try_from(..).unwrap_or_default() (lines 239-242): a vector
\* over the bound becomes the empty vector.
EventBytes(v, bound) == IF Fits(v, bound) THEN v ELSE <<>>
EventOpt(o, bound) == IF o = None THEN None ELSE Some(EventBytes(o.some, bound))
EventOptOpt(o, bound) ==
  IF o = None \/ o.some = None THEN o ELSE Some(Some(EventBytes(o.some.some, bound)))
ProfileUpdatedEv(who, name, avatar, bio) ==
  [kind |-> "ProfileUpdated", account |-> who,
   username |-> EventOpt(name, MaxUsernameLength),
   avatar |-> EventOptOpt(avatar, MaxUsernameLength),
   bio |-> EventOptOpt(bio, MaxBioLength)]
StatsUpdatedEv(who, stats) == [kind |-> "StatsUpdated", account |-> who, stats |-> stats]

Return(result, s, ev) == [result |-> result, storage |-> s, event |-> ev]

-----------------------------------------------------------------------------
(* Steps shared by the call bodies, each with the mutant that replaces it. *)

\* Mutant: no taken check at all.
NeverTaken(s, who, name) == FALSE

\* The username is mapped to an account other than the caller (lines
\* 131-133 and 206-210).
TakenByOther(s, who, name) == name \in DOMAIN s.index /\ s.index[name] # who

\* Mutants of the index writes of set_username: the old mapping is not
\* removed (line 138 dropped), or the new one is written before it is.
SetUsernameIndexKeepsOld(s, who, username) == Insert(s.index, username, who)
SetUsernameIndexInsertFirst(s, who, username) ==
  LET index1 == Insert(s.index, username, who)
  IN IF who \in DOMAIN s.profiles THEN Delete(index1, s.profiles[who].username)
     ELSE index1

\* set_username removes the mapping of the caller's current username when it
\* has a profile (line 138), then maps the new username to it (line 158).
SetUsernameIndex(s, who, username) ==
  LET index1 == IF who \in DOMAIN s.profiles
                  THEN Delete(s.index, s.profiles[who].username)
                  ELSE s.index
  IN Insert(index1, username, who)

\* Mutant: created_at is always the current block.
SetUsernameCreatedAtFresh(s, who) == blockNumber

\* An existing profile keeps its created_at (line 139), a new one gets the
\* current block number (lines 142, 144).
SetUsernameCreatedAt(s, who) ==
  IF who \in DOMAIN s.profiles THEN s.profiles[who].created_at ELSE blockNumber

\* A new profile gets UserStats::default(), whether or not the account
\* already has stats (line 143).
SetUsernameStats(s, who) ==
  IF who \in DOMAIN s.profiles THEN s.stats ELSE Insert(s.stats, who, DefaultStats)

\* Mutant: update_profile does not create the stats entry.
UpdateProfileStatsNone(s, who) == s.stats

\* update_profile creates a default stats entry only if none exists (lines
\* 191-193).
UpdateProfileStats(s, who) ==
  IF who \in DOMAIN s.stats THEN s.stats ELSE Insert(s.stats, who, DefaultStats)

\* Mutant: the avatar checked against the bio's bound.
AvatarFitsBioBound(v) == Fits(v, MaxBioLength)

\* The avatar is a BoundedVec<u8, MaxUsernameLength> (lines 44, 223).
AvatarFits(v) == Fits(v, MaxUsernameLength)

-----------------------------------------------------------------------------
(* set_username(origin, username), lines 123-166                           *)

SetUsernameBody(s, who, username) ==
  LET profile == [account |-> who, username |-> username, avatar |-> None,
                  bio |-> None, created_at |-> SetUsernameCreatedAt(s, who)]
  IN CASE ~Fits(username, MaxUsernameLength) -> Return("UsernameTooLong", s, None)
       [] TakenByOther(s, who, username) -> Return("UsernameTaken", s, None)
       [] OTHER -> Return("Ok",
                          [profiles |-> Insert(s.profiles, who, profile),
                           stats |-> SetUsernameStats(s, who),
                           index |-> SetUsernameIndex(s, who, username)],
                          UsernameSetEv(who, username))

-----------------------------------------------------------------------------
(* update_profile(origin, username, avatar, bio), lines 172-246            *)
(* The body writes UserStatsMap and then UsernameToAccount before it       *)
(* validates avatar and bio; the storage it returns on an error is the     *)
(* storage at that early return.                                           *)

\* Sets a field given as Option<Option<_>>: None leaves it, Some(x) sets x.
Given(old, arg) == IF arg = None THEN old ELSE arg.some
\* An argument Some(Some(v)), the only form whose try_from can fail.
SetsValue(arg) == arg # None /\ arg.some # None

UpdateProfileBody(s, who, username, avatar, bio) ==
  LET profile0 == IF who \in DOMAIN s.profiles THEN s.profiles[who]
                  ELSE [account |-> who, username |-> <<>>, avatar |-> None,
                        bio |-> None, created_at |-> blockNumber]
      afterStats == [s EXCEPT !.stats = UpdateProfileStats(s, who)]
      afterName == IF username = None THEN afterStats
                   ELSE [afterStats EXCEPT !.index =
                           Insert(Delete(s.index, profile0.username), username.some, who)]
      profile == [profile0 EXCEPT !.username = Given(profile0.username, username),
                                  !.avatar = Given(profile0.avatar, avatar),
                                  !.bio = Given(profile0.bio, bio)]
  IN CASE username # None /\ ~Fits(username.some, MaxUsernameLength) ->
            Return("UsernameTooLong", afterStats, None)
       [] username # None /\ TakenByOther(s, who, username.some) ->
            Return("UsernameTaken", afterStats, None)
       [] SetsValue(avatar) /\ ~AvatarFits(avatar.some.some) -> Return("UsernameTooLong", afterName, None)
       [] SetsValue(bio) /\ ~Fits(bio.some.some, MaxBioLength) -> Return("BioTooLong", afterName, None)
       [] OTHER -> Return("Ok",
                          [afterName EXCEPT !.profiles = Insert(s.profiles, who, profile)],
                          ProfileUpdatedEv(who, username, avatar, bio))

-----------------------------------------------------------------------------
(* update_stats(origin, total_races, wins, total_distance, total_rewards), *)
(* lines 252-290.  `given` maps each field to None (leave it) or Some(v).  *)

\* Mutant: the event is built from the stats read before the update.
UpdateStatsBodyStaleEvent(s, who, given) ==
  LET stats0 == IF who \in DOMAIN s.stats THEN s.stats[who] ELSE DefaultStats
  IN Return("Ok", [s EXCEPT !.stats = Insert(s.stats, who,
                     [f \in StatFields |-> Given(stats0[f], given[f])])],
            StatsUpdatedEv(who, stats0))

UpdateStatsBody(s, who, given) ==
  LET stats0 == IF who \in DOMAIN s.stats THEN s.stats[who] ELSE DefaultStats
      stats1 == [f \in StatFields |-> Given(stats0[f], given[f])]
  IN Return("Ok", [s EXCEPT !.stats = Insert(s.stats, who, stats1)],
            StatsUpdatedEv(who, stats1))

-----------------------------------------------------------------------------
(* The transactional storage layer around every dispatchable: an Ok call   *)
(* commits its writes and its event, an Err call commits nothing.  This is *)
(* FRAME's behaviour, assumed here: the half-written storage update_profile *)
(* returns with on an avatar or bio error is never committed by            *)
(* construction, so no property of this module checks the rollback.       *)

Dispatch(r) ==
  /\ lastResult' = r.result
  /\ IF r.result = "Ok"
       THEN /\ profiles' = r.storage.profiles
            /\ userStatsMap' = r.storage.stats
            /\ usernameToAccount' = r.storage.index
            /\ lastEvent' = r.event
       ELSE UNCHANGED <<profiles, userStatsMap, usernameToAccount, lastEvent>>
  /\ UNCHANGED blockNumber

SetUsername(who, username) == Dispatch(SetUsernameBody(Storage, who, username))

UpdateProfile(who, username, avatar, bio) ==
  Dispatch(UpdateProfileBody(Storage, who, username, avatar, bio))

UpdateStats(who, given) == Dispatch(UpdateStatsBody(Storage, who, given))

\* Any of the three calls from an unsigned origin: ensure_signed fails with
\* BadOrigin before the body reads or writes anything (lines 124, 178, 259).
UnsignedCall == Dispatch(Return("BadOrigin", Storage, None))

\* The chain moves on to the next block (the host's logical time);
\* frame_system clears the events of the previous block.
NewBlock ==
  /\ blockNumber < MaxBlock
  /\ blockNumber' = blockNumber + 1
  /\ lastEvent' = None
  /\ lastResult' = None
  /\ UNCHANGED <<profiles, userStatsMap, usernameToAccount>>

Init ==
  /\ profiles = <<>>
  /\ userStatsMap = <<>>
  /\ usernameToAccount = <<>>
  /\ blockNumber = 0
  /\ lastEvent = None
  /\ lastResult = None

Next ==
  \/ NewBlock
  \/ UnsignedCall
  \/ \E who \in Accounts :
       \/ \E u \in UsernameArg : SetUsername(who, u)
       \/ \E u \in Option(UsernameArg), a \in Option(Option(AvatarArg)),
             b \in Option(Option(BioArg)) : UpdateProfile(who, u, a, b)
       \/ \E given \in StatsArg : UpdateStats(who, given)

Spec == Init /\ [][Next]_vars

-----------------------------------------------------------------------------
(* Properties                                                               *)

TypeOK ==
  /\ DOMAIN profiles \subseteq Accounts
  /\ \A a \in DOMAIN profiles : profiles[a] \in UserProfileRec
  /\ DOMAIN userStatsMap \subseteq Accounts
  /\ \A a \in DOMAIN userStatsMap : userStatsMap[a] \in UserStats
  /\ DOMAIN usernameToAccount \subseteq Username
  /\ \A n \in DOMAIN usernameToAccount : usernameToAccount[n] \in Accounts
  /\ blockNumber \in 0..MaxBlock
  /\ lastResult \in {None, "Ok"} \union Errors

\* I1, index bijection (lib.rs set_username lines 131-158, update_profile
\* lines 201-218): every UsernameToAccount entry points at an account whose
\* profile holds that username, and every profile with a non-empty username
\* is found under it.  Two accounts holding one name, or a stale entry left
\* by a rename, break it.
IndexBijection ==
  /\ \A n \in DOMAIN usernameToAccount :
       /\ usernameToAccount[n] \in DOMAIN profiles
       /\ profiles[usernameToAccount[n]].username = n
  /\ \A a \in DOMAIN profiles :
       profiles[a].username # <<>> =>
         /\ profiles[a].username \in DOMAIN usernameToAccount
         /\ usernameToAccount[profiles[a].username] = a

\* Every account with a profile has a stats entry: set_username (line 143)
\* and update_profile (lines 191-193) create one with the profile.
ProfilesHaveStats == DOMAIN profiles \subseteq DOMAIN userStatsMap

\* Idempotent rename: whenever set_username(who, name) succeeds, calling it
\* again with the same name also succeeds and leaves the storage as the
\* first call left it (the old-name removal at line 138 and the insert at
\* line 158 must not undo each other).
IdempotentSetUsername ==
  \A who \in Accounts, name \in UsernameArg :
    LET first == SetUsernameBody(Storage, who, name)
        second == SetUsernameBody(first.storage, who, name)
    IN first.result = "Ok" => second.result = "Ok" /\ second.storage = first.storage

\* Profiles and stats entries are never deleted, and a profile keeps the
\* created_at it got when it was first written (set_username line 139).
RecordsPersist ==
  [][/\ \A a \in DOMAIN profiles :
          a \in DOMAIN profiles' /\ profiles'[a].created_at = profiles[a].created_at
     /\ DOMAIN userStatsMap \subseteq DOMAIN userStatsMap']_vars

\* The directory implements the abstract UsernameRegistry: the usernames of
\* the profiles change only by claims of names no other profile holds.
Registry == INSTANCE UsernameRegistry
              WITH Names <- Username,
                   names <- [a \in DOMAIN profiles |-> profiles[a].username]

RegistryRefined == Registry!Spec

\* Spec I2: profile operations never overwrite an existing stats entry; a
\* stats entry changes only through update_stats by its own account.
StatsOnlyChangedByUpdateStats ==
  [][\A a \in DOMAIN userStatsMap :
       userStatsMap'[a] # userStatsMap[a] =>
         lastEvent'.kind = "StatsUpdated" /\ lastEvent'.account = a]_vars

\* A successful call by one account never removes or redirects a
\* UsernameToAccount entry that points at another account (spec 3: "the
\* prior entry for that Profile (if any) is removed").
OthersIndexEntriesKept ==
  [][lastResult' = "Ok" =>
       \A n \in DOMAIN usernameToAccount :
         usernameToAccount[n] # lastEvent'.account =>
           n \in DOMAIN usernameToAccount'
           /\ usernameToAccount'[n] = usernameToAccount[n]]_vars

\* Spec 3: "username is never empty once set via set_username".
SetUsernameNonEmpty ==
  lastEvent # None /\ lastEvent.kind = "UsernameSet" => lastEvent.username # <<>>

\* Spec 4.2 step 4: set_username writes the profile with "avatar/bio
\* unchanged" when the caller already has one.
SetUsernameKeepsAvatarBio ==
  [][lastResult' = "Ok" /\ lastEvent' # None /\ lastEvent'.kind = "UsernameSet" =>
       \A a \in DOMAIN profiles :
         lastEvent'.account = a =>
           profiles'[a].avatar = profiles[a].avatar /\ profiles'[a].bio = profiles[a].bio]_vars

\* The last event deposited describes the storage as its call left it, so an
\* observer that follows the events sees the directory: UsernameSet names the
\* caller's profile username and its index entry (lines 157-163),
\* ProfileUpdated each field given (lines 235-243), StatsUpdated the stored
\* stats (lines 279-287).  Later calls of other accounts deposit events of
\* their own; failed calls deposit none.
EventMatchesStorage ==
  lastEvent # None =>
    LET a == lastEvent.account
        Shows(field, arg) == arg = None \/ profiles[a][field] = arg.some
    IN CASE lastEvent.kind = "UsernameSet" ->
              /\ profiles[a].username = lastEvent.username
              /\ usernameToAccount[lastEvent.username] = a
         [] lastEvent.kind = "ProfileUpdated" ->
              /\ Shows("username", lastEvent.username)
              /\ Shows("avatar", lastEvent.avatar)
              /\ Shows("bio", lastEvent.bio)
         [] OTHER -> userStatsMap[a] = lastEvent.stats

\* The doc comment of Event::UsernameSet (line 84): "Username set for the
\* first time (profile created)": it is deposited only by a call that
\* creates the caller's profile.
UsernameSetOnlyOnCreation ==
  [][lastResult' = "Ok" /\ lastEvent'.kind = "UsernameSet" =>
       lastEvent'.account \notin DOMAIN profiles]_vars

=============================================================================
