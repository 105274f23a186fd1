------------------------------- MODULE Refresh -------------------------------
(***************************************************************************)
(* What a consumer records about one repository, and how: Client.Add and   *)
(* Client.Refresh (internal/repository/client.go), the freshness gate      *)
(* (freshness.go), the repository row (internal/db/repository.go) and the  *)
(* commands that drive them, `repo add`, `repo remove` and `refresh`       *)
(* (internal/cli/repo.go).                                                 *)
(*                                                                         *)
(* None of these takes a lock.  Each is a sequence of a database read,     *)
(* fetches over the network, a cache write and a database write; a fetch   *)
(* may fail and the process may be killed in between.                      *)
(*                                                                         *)
(* The server publishes the members of Pubs in order.  A descriptor and    *)
(* the index are separate fetches and each may come from a mirror that     *)
(* lags: any publication so far.  A publication carries its index version, *)
(* its generated_at (in half seconds, so that a fraction can be written),  *)
(* the keys its descriptor declares, each with its status and, for a       *)
(* transitioning one, its valid_until, and the key that signed its         *)
(* documents.                                                              *)
(*                                                                         *)
(* Abstracted: the descriptor's name, the packages an index lists.         *)
(***************************************************************************)
EXTENDS Naturals, Sequences

CONSTANTS Client,          \* peipkg processes
          Key,             \* signing keys
          Anchors,         \* the fingerprints the operator supplied
          MinIndexVersion, \* the operator's out-of-band minimum, 0 for none
          Pubs,            \* the publications, in order
          None,            \* no row, no cached index, no document
          MaxClock, MaxCrash, MaxFault  \* bounds: time, kills, failing calls

KeyStatus == {"active", "transitioning", "revoked"}
TrustKey == [key : Key, status : KeyStatus, until : Nat]
Publication ==
  [version : Nat \ {0}, generated : Nat, keys : SUBSET TrustKey, signer : Key]
CachedIndex == [version : Nat \ {0}, generated : Nat, signer : Key \cup {None}]
RepoRow == [version : Nat, generated : Nat, refreshed : Nat, keys : SUBSET TrustKey]

ASSUME RefreshAssumption ==
  /\ Anchors \subseteq Key /\ MinIndexVersion \in Nat
  /\ Pubs \in Seq(Publication) /\ Len(Pubs) > 0
  /\ \A i \in 1 .. Len(Pubs) : \E d \in Pubs[i].keys : d.status = "active"
  /\ None \notin Publication \cup RepoRow \cup CachedIndex \cup Key
  /\ MaxClock \in Nat /\ MaxCrash \in Nat /\ MaxFault \in Nat

Policy == {"signed", "unsigned"}

VARIABLES row,     \* the repository row, or None
          cache,   \* the index the cache pointer designates, or None
          config,  \* the .repo file: "none" or its policy
          live,    \* publications made so far
          clock,   \* the time
          pc,      \* [Client -> phase]
          cmd,     \* [Client -> the command it runs]
          mode,    \* [Client -> the policy it read]
          now,     \* [Client -> time the command started]
          prev,    \* [Client -> the row it read, or None]
          desc,    \* [Client -> the descriptor it fetched]
          idx,     \* [Client -> the index it fetched]
          crashes, faults

durable == <<row, cache, config>>
world == <<live, clock>>
bounds == <<crashes, faults>>
local == <<pc, cmd, mode, now, prev, desc, idx>>
vars == <<durable, world, local, bounds>>

Init ==
  /\ row = None /\ cache = None /\ config = "none"
  /\ live = 1 /\ clock = 0
  /\ pc = [c \in Client |-> "idle"] /\ cmd = [c \in Client |-> "none"]
  /\ mode = [c \in Client |-> "signed"] /\ now = [c \in Client |-> 0]
  /\ prev = [c \in Client |-> None] /\ desc = [c \in Client |-> None]
  /\ idx = [c \in Client |-> None]
  /\ crashes = 0 /\ faults = 0

Goto(c, phase) == pc' = [pc EXCEPT ![c] = phase]
Fault == faults < MaxFault /\ faults' = faults + 1 /\ UNCHANGED crashes
Served == {Pubs[i] : i \in 1 .. live}

(* A command ends and forgets what it fetched.                             *)
Exit(c) ==
  /\ Goto(c, "idle") /\ cmd' = [cmd EXCEPT ![c] = "none"]
  /\ mode' = [mode EXCEPT ![c] = "signed"] /\ now' = [now EXCEPT ![c] = 0]
  /\ prev' = [prev EXCEPT ![c] = None] /\ desc' = [desc EXCEPT ![c] = None]
  /\ idx' = [idx EXCEPT ![c] = None]

Start(c, what, policy, phase) ==
  /\ pc[c] = "idle" /\ Goto(c, phase)
  /\ cmd' = [cmd EXCEPT ![c] = what] /\ mode' = [mode EXCEPT ![c] = policy]
  /\ now' = [now EXCEPT ![c] = clock]
  /\ UNCHANGED <<prev, desc, idx, world, bounds>>

-----------------------------------------------------------------------------
(* repo add <name> <url> writes the .repo file before the trust ceremony;  *)
(* repo add <name> uses the one already there.                             *)
addRepository(c, policy) ==
  /\ Start(c, "add", policy, "descriptor")
  /\ config' = policy
  /\ UNCHANGED <<row, cache>>

addConfigured(c) ==
  /\ config # "none" /\ Start(c, "addConfigured", config, "descriptor")
  /\ UNCHANGED durable

(* refresh: a repository without a recorded row is added.                  *)
cmdRefresh(c) ==
  /\ config # "none"
  /\ IF row = None THEN Start(c, "addConfigured", config, "descriptor")
                   ELSE Start(c, "refresh", config, "read")
  /\ UNCHANGED durable

Refreshing(c) == cmd[c] = "refresh"

(* Refresh reads the recorded row before it fetches; one that is gone by   *)
(* then ends it.                                                           *)
readRow(c) ==
  /\ pc[c] = "read"
  /\ IF row = None THEN Exit(c)
     ELSE /\ prev' = [prev EXCEPT ![c] = row] /\ Goto(c, "descriptor")
          /\ UNCHANGED <<cmd, mode, now, desc, idx>>
  /\ UNCHANGED <<durable, world, bounds>>

(* A transitioning key verifies until its valid_until, a revoked one never *)
(* does.                                                                   *)
verifiableAt(d, time) ==
  d.status = "active" \/ (d.status = "transitioning" /\ time <= d.until)
VerificationKeys(keys, time) == {d.key : d \in {k \in keys : verifiableAt(k, time)}}

(* The descriptor is verified against the keys recorded before, as of the  *)
(* command's start, or, by an add, against an anchored key that it         *)
(* declares itself, in whatever status.  Unsigned mode verifies nothing.   *)
Verified(policy, signer, keys) == policy = "unsigned" \/ signer \in keys

DescriptorTrusted(c, d) ==
  Verified(mode[c], d.signer, IF Refreshing(c) THEN VerificationKeys(prev[c].keys, now[c])
                              ELSE Anchors \cap {k.key : k \in d.keys})

fetchDescriptor(c, d) ==
  /\ pc[c] = "descriptor" /\ DescriptorTrusted(c, d)
  /\ desc' = [desc EXCEPT ![c] = d] /\ Goto(c, "index")
  /\ UNCHANGED <<durable, world, cmd, mode, now, prev, idx, bounds>>

(* The index is verified against the keys of the descriptor just fetched,  *)
(* and an add refuses one below the operator's minimum.                    *)
IndexTrusted(c, i) ==
  /\ Verified(mode[c], i.signer, VerificationKeys(desc[c].keys, now[c]))
  /\ Refreshing(c) \/ MinIndexVersion = 0 \/ i.version >= MinIndexVersion

fetchActiveIndex(c, i) ==
  /\ pc[c] = "index" /\ IndexTrusted(c, i)
  /\ idx' = [idx EXCEPT ![c] = i] /\ Goto(c, "floor")
  /\ UNCHANGED <<durable, world, cmd, mode, now, prev, desc, bounds>>

(* The floor and the recorded keys keep whole seconds.                     *)
Unix(t) == 2 * (t \div 2)
Marshal(keys) == {[d EXCEPT !.until = Unix(@)] : d \in keys}

(* Mutant: only generated_at is compared.                                  *)
CheckFreshness_TimeOnly(i, version, generated) ==
  IF i.generated < generated THEN "rejected"
  ELSE IF i.version = version /\ i.generated = generated THEN "noProgress"
  ELSE "progress"

CheckFreshness(i, version, generated) ==
  IF i.version < version \/ i.generated < generated THEN "rejected"
  ELSE IF i.version = version /\ i.generated = generated THEN "noProgress"
  ELSE "progress"

(* applyFreshnessFloor.  An add reads the recorded row only now.           *)
Recorded(c) == IF Refreshing(c) THEN prev[c] ELSE row
(* Mutant: the floor is taken from the cached index.                       *)
Outcome_FromCache(c) ==
  IF Recorded(c) = None \/ cache = None THEN "progress"
  ELSE CheckFreshness(idx[c], cache.version, Unix(cache.generated))

Outcome(c) ==
  IF Recorded(c) = None THEN "progress"
  ELSE CheckFreshness(idx[c], Recorded(c).version, Recorded(c).generated)

(* Mutant: the descriptor's keys are not adopted.                          *)
NewRow_OldKeys(c) ==
  [version |-> idx[c].version, generated |-> Unix(idx[c].generated),
   refreshed |-> IF Outcome(c) = "noProgress" THEN Recorded(c).refreshed ELSE now[c],
   keys |-> IF mode[c] = "unsigned" THEN {}
            ELSE IF Recorded(c) = None THEN Marshal(desc[c].keys) ELSE Recorded(c).keys]

(* Mutant: the refresh time is lost.                                       *)
NewRow_NoTime(c) ==
  [version |-> idx[c].version, generated |-> Unix(idx[c].generated), refreshed |-> None,
   keys |-> IF mode[c] = "unsigned" THEN {} ELSE Marshal(desc[c].keys)]

NewRow(c) ==
  LET keys == IF mode[c] = "unsigned" THEN {} ELSE Marshal(desc[c].keys) IN
  IF Outcome(c) = "noProgress"
  THEN [Recorded(c) EXCEPT !.keys = keys]
  ELSE [version |-> idx[c].version, generated |-> Unix(idx[c].generated),
        refreshed |-> now[c], keys |-> keys]

applyFreshnessFloor(c) ==
  /\ pc[c] = "floor" /\ Outcome(c) # "rejected"
  /\ prev' = [prev EXCEPT ![c] = NewRow(c)] /\ Goto(c, "cache")
  /\ UNCHANGED <<durable, world, cmd, mode, now, desc, idx, bounds>>

(* record: the cached index first, published by one rename of the pointer  *)
(* file, then the row, over whatever row is there.  Unsigned mode caches   *)
(* no signature.                                                           *)
CachedDocument(c) ==
  [version |-> idx[c].version, generated |-> idx[c].generated,
   signer |-> IF mode[c] = "unsigned" THEN None ELSE idx[c].signer]

(* Mutant: a cache write that fails is ignored.                            *)
cacheIndex_BestEffort(c) ==
  /\ pc[c] = "cache"
  /\ cache' \in {cache, CachedDocument(c)} /\ Goto(c, "upsert")
  /\ UNCHANGED <<row, config, world, cmd, mode, now, prev, desc, idx, bounds>>

cacheIndex(c) ==
  /\ pc[c] = "cache"
  /\ cache' = CachedDocument(c) /\ Goto(c, "upsert")
  /\ UNCHANGED <<row, config, world, cmd, mode, now, prev, desc, idx, bounds>>

UpsertRepository(c) ==
  /\ pc[c] = "upsert"
  /\ row' = prev[c]
  /\ Exit(c)
  /\ UNCHANGED <<cache, config, world, bounds>>

(* The ways a command fails: a document that does not verify, an index the *)
(* gate rejects, a failing call.  The row is untouched; the cached index   *)
(* is too unless it was already published.  A failed `repo add <url>`      *)
(* takes its .repo file away again.                                        *)
Refused(c) ==
  \/ pc[c] = "descriptor" /\ \E d \in Served : ~DescriptorTrusted(c, d)
  \/ pc[c] = "index" /\ \E i \in Served : ~IndexTrusted(c, i)
  \/ pc[c] = "floor" /\ Outcome(c) = "rejected"

fails(c) ==
  /\ pc[c] \in {"read", "descriptor", "index", "floor", "cache", "upsert"}
  /\ (Refused(c) /\ UNCHANGED bounds) \/ Fault
  /\ cache' \in IF pc[c] = "cache" THEN {cache, CachedDocument(c)} ELSE {cache}
  /\ config' = IF cmd[c] = "add" THEN "none" ELSE config
  /\ Exit(c)
  /\ UNCHANGED <<row, world>>

(* repo remove deletes the .repo file, then the row; the cached index is   *)
(* left behind.                                                            *)
removeRepository(c) ==
  /\ Start(c, "remove", "signed", "delete")
  /\ config' = "none"
  /\ UNCHANGED <<row, cache>>

DeleteRepository(c) ==
  /\ pc[c] = "delete"
  /\ row' = None
  /\ Exit(c)
  /\ UNCHANGED <<cache, config, world, bounds>>

Crash(c) ==
  /\ pc[c] # "idle" /\ crashes < MaxCrash
  /\ crashes' = crashes + 1 /\ Exit(c)
  /\ UNCHANGED <<durable, world, faults>>

Publish ==
  /\ live < Len(Pubs) /\ live' = live + 1
  /\ UNCHANGED <<durable, clock, local, bounds>>

Tick ==
  /\ clock < MaxClock /\ clock' = clock + 1
  /\ UNCHANGED <<durable, live, local, bounds>>

-----------------------------------------------------------------------------
Fetches(c) == \E d \in Served : fetchDescriptor(c, d) \/ fetchActiveIndex(c, d)
Command(c) ==
  \/ readRow(c) \/ Fetches(c) \/ applyFreshnessFloor(c) \/ cacheIndex(c)
  \/ UpsertRepository(c) \/ DeleteRepository(c) \/ fails(c)

Next ==
  \/ \E c \in Client :
       \/ (\E policy \in Policy : addRepository(c, policy)) \/ addConfigured(c)
       \/ cmdRefresh(c) \/ removeRepository(c) \/ Command(c) \/ Crash(c)
  \/ Publish \/ Tick

Spec == Init /\ [][Next]_vars

-----------------------------------------------------------------------------
(* ActiveIndex, the read every resolution starts from: the cached index    *)
(* must be the one the row records, and is verified again, with the        *)
(* recorded keys that verify at that moment.                               *)
AsRecorded ==
  /\ row # None /\ cache # None
  /\ cache.version = row.version /\ Unix(cache.generated) = row.generated
SignatureHolds == row.keys = {} \/ cache.signer \in VerificationKeys(row.keys, clock)
ActiveIndex == AsRecorded /\ SignatureHolds

(* An interrupted record leaves the two apart; and time passes over the    *)
(* valid_until of the key that signed the cached index.                    *)
Wedged == row # None /\ ~ActiveIndex
Lapsed ==
  \E d \in row.keys :
    d.key = cache.signer /\ d.status = "transitioning" /\ d.until < clock

(* A command that was started runs to its end; an operator whose           *)
(* repository is refused adds it again, and mirrors catch up: a fetch      *)
(* repeated often enough returns the newest publication, which is signed   *)
(* by a key it declares active.                                            *)
FairSpec ==
  /\ Spec
  /\ \A c \in Client :
       /\ WF_vars(Command(c)) /\ SF_vars(Wedged /\ addRepository(c, "signed"))
       /\ SF_vars(fetchDescriptor(c, Pubs[live])) /\ SF_vars(fetchActiveIndex(c, Pubs[live]))

TypeOK ==
  /\ row \in RepoRow \cup {None} /\ cache \in CachedIndex \cup {None}
  /\ config \in Policy \cup {"none"} /\ live \in 1 .. Len(Pubs) /\ clock \in 0 .. MaxClock
  /\ pc \in [Client -> {"idle", "read", "descriptor", "index", "floor", "cache", "upsert",
                        "delete"}]
  /\ cmd \in [Client -> {"none", "add", "addConfigured", "refresh", "remove"}]
  /\ mode \in [Client -> Policy] /\ now \in [Client -> 0 .. MaxClock]
  /\ prev \in [Client -> RepoRow \cup {None}]
  /\ desc \in [Client -> Publication \cup {None}]
  /\ idx \in [Client -> Publication \cup {None}]
  /\ crashes \in 0 .. MaxCrash /\ faults \in 0 .. MaxFault

(* Section 5.34: "a floor is never reset as a side effect of any operation *)
(* but removing the repository", in either dimension.                      *)
FloorNeverLowered ==
  [][row # None /\ row' # None =>
       row'.version >= row.version /\ row'.generated >= row.generated]_vars

(* A frozen index does not make the trust state look fresh: the refresh    *)
(* time moves only with an index other than the one last accepted.         *)
FrozenStaysStale ==
  [][row # None /\ row' # None /\ row'.refreshed # row.refreshed
       /\ row'.version = row.version => row'.generated > row.generated]_vars

(* The cached index is never behind the row: what a crash between the two  *)
(* writes leaves is an index the next refresh accepts, not one the floor   *)
(* refuses for ever.                                                       *)
CacheNotBehind ==
  row # None =>
    cache # None /\ cache.version >= row.version /\ Unix(cache.generated) >= row.generated

(* A repository that was added or refreshed can be resolved from between   *)
(* commands, through key rotations and mirrors that lag: without a crash   *)
(* or a failing call the recorded row and the cache never part, and the    *)
(* cached index verifies until the key that signed it, if the descriptor   *)
(* declared it transitioning, has passed its valid_until.                  *)
ServedBetweenCommands ==
  crashes + faults = 0 /\ (\A c \in Client : pc[c] = "idle") /\ row # None =>
    AsRecorded /\ (SignatureHolds \/ Lapsed)

(* Neither an interrupted record nor a key that has lapsed wedges a        *)
(* repository: adding it again ends the refusals, whatever was published   *)
(* meanwhile.                                                              *)
Unwedged == Wedged ~> ~Wedged
=============================================================================
