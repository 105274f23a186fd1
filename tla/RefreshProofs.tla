---------------------------- MODULE RefreshProofs ----------------------------
(***************************************************************************)
(* Theorems about Refresh, for any publications, keys, anchors, operator's *)
(* minimum and bounds.                                                     *)
(*                                                                         *)
(* TypeOK holds for any number of clients.  The floor and the cached index *)
(* are safe only when no two commands on one repository run at once        *)
(* (OneAtATime): the code takes no lock, and with two clients the run      *)
(* refresh_race lowers the floor.                                          *)
(*                                                                         *)
(* The inductive invariant, FInv, follows what a command knows:            *)
(*   Fetched   what has been fetched and verified, phase by phase;         *)
(*   RowKept   a refresh works from the row that is still there;           *)
(*   NextRow   the row a command is about to write describes the index it  *)
(*             fetched and is not below the one it replaces;               *)
(*   Written   between its two writes a command has cached what it fetched;*)
(*   WholeSeconds  recorded times are whole seconds;                       *)
(*   Paired    without a kill or a fault, row and cache part only between  *)
(*             the two writes.                                             *)
(***************************************************************************)
EXTENDS Refresh, TLAPS

OneAtATime == \A c, d \in Client : c = d

(* A cached index that serves the row: it can be resolved from until the   *)
(* key that signed it lapses.                                              *)
Serves(r, doc) ==
  /\ doc # None
  /\ r.keys = {} \/ \E d \in r.keys : d.key = doc.signer /\ d.status # "revoked"
  /\ doc.version = r.version /\ Unix(doc.generated) = r.generated

(* The command phases, and what is known in each.                          *)
Fetched ==
  \A c \in Client :
    /\ pc[c] = "read" => Refreshing(c)
    /\ pc[c] \in {"descriptor", "index", "floor"} /\ Refreshing(c) => prev[c] # None
    /\ pc[c] \in {"index", "floor", "cache", "upsert"} => desc[c] # None
    /\ pc[c] \in {"floor", "cache", "upsert"} =>
         idx[c] # None /\ Verified(mode[c], idx[c].signer, VerificationKeys(desc[c].keys, now[c]))
    /\ pc[c] \in {"cache", "upsert"} =>
         prev[c] # None /\ Serves(prev[c], CachedDocument(c))

RowKept ==
  \A c \in Client : pc[c] \in {"descriptor", "index", "floor"} /\ Refreshing(c) => row = prev[c]

NextRow ==
  \A c \in Client : pc[c] \in {"cache", "upsert"} /\ row # None =>
    prev[c].version >= row.version /\ prev[c].generated >= row.generated

Written == \A c \in Client : pc[c] = "upsert" => cache = CachedDocument(c)

WholeSeconds ==
  /\ row # None => Unix(row.generated) = row.generated
  /\ \A c \in Client : prev[c] # None => Unix(prev[c].generated) = prev[c].generated

Paired ==
  crashes + faults = 0 /\ (\A c \in Client : pc[c] # "upsert") => (row # None => Serves(row, cache))

TInv == TypeOK /\ WholeSeconds /\ Fetched
FInv == TInv /\ RowKept /\ NextRow /\ Written /\ CacheNotBehind /\ Paired

(* Whole seconds: a time is cut to one, once.                              *)
LEMMA UnixIsWhole ==
  ASSUME NEW t \in Nat
  PROVE  /\ Unix(t) \in Nat /\ Unix(Unix(t)) = Unix(t)
         /\ \A u \in Nat : Unix(u) = u /\ u <= t => u <= Unix(t)
<1>1. \A n \in Nat : n \div 2 \in Nat /\ 2 * (n \div 2) <= n /\ n <= 2 * (n \div 2) + 1
  OBVIOUS
<1>2. \A k \in Nat : (2 * k) \div 2 = k
  OBVIOUS
<1>3. Unix(t) \in Nat /\ Unix(Unix(t)) = Unix(t)
  BY <1>1, <1>2 DEF Unix
<1>4. ASSUME NEW u \in Nat, Unix(u) = u, u <= t PROVE u <= Unix(t)
  <2> DEFINE j == u \div 2
             k == t \div 2
  <2>1. j \in Nat /\ k \in Nat /\ u = 2 * j /\ t <= 2 * k + 1 /\ Unix(t) = 2 * k
    BY <1>1, <1>4 DEF Unix
  <2> HIDE DEF j, k
  <2> QED BY <1>4, <2>1
<1> QED BY <1>3, <1>4

(* A trust set is recorded key by key: only valid_until is cut.            *)
LEMMA MarshalKeeps ==
  ASSUME NEW keys \in SUBSET TrustKey
  PROVE  /\ Marshal(keys) \in SUBSET TrustKey
         /\ \A time \in Nat : \A k \in VerificationKeys(keys, time) :
              \E d \in Marshal(keys) : d.key = k /\ d.status # "revoked"
<1>1. ASSUME NEW d \in keys
      PROVE  /\ [d EXCEPT !.until = Unix(@)] \in TrustKey
             /\ [d EXCEPT !.until = Unix(@)].key = d.key
             /\ [d EXCEPT !.until = Unix(@)].status = d.status
  <2>1. d \in TrustKey /\ Unix(d.until) \in Nat
    BY UnixIsWhole DEF TrustKey
  <2> QED BY <2>1 DEF TrustKey
<1>2. Marshal(keys) \in SUBSET TrustKey
  BY <1>1 DEF Marshal
<1>3. ASSUME NEW time \in Nat, NEW k \in VerificationKeys(keys, time)
      PROVE  \E d \in Marshal(keys) : d.key = k /\ d.status # "revoked"
  <2>1. PICK d \in keys : d.key = k /\ verifiableAt(d, time)
    BY DEF VerificationKeys
  <2>2. d.status # "revoked"
    BY <2>1 DEF verifiableAt
  <2>3. [d EXCEPT !.until = Unix(@)] \in Marshal(keys)
    BY DEF Marshal
  <2> QED BY <1>1, <2>1, <2>2, <2>3
<1> QED BY <1>2, <1>3

(* What the server offers is a publication.                                *)
LEMMA ServedTypes == TypeOK => Served \subseteq Publication
  BY RefreshAssumption DEF TypeOK, Served

(* The row a command writes describes the index it fetched, and is not     *)
(* below the row it is compared with.                                      *)
LEMMA NewRowServes ==
  ASSUME TInv, NEW c \in Client, pc[c] = "floor", Outcome(c) # "rejected"
  PROVE  /\ NewRow(c) \in RepoRow /\ Serves(NewRow(c), CachedDocument(c))
         /\ Unix(NewRow(c).generated) = NewRow(c).generated
         /\ Recorded(c) # None => NewRow(c).version >= Recorded(c).version
                                  /\ NewRow(c).generated >= Recorded(c).generated
<1> DEFINE old == Recorded(c)
           new == idx[c]
<1>1. /\ new \in Publication /\ desc[c] \in Publication /\ now[c] \in Nat /\ mode[c] \in Policy
      /\ old \in RepoRow \cup {None}
      /\ Verified(mode[c], new.signer, VerificationKeys(desc[c].keys, now[c]))
      /\ old # None => Unix(old.generated) = old.generated
  BY DEF TInv, TypeOK, Fetched, WholeSeconds, Recorded
<1>2. Unix(new.generated) \in Nat /\ Unix(Unix(new.generated)) = Unix(new.generated)
  BY <1>1, UnixIsWhole DEF Publication
<1>3. CachedDocument(c).signer = IF mode[c] = "unsigned" THEN None ELSE new.signer
  BY DEF CachedDocument
<1>4. CachedDocument(c) # None /\ CachedDocument(c).version = new.version
      /\ CachedDocument(c).generated = new.generated
  BY <1>1, RefreshAssumption DEF CachedDocument, CachedIndex, Publication
<1> DEFINE kept == IF mode[c] = "unsigned" THEN {} ELSE Marshal(desc[c].keys)
<1>7. /\ kept \in SUBSET TrustKey
      /\ kept = {} \/ \E d \in kept : d.key = CachedDocument(c).signer /\ d.status # "revoked"
  <2>1. desc[c].keys \in SUBSET TrustKey
    BY <1>1 DEF Publication
  <2>2. CASE mode[c] = "unsigned"
    BY <2>2
  <2>3. CASE mode[c] # "unsigned"
    <3>1. new.signer \in VerificationKeys(desc[c].keys, now[c])
      BY <1>1, <2>3 DEF Verified
    <3> QED BY <1>1, <1>3, <2>1, <2>3, <3>1, MarshalKeeps
  <2> QED BY <2>2, <2>3
<1> HIDE DEF kept
<1>8. /\ Outcome(c) = "noProgress" => NewRow(c) = [old EXCEPT !.keys = kept]
      /\ Outcome(c) # "noProgress" =>
           NewRow(c) = [version |-> new.version, generated |-> Unix(new.generated),
                        refreshed |-> now[c], keys |-> kept]
  BY DEF NewRow, kept
<1>5. CASE Outcome(c) = "noProgress"
  <2>1. old # None /\ new.version = old.version /\ new.generated = old.generated
    BY <1>5 DEF Outcome, CheckFreshness
  <2>2. /\ NewRow(c) \in RepoRow /\ NewRow(c).version = old.version
        /\ NewRow(c).generated = old.generated
        /\ NewRow(c).keys = kept
    BY <1>1, <1>5, <1>7, <1>8, <2>1 DEF RepoRow
  <2> QED BY <1>1, <1>2, <1>4, <1>7, <2>1, <2>2 DEF Serves, RepoRow, Publication
<1>6. CASE Outcome(c) # "noProgress"
  <2>1. /\ NewRow(c) \in RepoRow /\ NewRow(c).version = new.version
        /\ NewRow(c).generated = Unix(new.generated)
        /\ NewRow(c).keys = kept
    BY <1>1, <1>2, <1>6, <1>7, <1>8 DEF RepoRow, Publication
  <2>2. ASSUME old # None
        PROVE  new.version >= old.version /\ Unix(new.generated) >= old.generated
    <3>1. new.version >= old.version /\ new.generated >= old.generated
      BY <1>1, <2>2 DEF Outcome, CheckFreshness, RepoRow, Publication
    <3> QED BY <1>1, <2>2, <3>1, UnixIsWhole DEF RepoRow, Publication
  <2> QED BY <1>1, <1>2, <1>4, <1>7, <2>1, <2>2 DEF Serves
<1> QED BY <1>5, <1>6

(* A command that starts is of a known kind, in a known phase.             *)
LEMMA StartTypes ==
  ASSUME TypeOK, NEW c \in Client, NEW policy \in Policy,
         NEW what \in {"add", "addConfigured", "refresh", "remove"},
         NEW phase \in {"read", "descriptor", "delete"},
         Start(c, what, policy, phase), config' \in Policy \cup {"none"},
         UNCHANGED <<row, cache>>
  PROVE  TypeOK'
<1>1. /\ pc' = [pc EXCEPT ![c] = phase] /\ cmd' = [cmd EXCEPT ![c] = what]
      /\ mode' = [mode EXCEPT ![c] = policy] /\ now' = [now EXCEPT ![c] = clock]
      /\ UNCHANGED <<prev, desc, idx, live, clock, crashes, faults>>
  BY DEF Start, Goto, world, bounds
<1> QED BY <1>1 DEF TypeOK

(* A command that ends forgets what it fetched.                            *)
LEMMA ExitTypes ==
  ASSUME TypeOK, NEW c \in Client, Exit(c), UNCHANGED world,
         row' \in RepoRow \cup {None}, cache' \in CachedIndex \cup {None},
         config' \in Policy \cup {"none"},
         crashes' \in 0 .. MaxCrash, faults' \in 0 .. MaxFault
  PROVE  TypeOK'
<1>1. /\ pc' = [pc EXCEPT ![c] = "idle"] /\ cmd' = [cmd EXCEPT ![c] = "none"]
      /\ mode' = [mode EXCEPT ![c] = "signed"] /\ now' = [now EXCEPT ![c] = 0]
      /\ prev' = [prev EXCEPT ![c] = None] /\ desc' = [desc EXCEPT ![c] = None]
      /\ idx' = [idx EXCEPT ![c] = None] /\ UNCHANGED <<live, clock>>
  BY DEF Exit, Goto, world
<1>2. 0 \in 0 .. MaxClock
  BY RefreshAssumption
<1> QED BY <1>1, <1>2 DEF TypeOK, Policy

(* The document a command caches is a cached index.                        *)
LEMMA CachedType ==
  ASSUME TInv, NEW c \in Client, pc[c] \in {"cache", "upsert"}
  PROVE  CachedDocument(c) \in CachedIndex
<1>1. idx[c] \in Publication
  BY DEF TInv, TypeOK, Fetched
<1> QED BY <1>1 DEF CachedDocument, CachedIndex, Publication

(* Starting a command only notes what it is and when it began.             *)
LEMMA AddRepositoryTypes ==
  ASSUME TInv, NEW c \in Client, NEW policy \in Policy, addRepository(c, policy)
  PROVE  TInv'
<1>1. TypeOK'
  BY RefreshAssumption DEF TInv, TypeOK, CachedDocument, addRepository, Start,
     Goto, durable, world, bounds, local
<1>2. WholeSeconds'
  BY RefreshAssumption DEF TInv, TypeOK, WholeSeconds, Fetched, addRepository,
     Start, Goto, durable, world, bounds, local
<1>3. Fetched'
  BY RefreshAssumption DEF TInv, TypeOK, Fetched, Refreshing,
     CachedDocument, Verified, addRepository, Start, Goto, durable, world,
     bounds, local
<1> QED BY <1>1, <1>2, <1>3 DEF TInv

(* With one command at a time the rest of the invariant is kept too.       *)
LEMMA AddRepositoryStep ==
  ASSUME FInv, OneAtATime, TInv', NEW c \in Client, NEW policy \in Policy, addRepository(c, policy)
  PROVE  FInv'
<1>1. RowKept'
  BY RefreshAssumption DEF FInv, OneAtATime, TInv, TypeOK, RowKept, Refreshing,
     addRepository, Start, Goto, durable, world, bounds, local
<1>2. NextRow'
  BY RefreshAssumption DEF FInv, OneAtATime, TInv, TypeOK, NextRow, RowKept,
     addRepository, Start, Goto, durable, world, bounds, local
<1>3. Written'
  BY RefreshAssumption DEF FInv, OneAtATime, TInv, TypeOK, Written,
     CachedDocument, addRepository, Start, Goto, durable, world, bounds, local
<1>4. CacheNotBehind'
  BY RefreshAssumption DEF FInv, OneAtATime, TInv, TypeOK, CacheNotBehind,
     NextRow, Written, Fetched, Serves, addRepository, Start, Goto, durable,
     world, bounds, local
<1>5. Paired'
  BY RefreshAssumption DEF FInv, OneAtATime, TInv, TypeOK, Paired, Written,
     Fetched, Serves, CachedDocument, addRepository, Start, Goto, durable,
     world, bounds, local
<1> QED BY <1>1, <1>2, <1>3, <1>4, <1>5 DEF FInv

(* So does an add of a repository configured before.                       *)
LEMMA AddConfiguredTypes ==
  ASSUME TInv, NEW c \in Client, addConfigured(c)
  PROVE  TInv'
<1>1. TypeOK'
  BY RefreshAssumption DEF TInv, TypeOK, CachedDocument, addConfigured, Start,
     Goto, durable, world, bounds, local
<1>2. WholeSeconds'
  BY RefreshAssumption DEF TInv, TypeOK, WholeSeconds, Fetched, addConfigured,
     Start, Goto, durable, world, bounds, local
<1>3. Fetched'
  BY RefreshAssumption DEF TInv, TypeOK, Fetched, Refreshing,
     CachedDocument, Verified, addConfigured, Start, Goto, durable, world,
     bounds, local
<1> QED BY <1>1, <1>2, <1>3 DEF TInv

(* With one command at a time the rest of the invariant is kept too.       *)
LEMMA AddConfiguredStep ==
  ASSUME FInv, OneAtATime, TInv', NEW c \in Client, addConfigured(c)
  PROVE  FInv'
<1>1. RowKept'
  BY RefreshAssumption DEF FInv, OneAtATime, TInv, TypeOK, RowKept, Refreshing,
     addConfigured, Start, Goto, durable, world, bounds, local
<1>2. NextRow'
  BY RefreshAssumption DEF FInv, OneAtATime, TInv, TypeOK, NextRow, RowKept,
     addConfigured, Start, Goto, durable, world, bounds, local
<1>3. Written'
  BY RefreshAssumption DEF FInv, OneAtATime, TInv, TypeOK, Written,
     CachedDocument, addConfigured, Start, Goto, durable, world, bounds, local
<1>4. CacheNotBehind'
  BY RefreshAssumption DEF FInv, OneAtATime, TInv, TypeOK, CacheNotBehind,
     NextRow, Written, Fetched, Serves, addConfigured, Start, Goto, durable,
     world, bounds, local
<1>5. Paired'
  BY RefreshAssumption DEF FInv, OneAtATime, TInv, TypeOK, Paired, Written,
     Fetched, Serves, CachedDocument, addConfigured, Start, Goto, durable,
     world, bounds, local
<1> QED BY <1>1, <1>2, <1>3, <1>4, <1>5 DEF FInv

(* And a refresh.                                                          *)
LEMMA CmdRefreshTypes ==
  ASSUME TInv, NEW c \in Client, cmdRefresh(c)
  PROVE  TInv'
<1>1. TypeOK'
  BY StartTypes DEF TInv, TypeOK, cmdRefresh, durable
<1>2. WholeSeconds'
  BY RefreshAssumption DEF TInv, TypeOK, WholeSeconds, Fetched, cmdRefresh,
     Start, Goto, durable, world, bounds, local
<1>3. Fetched'
  <2>1. \/ Start(c, "addConfigured", config, "descriptor")
        \/ Start(c, "refresh", config, "read")
    BY DEF cmdRefresh
  <2>2. CASE Start(c, "addConfigured", config, "descriptor")
    BY <2>2 DEF TInv, TypeOK, Fetched, Refreshing, CachedDocument, Start, Goto
  <2>3. CASE Start(c, "refresh", config, "read")
    BY <2>3 DEF TInv, TypeOK, Fetched, Refreshing, CachedDocument, Start, Goto
  <2> QED BY <2>1, <2>2, <2>3
<1> QED BY <1>1, <1>2, <1>3 DEF TInv

(* With one command at a time the rest of the invariant is kept too.       *)
LEMMA CmdRefreshStep ==
  ASSUME FInv, OneAtATime, TInv', NEW c \in Client, cmdRefresh(c)
  PROVE  FInv'
<1>1. RowKept'
  BY RefreshAssumption DEF FInv, OneAtATime, TInv, TypeOK, RowKept, Refreshing,
     cmdRefresh, Start, Goto, durable, world, bounds, local
<1>2. NextRow'
  BY RefreshAssumption DEF FInv, OneAtATime, TInv, TypeOK, NextRow, RowKept,
     cmdRefresh, Start, Goto, durable, world, bounds, local
<1>3. Written'
  BY RefreshAssumption DEF FInv, OneAtATime, TInv, TypeOK, Written,
     CachedDocument, cmdRefresh, Start, Goto, durable, world, bounds, local
<1>4. CacheNotBehind'
  BY RefreshAssumption DEF FInv, OneAtATime, TInv, TypeOK, CacheNotBehind,
     NextRow, Written, Fetched, Serves, cmdRefresh, Start, Goto, durable,
     world, bounds, local
<1>5. Paired'
  BY RefreshAssumption DEF FInv, OneAtATime, TInv, TypeOK, Paired, Written,
     Fetched, Serves, CachedDocument, cmdRefresh, Start, Goto, durable, world,
     bounds, local
<1> QED BY <1>1, <1>2, <1>3, <1>4, <1>5 DEF FInv

(* And a removal.                                                          *)
LEMMA RemoveRepositoryTypes ==
  ASSUME TInv, NEW c \in Client, removeRepository(c)
  PROVE  TInv'
<1>1. TypeOK'
  BY StartTypes DEF TInv, removeRepository, Policy
<1>2. WholeSeconds'
  BY RefreshAssumption DEF TInv, TypeOK, WholeSeconds, Fetched,
     removeRepository, Start, Goto, durable, world, bounds, local
<1>3. Fetched'
  BY RefreshAssumption DEF TInv, TypeOK, Fetched, Refreshing,
     CachedDocument, Verified, removeRepository, Start, Goto, durable, world,
     bounds, local
<1> QED BY <1>1, <1>2, <1>3 DEF TInv

(* With one command at a time the rest of the invariant is kept too.       *)
LEMMA RemoveRepositoryStep ==
  ASSUME FInv, OneAtATime, TInv', NEW c \in Client, removeRepository(c)
  PROVE  FInv'
<1>1. RowKept'
  BY RefreshAssumption DEF FInv, OneAtATime, TInv, TypeOK, RowKept, Refreshing,
     removeRepository, Start, Goto, durable, world, bounds, local
<1>2. NextRow'
  BY RefreshAssumption DEF FInv, OneAtATime, TInv, TypeOK, NextRow, RowKept,
     removeRepository, Start, Goto, durable, world, bounds, local
<1>3. Written'
  BY RefreshAssumption DEF FInv, OneAtATime, TInv, TypeOK, Written,
     CachedDocument, removeRepository, Start, Goto, durable, world, bounds,
     local
<1>4. CacheNotBehind'
  BY RefreshAssumption DEF FInv, OneAtATime, TInv, TypeOK, CacheNotBehind,
     NextRow, Written, Fetched, Serves, removeRepository, Start, Goto, durable,
     world, bounds, local
<1>5. Paired'
  BY RefreshAssumption DEF FInv, OneAtATime, TInv, TypeOK, Paired, Written,
     Fetched, Serves, CachedDocument, removeRepository, Start, Goto, durable,
     world, bounds, local
<1> QED BY <1>1, <1>2, <1>3, <1>4, <1>5 DEF FInv

(* A refresh takes note of the recorded row.                               *)
LEMMA ReadRowTypes ==
  ASSUME TInv, NEW c \in Client, readRow(c)
  PROVE  TInv'
<1>1. TypeOK'
  <2>1. CASE row = None
    BY <2>1, ExitTypes DEF TInv, TypeOK, readRow, durable, bounds
  <2>2. CASE row # None
    BY <2>2 DEF TInv, TypeOK, readRow, Goto, durable, world, bounds
  <2> QED BY <2>1, <2>2
<1>2. WholeSeconds'
  <2>1. row' = row /\ \A d \in Client : prev'[d] \in {prev[d], row, None}
    BY DEF TInv, TypeOK, readRow, Exit, durable
  <2> QED BY <2>1 DEF TInv, WholeSeconds
<1>3. Fetched'
  <2>1. \/ Exit(c)
        \/ /\ row # None /\ prev' = [prev EXCEPT ![c] = row]
           /\ pc' = [pc EXCEPT ![c] = "descriptor"] /\ UNCHANGED <<cmd, mode, now, desc, idx>>
    BY DEF readRow, Goto
  <2>2. CASE Exit(c)
    BY <2>2 DEF TInv, TypeOK, Fetched, Refreshing, CachedDocument, Exit, Goto
  <2>3. CASE /\ row # None /\ prev' = [prev EXCEPT ![c] = row]
             /\ pc' = [pc EXCEPT ![c] = "descriptor"]
             /\ UNCHANGED <<cmd, mode, now, desc, idx>>
    <3>1. \A d \in Client : d # c => pc'[d] = pc[d] /\ prev'[d] = prev[d]
      BY <2>3 DEF TInv, TypeOK
    <3>2. pc'[c] = "descriptor" /\ prev'[c] # None
      BY <2>3 DEF TInv, TypeOK
    <3> QED
      BY <2>3, <3>1, <3>2 DEF TInv, Fetched, Refreshing, CachedDocument
  <2> QED BY <2>1, <2>2, <2>3
<1> QED BY <1>1, <1>2, <1>3 DEF TInv

(* With one command at a time the rest of the invariant is kept too.       *)
LEMMA ReadRowStep ==
  ASSUME FInv, OneAtATime, TInv', NEW c \in Client, readRow(c)
  PROVE  FInv'
<1>1. RowKept'
  BY RefreshAssumption DEF FInv, OneAtATime, TInv, TypeOK, RowKept, Refreshing,
     readRow, Exit, Goto, durable, world, bounds
<1>2. NextRow'
  BY RefreshAssumption DEF FInv, OneAtATime, TInv, TypeOK, NextRow, RowKept,
     readRow, Exit, Goto, durable, world, bounds
<1>3. Written'
  BY RefreshAssumption DEF FInv, OneAtATime, TInv, TypeOK, Written,
     CachedDocument, readRow, Exit, Goto, durable, world, bounds
<1>4. CacheNotBehind'
  BY RefreshAssumption DEF FInv, OneAtATime, TInv, TypeOK, CacheNotBehind,
     NextRow, Written, Fetched, Serves, readRow, Exit, Goto, durable, world,
     bounds
<1>5. Paired'
  BY RefreshAssumption DEF FInv, OneAtATime, TInv, TypeOK, Paired, Written,
     Fetched, Serves, CachedDocument, readRow, Exit, Goto, durable, world,
     bounds
<1> QED BY <1>1, <1>2, <1>3, <1>4, <1>5 DEF FInv

(* A descriptor is kept once it verified.                                  *)
LEMMA FetchDescriptorTypes ==
  ASSUME TInv, NEW c \in Client, NEW d \in Served, fetchDescriptor(c, d)
  PROVE  TInv'
<1>1. TypeOK'
  BY ServedTypes, RefreshAssumption DEF TInv, TypeOK, CachedDocument,
     fetchDescriptor, Goto, durable, world, bounds
<1>2. WholeSeconds'
  BY ServedTypes, RefreshAssumption DEF TInv, TypeOK, WholeSeconds, Fetched,
     fetchDescriptor, Goto, durable, world, bounds
<1>3. Fetched'
  BY ServedTypes, RefreshAssumption DEF TInv, TypeOK, Fetched, Refreshing,
     CachedDocument, Verified, fetchDescriptor, Goto, durable, world,
     bounds
<1> QED BY <1>1, <1>2, <1>3 DEF TInv

(* With one command at a time the rest of the invariant is kept too.       *)
LEMMA FetchDescriptorStep ==
  ASSUME FInv, OneAtATime, TInv', NEW c \in Client, NEW d \in Served, fetchDescriptor(c, d)
  PROVE  FInv'
<1>1. RowKept'
  BY ServedTypes, RefreshAssumption DEF FInv, OneAtATime, TInv, TypeOK,
     RowKept, Refreshing, fetchDescriptor, Goto, durable, world, bounds
<1>2. NextRow'
  BY ServedTypes, RefreshAssumption DEF FInv, OneAtATime, TInv, TypeOK,
     NextRow, RowKept, fetchDescriptor, Goto, durable, world, bounds
<1>3. Written'
  BY ServedTypes, RefreshAssumption DEF FInv, OneAtATime, TInv, TypeOK,
     Written, CachedDocument, fetchDescriptor, Goto, durable, world, bounds
<1>4. CacheNotBehind'
  BY ServedTypes, RefreshAssumption DEF FInv, OneAtATime, TInv, TypeOK,
     CacheNotBehind, NextRow, Written, Fetched, Serves, fetchDescriptor, Goto,
     durable, world, bounds
<1>5. Paired'
  BY ServedTypes, RefreshAssumption DEF FInv, OneAtATime, TInv, TypeOK, Paired,
     Written, Fetched, Serves, CachedDocument, fetchDescriptor, Goto, durable,
     world, bounds
<1> QED BY <1>1, <1>2, <1>3, <1>4, <1>5 DEF FInv

(* An index is kept once it verified under the descriptor's keys.          *)
LEMMA FetchIndexTypes ==
  ASSUME TInv, NEW c \in Client, NEW i \in Served, fetchActiveIndex(c, i)
  PROVE  TInv'
<1>1. TypeOK'
  BY ServedTypes, RefreshAssumption DEF TInv, TypeOK, CachedDocument,
     fetchActiveIndex, IndexTrusted, Goto, durable, world, bounds
<1>2. WholeSeconds'
  BY ServedTypes, RefreshAssumption DEF TInv, TypeOK, WholeSeconds, Fetched,
     fetchActiveIndex, IndexTrusted, Goto, durable, world, bounds
<1>3. Fetched'
  BY ServedTypes, RefreshAssumption DEF TInv, TypeOK, Fetched, Refreshing,
     CachedDocument, Verified, fetchActiveIndex, IndexTrusted, Goto,
     durable, world, bounds
<1> QED BY <1>1, <1>2, <1>3 DEF TInv

(* With one command at a time the rest of the invariant is kept too.       *)
LEMMA FetchIndexStep ==
  ASSUME FInv, OneAtATime, TInv', NEW c \in Client, NEW i \in Served, fetchActiveIndex(c, i)
  PROVE  FInv'
<1>1. RowKept'
  BY ServedTypes, RefreshAssumption DEF FInv, OneAtATime, TInv, TypeOK,
     RowKept, Refreshing, fetchActiveIndex, IndexTrusted, Goto, durable, world,
     bounds
<1>2. NextRow'
  BY ServedTypes, RefreshAssumption DEF FInv, OneAtATime, TInv, TypeOK,
     NextRow, RowKept, fetchActiveIndex, IndexTrusted, Goto, durable, world,
     bounds
<1>3. Written'
  BY ServedTypes, RefreshAssumption DEF FInv, OneAtATime, TInv, TypeOK,
     Written, CachedDocument, fetchActiveIndex, IndexTrusted, Goto, durable,
     world, bounds
<1>4. CacheNotBehind'
  BY ServedTypes, RefreshAssumption DEF FInv, OneAtATime, TInv, TypeOK,
     CacheNotBehind, NextRow, Written, Fetched, Serves, fetchActiveIndex,
     IndexTrusted, Goto, durable, world, bounds
<1>5. Paired'
  BY ServedTypes, RefreshAssumption DEF FInv, OneAtATime, TInv, TypeOK, Paired,
     Written, Fetched, Serves, CachedDocument, fetchActiveIndex, IndexTrusted,
     Goto, durable, world, bounds
<1> QED BY <1>1, <1>2, <1>3, <1>4, <1>5 DEF FInv

(* The gate passes only what is not below the recorded row.                *)
LEMMA FreshnessTypes ==
  ASSUME TInv, NEW c \in Client, applyFreshnessFloor(c)
  PROVE  TInv'
<1>1. TypeOK'
  BY NewRowServes, RefreshAssumption DEF TInv, TypeOK, CachedDocument,
     applyFreshnessFloor, Goto, durable, world, bounds
<1>2. WholeSeconds'
  BY NewRowServes, RefreshAssumption DEF TInv, TypeOK, WholeSeconds, Fetched,
     applyFreshnessFloor, Goto, durable, world, bounds
<1>3. Fetched'
  <2>1. /\ pc[c] = "floor" /\ pc' = [pc EXCEPT ![c] = "cache"]
        /\ prev' = [prev EXCEPT ![c] = NewRow(c)]
        /\ UNCHANGED <<cmd, mode, now, desc, idx>>
    BY DEF applyFreshnessFloor, Goto
  <2>2. NewRow(c) # None /\ Serves(NewRow(c), CachedDocument(c))
    BY <2>1, NewRowServes, RefreshAssumption DEF applyFreshnessFloor
  <2>3. \A d \in Client : CachedDocument(d)' = CachedDocument(d) /\ Refreshing(d)' = Refreshing(d)
    BY <2>1 DEF CachedDocument, Refreshing
  <2>4. DOMAIN pc = Client /\ DOMAIN prev = Client
    BY DEF TInv, TypeOK
  <2> QED BY <2>1, <2>2, <2>3, <2>4 DEF TInv, Fetched
<1> QED BY <1>1, <1>2, <1>3 DEF TInv

(* With one command at a time the rest of the invariant is kept too.       *)
LEMMA FreshnessStep ==
  ASSUME FInv, OneAtATime, TInv', NEW c \in Client, applyFreshnessFloor(c)
  PROVE  FInv'
<1>1. RowKept'
  BY NewRowServes, RefreshAssumption DEF FInv, OneAtATime, TInv, TypeOK,
     RowKept, Refreshing, applyFreshnessFloor, Goto, durable, world, bounds
<1>2. NextRow'
  <2>1. pc' = [pc EXCEPT ![c] = "cache"] /\ prev' = [prev EXCEPT ![c] = NewRow(c)]
        /\ row' = row
    BY DEF applyFreshnessFloor, Goto, durable
  <2>2. row # None => Recorded(c) = row
    BY DEF FInv, RowKept, Recorded, applyFreshnessFloor
  <2>3. row # None => NewRow(c).version >= row.version /\ NewRow(c).generated >= row.generated
    BY <2>2, NewRowServes DEF FInv, applyFreshnessFloor
  <2> QED BY <2>1, <2>3 DEF NextRow, OneAtATime, FInv, TInv, TypeOK
<1>3. Written'
  BY NewRowServes, RefreshAssumption DEF FInv, OneAtATime, TInv, TypeOK,
     Written, CachedDocument, applyFreshnessFloor, Goto, durable, world, bounds
<1>4. CacheNotBehind'
  BY NewRowServes, RefreshAssumption DEF FInv, OneAtATime, TInv, TypeOK,
     CacheNotBehind, NextRow, Written, Fetched, Serves, applyFreshnessFloor,
     Goto, durable, world, bounds
<1>5. Paired'
  BY NewRowServes, RefreshAssumption DEF FInv, OneAtATime, TInv, TypeOK,
     Paired, Written, Fetched, Serves, CachedDocument, applyFreshnessFloor,
     Goto, durable, world, bounds
<1> QED BY <1>1, <1>2, <1>3, <1>4, <1>5 DEF FInv

(* The index is published before the row.                                  *)
LEMMA CacheIndexTypes ==
  ASSUME TInv, NEW c \in Client, cacheIndex(c)
  PROVE  TInv'
<1>1. TypeOK'
  BY CachedType DEF TInv, TypeOK, cacheIndex, Goto, world, bounds
<1>2. WholeSeconds'
  BY RefreshAssumption DEF TInv, TypeOK, WholeSeconds, Fetched, cacheIndex,
     Goto, world, bounds
<1>3. Fetched'
  BY RefreshAssumption DEF TInv, TypeOK, Fetched, Refreshing,
     CachedDocument, Verified, cacheIndex, Goto, world, bounds
<1> QED BY <1>1, <1>2, <1>3 DEF TInv

(* With one command at a time the rest of the invariant is kept too.       *)
LEMMA CacheIndexStep ==
  ASSUME FInv, OneAtATime, TInv', NEW c \in Client, cacheIndex(c)
  PROVE  FInv'
<1>1. RowKept'
  BY RefreshAssumption DEF FInv, OneAtATime, TInv, TypeOK, RowKept, Refreshing,
     cacheIndex, Goto, world, bounds
<1>2. NextRow'
  BY RefreshAssumption DEF FInv, OneAtATime, TInv, TypeOK, NextRow, RowKept,
     cacheIndex, Goto, world, bounds
<1>3. Written'
  BY RefreshAssumption DEF FInv, OneAtATime, TInv, TypeOK, Written,
     CachedDocument, cacheIndex, Goto, world, bounds
<1>4. CacheNotBehind'
  BY RefreshAssumption DEF FInv, OneAtATime, TInv, TypeOK, CacheNotBehind,
     NextRow, Written, Fetched, Serves, cacheIndex, Goto, world, bounds
<1>5. Paired'
  BY RefreshAssumption DEF FInv, OneAtATime, TInv, TypeOK, Paired, Written,
     Fetched, Serves, CachedDocument, cacheIndex, Goto, world, bounds
<1> QED BY <1>1, <1>2, <1>3, <1>4, <1>5 DEF FInv

(* The row that is written describes the cached index.                     *)
LEMMA UpsertTypes ==
  ASSUME TInv, NEW c \in Client, UpsertRepository(c)
  PROVE  TInv'
<1>1. TypeOK'
  BY ExitTypes DEF TInv, TypeOK, UpsertRepository, bounds
<1>2. WholeSeconds'
  BY RefreshAssumption DEF TInv, TypeOK, WholeSeconds, Fetched,
     UpsertRepository, Exit, Goto, world, bounds
<1>3. Fetched'
  BY RefreshAssumption DEF TInv, TypeOK, Fetched, Refreshing,
     CachedDocument, Verified, UpsertRepository, Exit, Goto, world, bounds
<1> QED BY <1>1, <1>2, <1>3 DEF TInv

(* With one command at a time the rest of the invariant is kept too.       *)
LEMMA UpsertStep ==
  ASSUME FInv, OneAtATime, TInv', NEW c \in Client, UpsertRepository(c)
  PROVE  FInv'
<1>1. RowKept'
  BY RefreshAssumption DEF FInv, OneAtATime, TInv, TypeOK, RowKept, Refreshing,
     UpsertRepository, Exit, Goto, world, bounds
<1>2. NextRow'
  BY RefreshAssumption DEF FInv, OneAtATime, TInv, TypeOK, NextRow, RowKept,
     UpsertRepository, Exit, Goto, world, bounds
<1>3. Written'
  BY RefreshAssumption DEF FInv, OneAtATime, TInv, TypeOK, Written,
     CachedDocument, UpsertRepository, Exit, Goto, world, bounds
<1>4. CacheNotBehind'
  <2>1. row' = prev[c] /\ cache' = cache /\ pc[c] = "upsert"
    BY DEF UpsertRepository
  <2>2. Serves(prev[c], cache) /\ prev[c] \in RepoRow
    BY <2>1 DEF FInv, TInv, TypeOK, Fetched, Written
  <2> QED BY <2>1, <2>2 DEF CacheNotBehind, Serves, RepoRow
<1>5. Paired'
  BY RefreshAssumption DEF FInv, OneAtATime, TInv, TypeOK, Paired, Written,
     Fetched, Serves, CachedDocument, UpsertRepository, Exit, Goto, world,
     bounds
<1> QED BY <1>1, <1>2, <1>3, <1>4, <1>5 DEF FInv

(* Deleting the row leaves the cached index.                               *)
LEMMA DeleteTypes ==
  ASSUME TInv, NEW c \in Client, DeleteRepository(c)
  PROVE  TInv'
<1>1. TypeOK'
  BY ExitTypes DEF TInv, TypeOK, DeleteRepository, bounds
<1>2. WholeSeconds'
  BY RefreshAssumption DEF TInv, TypeOK, WholeSeconds, Fetched,
     DeleteRepository, Exit, Goto, world, bounds
<1>3. Fetched'
  BY RefreshAssumption DEF TInv, TypeOK, Fetched, Refreshing,
     CachedDocument, Verified, DeleteRepository, Exit, Goto, world, bounds
<1> QED BY <1>1, <1>2, <1>3 DEF TInv

(* With one command at a time the rest of the invariant is kept too.       *)
LEMMA DeleteStep ==
  ASSUME FInv, OneAtATime, TInv', NEW c \in Client, DeleteRepository(c)
  PROVE  FInv'
<1>1. RowKept'
  BY RefreshAssumption DEF FInv, OneAtATime, TInv, TypeOK, RowKept, Refreshing,
     DeleteRepository, Exit, Goto, world, bounds
<1>2. NextRow'
  BY RefreshAssumption DEF FInv, OneAtATime, TInv, TypeOK, NextRow, RowKept,
     DeleteRepository, Exit, Goto, world, bounds
<1>3. Written'
  BY RefreshAssumption DEF FInv, OneAtATime, TInv, TypeOK, Written,
     CachedDocument, DeleteRepository, Exit, Goto, world, bounds
<1>4. CacheNotBehind'
  BY RefreshAssumption DEF FInv, OneAtATime, TInv, TypeOK, CacheNotBehind,
     NextRow, Written, Fetched, Serves, DeleteRepository, Exit, Goto, world,
     bounds
<1>5. Paired'
  BY RefreshAssumption DEF FInv, OneAtATime, TInv, TypeOK, Paired, Written,
     Fetched, Serves, CachedDocument, DeleteRepository, Exit, Goto, world,
     bounds
<1> QED BY <1>1, <1>2, <1>3, <1>4, <1>5 DEF FInv

(* A command that fails leaves the row as it was.                          *)
LEMMA FailsTypes ==
  ASSUME TInv, NEW c \in Client, fails(c)
  PROVE  TInv'
<1>1. TypeOK'
  <2>1. cache' \in CachedIndex \cup {None}
    BY CachedType DEF TInv, TypeOK, fails
  <2>2. config' \in Policy \cup {"none"}
    BY DEF TInv, TypeOK, fails
  <2>3. crashes' \in 0 .. MaxCrash /\ faults' \in 0 .. MaxFault
    BY RefreshAssumption DEF TInv, TypeOK, fails, Fault, bounds
  <2> QED BY <2>1, <2>2, <2>3, ExitTypes DEF TInv, TypeOK, fails
<1>2. WholeSeconds'
  BY RefreshAssumption DEF TInv, TypeOK, WholeSeconds, Fetched, fails, Exit,
     Goto, Fault, world, bounds
<1>3. Fetched'
  BY RefreshAssumption DEF TInv, TypeOK, Fetched, Refreshing,
     CachedDocument, Verified, fails, Exit, Goto, Fault, world, bounds
<1> QED BY <1>1, <1>2, <1>3 DEF TInv

(* With one command at a time the rest of the invariant is kept too.       *)
LEMMA FailsStep ==
  ASSUME FInv, OneAtATime, TInv', NEW c \in Client, fails(c)
  PROVE  FInv'
<1>1. RowKept'
  BY RefreshAssumption DEF FInv, OneAtATime, TInv, TypeOK, RowKept, Refreshing,
     fails, Exit, Goto, Fault, world, bounds
<1>2. NextRow'
  BY RefreshAssumption DEF FInv, OneAtATime, TInv, TypeOK, NextRow, RowKept,
     fails, Exit, Goto, Fault, world, bounds
<1>3. Written'
  BY RefreshAssumption DEF FInv, OneAtATime, TInv, TypeOK, Written,
     CachedDocument, fails, Exit, Goto, Fault, world, bounds
<1>4. CacheNotBehind'
  BY RefreshAssumption DEF FInv, OneAtATime, TInv, TypeOK, CacheNotBehind,
     NextRow, Written, Fetched, Serves, fails, Exit, Goto, Fault, world, bounds
<1>5. Paired'
  <2>1. \A d \in Client : d = c
    BY DEF OneAtATime
  <2>2. row' = row /\ (cache' = cache \/ pc[c] = "cache")
    BY DEF fails
  <2>3. pc[c] = "cache" => crashes' + faults' # 0
    BY DEF fails, Refused, Fault, FInv, TInv, TypeOK
  <2>4. crashes' + faults' = 0 => crashes + faults = 0
    <3>1. crashes \in Nat /\ faults \in Nat
      BY RefreshAssumption DEF FInv, TInv, TypeOK
    <3>2. crashes' = crashes /\ (faults' = faults \/ faults' = faults + 1)
      BY DEF fails, Fault, bounds
    <3> QED BY <3>1, <3>2
  <2>5. CASE pc[c] = "upsert"
    BY <2>1, <2>2, <2>5 DEF Paired, fails, Refused, Fault, FInv, TInv, TypeOK
  <2>6. CASE pc[c] # "upsert"
    BY <2>1, <2>2, <2>3, <2>4, <2>6 DEF Paired, FInv
  <2> QED BY <2>5, <2>6
<1> QED BY <1>1, <1>2, <1>3, <1>4, <1>5 DEF FInv

(* So does one that is killed.                                             *)
LEMMA CrashTypes ==
  ASSUME TInv, NEW c \in Client, Crash(c)
  PROVE  TInv'
<1>1. TypeOK'
  <2>1. crashes' \in 0 .. MaxCrash
    BY RefreshAssumption DEF TInv, TypeOK, Crash
  <2> QED BY <2>1, ExitTypes DEF TInv, TypeOK, Crash, durable
<1>2. WholeSeconds'
  BY RefreshAssumption DEF TInv, TypeOK, WholeSeconds, Fetched, Crash, Exit,
     Goto, durable, world
<1>3. Fetched'
  BY RefreshAssumption DEF TInv, TypeOK, Fetched, Refreshing,
     CachedDocument, Verified, Crash, Exit, Goto, durable, world
<1> QED BY <1>1, <1>2, <1>3 DEF TInv

(* With one command at a time the rest of the invariant is kept too.       *)
LEMMA CrashStep ==
  ASSUME FInv, OneAtATime, TInv', NEW c \in Client, Crash(c)
  PROVE  FInv'
<1>1. RowKept'
  BY RefreshAssumption DEF FInv, OneAtATime, TInv, TypeOK, RowKept, Refreshing,
     Crash, Exit, Goto, durable, world
<1>2. NextRow'
  BY RefreshAssumption DEF FInv, OneAtATime, TInv, TypeOK, NextRow, RowKept,
     Crash, Exit, Goto, durable, world
<1>3. Written'
  BY RefreshAssumption DEF FInv, OneAtATime, TInv, TypeOK, Written,
     CachedDocument, Crash, Exit, Goto, durable, world
<1>4. CacheNotBehind'
  BY RefreshAssumption DEF FInv, OneAtATime, TInv, TypeOK, CacheNotBehind,
     NextRow, Written, Fetched, Serves, Crash, Exit, Goto, durable, world
<1>5. Paired'
  BY RefreshAssumption DEF FInv, OneAtATime, TInv, TypeOK, Paired, Written,
     Fetched, Serves, CachedDocument, Crash, Exit, Goto, durable, world
<1> QED BY <1>1, <1>2, <1>3, <1>4, <1>5 DEF FInv

(* Publications and time are outside the client.                           *)
LEMMA WorldTypes ==
  ASSUME TInv, Publish \/ Tick
  PROVE  TInv'
<1>1. TypeOK'
  BY RefreshAssumption DEF TInv, TypeOK, CachedDocument, Publish, Tick,
     durable, world, bounds, local
<1>2. WholeSeconds'
  BY RefreshAssumption DEF TInv, TypeOK, WholeSeconds, Fetched, Publish, Tick,
     durable, world, bounds, local
<1>3. Fetched'
  <2>1. UNCHANGED <<pc, cmd, mode, now, prev, desc, idx>>
    BY DEF Publish, Tick, local
  <2> QED BY <2>1 DEF TInv, Fetched, Refreshing, CachedDocument
<1> QED BY <1>1, <1>2, <1>3 DEF TInv

(* With one command at a time the rest of the invariant is kept too.       *)
LEMMA WorldStep ==
  ASSUME FInv, OneAtATime, TInv', Publish \/ Tick
  PROVE  FInv'
<1>1. RowKept'
  BY RefreshAssumption DEF FInv, OneAtATime, TInv, TypeOK, RowKept, Refreshing,
     Publish, Tick, durable, world, bounds, local
<1>2. NextRow'
  BY RefreshAssumption DEF FInv, OneAtATime, TInv, TypeOK, NextRow, RowKept,
     Publish, Tick, durable, world, bounds, local
<1>3. Written'
  BY RefreshAssumption DEF FInv, OneAtATime, TInv, TypeOK, Written,
     CachedDocument, Publish, Tick, durable, world, bounds, local
<1>4. CacheNotBehind'
  BY RefreshAssumption DEF FInv, OneAtATime, TInv, TypeOK, CacheNotBehind,
     NextRow, Written, Fetched, Serves, Publish, Tick, durable, world, bounds,
     local
<1>5. Paired'
  BY RefreshAssumption DEF FInv, OneAtATime, TInv, TypeOK, Paired, Written,
     Fetched, Serves, CachedDocument, Publish, Tick, durable, world, bounds,
     local
<1> QED BY <1>1, <1>2, <1>3, <1>4, <1>5 DEF FInv

(* A repository nobody has added satisfies the invariant.                  *)
LEMMA InitRefresh == Init => FInv
  BY RefreshAssumption DEF Init, FInv, TInv, TypeOK, WholeSeconds, Fetched, RowKept, NextRow,
     Written, CacheNotBehind, Paired, Policy

(* Every step of every client keeps what has been fetched well formed.     *)
LEMMA NextTypes == TInv /\ [Next]_vars => TInv'
<1>1. SUFFICES ASSUME TInv, [Next]_vars PROVE TInv'
  OBVIOUS
<1>2. ASSUME NEW c \in Client,
             \/ (\E policy \in Policy : addRepository(c, policy)) \/ addConfigured(c)
             \/ cmdRefresh(c) \/ removeRepository(c) \/ Command(c) \/ Crash(c)
      PROVE  TInv'
  BY <1>1, <1>2, AddRepositoryTypes, AddConfiguredTypes, CmdRefreshTypes,
     RemoveRepositoryTypes, ReadRowTypes, FetchDescriptorTypes, FetchIndexTypes,
     FreshnessTypes, CacheIndexTypes, UpsertTypes, DeleteTypes, FailsTypes, CrashTypes
  DEF Command, Fetches
<1>3. CASE UNCHANGED vars
  BY <1>1, <1>3 DEF vars, durable, world, bounds, local, TInv, TypeOK, WholeSeconds, Fetched,
     Refreshing, Serves, CachedDocument
<1> QED BY <1>1, <1>2, <1>3, WorldTypes DEF Next

(* With one command at a time every step keeps the inductive invariant.    *)
LEMMA NextFloor ==
  ASSUME OneAtATime
  PROVE  FInv /\ [Next]_vars => FInv'
<1>1. SUFFICES ASSUME FInv, [Next]_vars PROVE FInv'
  OBVIOUS
<1>2. TInv'
  BY <1>1, NextTypes DEF FInv
<1>3. ASSUME NEW c \in Client,
             \/ (\E policy \in Policy : addRepository(c, policy)) \/ addConfigured(c)
             \/ cmdRefresh(c) \/ removeRepository(c) \/ Command(c) \/ Crash(c)
      PROVE  FInv'
  BY <1>1, <1>2, <1>3, AddRepositoryStep, AddConfiguredStep, CmdRefreshStep,
     RemoveRepositoryStep, ReadRowStep, FetchDescriptorStep, FetchIndexStep, FreshnessStep,
     CacheIndexStep, UpsertStep, DeleteStep, FailsStep, CrashStep
  DEF Command, Fetches
<1>4. CASE UNCHANGED vars
  BY <1>1, <1>2, <1>4 DEF vars, durable, world, bounds, local, FInv, RowKept, Refreshing,
     NextRow, Written, CachedDocument, CacheNotBehind, Paired
<1> QED BY <1>1, <1>2, <1>3, <1>4, WorldStep DEF Next

(* Every reachable state has the declared types, however many clients      *)
(* race: a row is only written from a document that was fetched and        *)
(* verified.                                                               *)
THEOREM TypeCorrect == Spec => []TypeOK
<1>1. Init => TInv
  BY InitRefresh DEF FInv
<1>2. TInv => TypeOK
  BY DEF TInv
<1> QED BY <1>1, <1>2, NextTypes, PTL DEF Spec

(* The inductive invariant holds when commands do not overlap.             *)
THEOREM Invariance ==
  ASSUME OneAtATime
  PROVE  Spec => []FInv
<1>1. FInv /\ [Next]_vars => FInv'
  BY NextFloor
<1> QED BY <1>1, InitRefresh, PTL DEF Spec

(* The freshness floor of section 5.34: no command but a removal lowers    *)
(* the recorded index version or generation time, whatever mirrors serve,  *)
(* whatever fails and wherever a command is killed.                        *)
THEOREM FloorHolds ==
  ASSUME OneAtATime
  PROVE  Spec => FloorNeverLowered
<1>1. ASSUME FInv, [Next]_vars
      PROVE  row # None /\ row' # None =>
               row'.version >= row.version /\ row'.generated >= row.generated
  <2>1. row' = row \/ row' = None \/ \E c \in Client : pc[c] = "upsert" /\ row' = prev[c]
    BY <1>1 DEF Next, vars, durable, world, bounds, local, addRepository, addConfigured,
       cmdRefresh, removeRepository, Command, readRow, Fetches, fetchDescriptor,
       fetchActiveIndex, applyFreshnessFloor, cacheIndex, UpsertRepository, DeleteRepository,
       fails, Crash, Publish, Tick
  <2>2. row \in RepoRow \cup {None}
    BY <1>1 DEF FInv, TInv, TypeOK
  <2>3. CASE row' = row
    BY <2>2, <2>3 DEF RepoRow
  <2>4. CASE \E c \in Client : pc[c] = "upsert" /\ row' = prev[c]
    BY <1>1, <2>4 DEF FInv, NextRow
  <2> QED BY <2>1, <2>3, <2>4
<1>2. FInv /\ [Next]_vars => [row # None /\ row' # None =>
        row'.version >= row.version /\ row'.generated >= row.generated]_vars
  BY <1>1
<1> QED BY <1>2, Invariance, PTL DEF Spec, FloorNeverLowered

(* A crash between the two writes leaves an index the next refresh         *)
(* accepts: the cached index is never behind the row.                      *)
THEOREM CacheKeepsUp ==
  ASSUME OneAtATime
  PROVE  Spec => []CacheNotBehind
<1>1. FInv => CacheNotBehind
  BY DEF FInv
<1> QED BY <1>1, Invariance, PTL

(* Without a kill or a failing call, a repository that was added is        *)
(* resolved from whenever no command runs, through key rotations and       *)
(* mirrors that lag: what is refused is refused only because time has      *)
(* passed over the valid_until that the descriptor gave the signing key.   *)
THEOREM AlwaysServed ==
  ASSUME OneAtATime
  PROVE  Spec => []ServedBetweenCommands
<1>1. ASSUME FInv PROVE ServedBetweenCommands
  <2>1. SUFFICES ASSUME crashes + faults = 0, \A c \in Client : pc[c] = "idle", row # None
                 PROVE  AsRecorded /\ (SignatureHolds \/ Lapsed)
    BY DEF ServedBetweenCommands
  <2>2. Serves(row, cache)
    BY <1>1, <2>1 DEF FInv, Paired
  <2>3. AsRecorded
    BY <2>1, <2>2 DEF Serves, AsRecorded
  <2>4. ASSUME NEW d \in row.keys, d.key = cache.signer, d.status # "revoked"
        PROVE  SignatureHolds \/ Lapsed
    <3>1. d \in TrustKey /\ clock \in Nat
      BY <1>1, <2>1, RefreshAssumption DEF FInv, TInv, TypeOK, RepoRow
    <3>2. d.status \in {"active", "transitioning"} /\ d.until \in Nat
      BY <2>4, <3>1 DEF TrustKey, KeyStatus
    <3>3. CASE verifiableAt(d, clock)
      BY <2>4, <3>3 DEF SignatureHolds, VerificationKeys
    <3>4. CASE ~verifiableAt(d, clock)
      BY <2>4, <3>1, <3>2, <3>4 DEF verifiableAt, Lapsed
    <3> QED BY <3>3, <3>4
  <2> QED BY <2>2, <2>3, <2>4 DEF Serves, SignatureHolds
<1>2. FInv => ServedBetweenCommands
  BY <1>1
<1> QED BY <1>2, Invariance, PTL
=============================================================================
