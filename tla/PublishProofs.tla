---------------------------- MODULE PublishProofs ----------------------------
(***************************************************************************)
(* Theorems about Publish, for any number of publishers and consumers'     *)
(* fetches, any package files, keys, templates, flags and bounds.          *)
(*                                                                         *)
(* One inductive invariant, IInv, carries all but AdvertisedServed.  Its   *)
(* parts, besides TypeOK and ProtectedInstalls:                            *)
(*   Shapes    the two indexes, their signatures and the publishers'       *)
(*             bookkeeping are total functions;                            *)
(*   Alone     one publication at a time;                                  *)
(*   Opened    what a publisher read is what is served until it renames;   *)
(*   Staged    what the renames of a publication still to do will make of  *)
(*             the repository, InFlight;                                   *)
(*   Recorded  what is advertised or was ever told is in the archive,      *)
(*             which records an identity once;                             *)
(*   Forward   index versions only grow, archive first.                    *)
(* SInv adds to it that what the indexes to come will advertise is served  *)
(* or renamed into place before them; it needs that URLs tell files apart. *)
(***************************************************************************)
EXTENDS Publish, FiniteSetTheorems, SequenceTheorems, TLAPS

Doc == {"archive", "active"}

(* The indexes and the publishers' bookkeeping are total functions.        *)
Shapes ==
  /\ docs = [archive |-> docs.archive, active |-> docs.active]
  /\ sigs = [n \in Doc |-> sigs[n]]
  /\ read = [p \in Publisher |-> read[p]]
  /\ job = [p \in Publisher |-> job[p]]
  /\ fetched # None => IndexOK(fetched, "active")

(* One publication at a time.                                              *)
Alone == \A p, q \in Publisher : phase[p] # "idle" /\ phase[q] # "idle" => p = q

(* Until it renames, a publisher has read what is served.                  *)
Opened == \A p \in Publisher : phase[p] = "open" => read[p] = docs

(* An archive records an identity once.                                    *)
OneEach(entries) == \A e, f \in entries : identityOf(e.of) = identityOf(f.of) => e = f

(* An active index lists a name once.                                      *)
OneName(entries) == \A e, f \in entries : e.of.name = f.of.name => e = f

(* Entries made under a template that publishing accepts.                  *)
Valid == {Entry(t, a) : t \in {u \in Template : validateURLTemplate(u)}, a \in Artifact}

Kept(e, entries) == e \in entries \/ identityOf(e.of) \in waived

(* The renames that publish an archive and an active index.                *)
Renames(archive, active, key) ==
  {FileWrite(e) : e \in Entries}
    \cup {[what |-> "doc", name |-> "archive", doc |-> archive],
          [what |-> "doc", name |-> "active", doc |-> active]}
    \cup {[what |-> "sig", name |-> "archive", doc |-> archive, key |-> key],
          [what |-> "sig", name |-> "active", doc |-> active, key |-> key]}

(* The last four renames are the two documents; before them come package   *)
(* files of the new archive.                                               *)
Order(renames, archive, active, key) ==
  LET n == Len(renames) IN
  \A i \in 1 .. n :
    /\ n - i = 0 =>
         renames[i] = [what |-> "sig", name |-> "active", doc |-> active, key |-> key]
    /\ n - i = 1 => renames[i] = [what |-> "doc", name |-> "active", doc |-> active]
    /\ n - i = 2 =>
         renames[i] = [what |-> "sig", name |-> "archive", doc |-> archive, key |-> key]
    /\ n - i = 3 => renames[i] = [what |-> "doc", name |-> "archive", doc |-> archive]
    /\ n - i >= 4 => \E e \in archive.entries : e.url.local /\ renames[i] = FileWrite(e)

(* What may become of the indexes old.                                     *)
Succeeds(archive, active, old) ==
  /\ IndexOK(archive, "archive") /\ IndexOK(active, "active")
  /\ archive.entries \subseteq Valid
  /\ OneEach(archive.entries) /\ OneName(active.entries)
  /\ active.entries \subseteq archive.entries
  /\ active.version = archive.version
  /\ old.archive.version < archive.version /\ old.active.version < active.version
  /\ \A e \in old.archive.entries : Kept(e, archive.entries)
  /\ protected => \A e \in active.entries : Installs(Reach({e}, active.entries))

(* Where publication p stands on its way to archive and active.            *)
InFlight(p, archive, active, key) ==
  /\ key \in DOMAIN KeyStatus
  /\ job[p] \in Seq(Renames(archive, active, key))
  /\ Order(job[p], archive, active, key)
  /\ Succeeds(archive, active, read[p])
  /\ docs.archive = IF Len(job[p]) > 3 THEN read[p].archive ELSE archive
  /\ docs.active = IF Len(job[p]) > 1 THEN read[p].active ELSE active

(* Every publication being committed is on its way somewhere.              *)
Staged ==
  \A p \in Publisher : phase[p] = "commit" =>
    \E archive, active, key : InFlight(p, archive, active, key)

(* What was ever advertised is recorded, or the operator waived it.        *)
Recorded ==
  /\ OneEach(docs.archive.entries) /\ docs.archive.entries \subseteq Valid
  /\ \A e \in docs.active.entries \cup holding : Kept(e, docs.archive.entries)
  /\ fetched # None => \A e \in fetched.entries : Kept(e, docs.archive.entries)

(* No index is behind one that was served before it.                       *)
Forward ==
  /\ FloorServed
  /\ fetched # None => fetched.version <= docs.active.version

(* The inductive invariant.                                                *)
IInv ==
  /\ TypeOK /\ Shapes /\ Alone /\ Opened /\ Staged /\ Recorded /\ Forward
  /\ ProtectedInstalls

Served(e) == e.url.local /\ identityOf(e.of) \notin waived => files[e.url] = e.of

(* What an index about to be renamed advertises is in place, or its file   *)
(* is still to be renamed before it.                                       *)
PendingServed ==
  \A p \in Publisher : phase[p] = "commit" =>
    \A i \in 1 .. Len(job[p]) : job[p][i].what = "doc" =>
      \A e \in job[p][i].doc.entries :
        Served(e) \/ \E j \in 1 .. i - 1 : job[p][j] = FileWrite(e)

(* URLs tell package files apart as far as their identities do: builds of  *)
(* one version for two architectures are published under templates that    *)
(* show the architecture.                                                  *)
UrlsTellApart ==
  \A t, u \in Template, a, b \in Artifact :
    validateURLTemplate(t) /\ validateURLTemplate(u) /\ t.local /\ Url(t, a) = Url(u, b) =>
      identityOf(a) = identityOf(b)

-----------------------------------------------------------------------------
(* Package files have an order, so the files a publication adds have one.  *)

(* Where a package file stands in path order.                              *)
Pos(a) == CHOOSE i \in DOMAIN Artifacts : Artifacts[i] = a

(* Positions are numbers within the list, and a file stands at its own.    *)
LEMMA PosType ==
  ASSUME NEW a \in Artifact
  PROVE  Pos(a) \in 1 .. Len(Artifacts) /\ Artifacts[Pos(a)] = a
<1>1. \E i \in DOMAIN Artifacts : Artifacts[i] = a
  BY DEF Artifact
<1>2. DOMAIN Artifacts = 1 .. Len(Artifacts) /\ Len(Artifacts) \in Nat
  BY PublishAssumption
<1> QED BY <1>1, <1>2 DEF Pos

(* Earlier in path order is at a lower position.                           *)
LEMMA PosEarlier ==
  ASSUME NEW a \in Artifact, NEW b \in Artifact
  PROVE  Earlier(a, b) <=> Pos(a) < Pos(b)
<1>1. DOMAIN Artifacts = 1 .. Len(Artifacts)
  BY PublishAssumption
<1> QED BY <1>1, PosType, PublishAssumption DEF Earlier

(* The entries one publication adds.                                       *)
Added(t, inputs) == {Entry(t, a) : a \in inputs}

(* There are finitely many package files.                                  *)
LEMMA ArtifactFinite == IsFiniteSet(Artifact)
<1> DEFINE S == DOMAIN Artifacts
           f == [i \in S |-> Artifacts[i]]
<1>1. S = 1 .. Len(Artifacts) /\ Len(Artifacts) \in Nat
  BY PublishAssumption
<1>2. IsFiniteSet(S)
  BY <1>1, FS_Interval
<1>3. f \in Surjection(S, Artifact)
  BY DEF Artifact, Surjection
<1> QED BY <1>2, <1>3, FS_Surjection

(* A set of entries of different package files is finite and can be put in *)
(* path order: count, for each, those that do not come after it.           *)
LEMMA OrderExists ==
  ASSUME NEW S, S \subseteq Entries, \A e, f \in S : e.of = f.of => e = f
  PROVE  /\ IsFiniteSet(S) /\ Cardinality(S) \in Nat
         /\ \E s \in [1 .. Cardinality(S) -> S] :
              \A i, j \in DOMAIN s : i < j => Earlier(s[i].of, s[j].of)
<1> DEFINE n == Cardinality(S)
           g == [e \in S |-> e.of]
           Upto(e) == {f \in S : Pos(f.of) <= Pos(e.of)}
           rank == [e \in S |-> Cardinality(Upto(e))]
<1>1. \A e \in S : e.of \in Artifact
  BY DEF Entries, Entry
<1>2. IsFiniteSet(S)
  <2>1. g \in Injection(S, Artifact)
    BY <1>1 DEF Injection, IsInjective
  <2> QED BY <2>1, ArtifactFinite, FS_Injection
<1>3. n \in Nat
  BY <1>2, FS_CardinalityType
<1>4. \A e, f \in S : e # f => Pos(e.of) # Pos(f.of)
  BY <1>1, PosType
<1>5. \A e \in S : Pos(e.of) \in Nat
  BY <1>1, PosType
<1>6. \A e \in S : Upto(e) \subseteq S /\ IsFiniteSet(Upto(e)) /\ Cardinality(Upto(e)) \in Nat
                     /\ Cardinality(Upto(e)) <= n
  <2> SUFFICES ASSUME NEW e \in S
               PROVE  /\ IsFiniteSet(Upto(e)) /\ Cardinality(Upto(e)) \in Nat
                      /\ Cardinality(Upto(e)) <= n
    OBVIOUS
  <2>1. Upto(e) \in SUBSET S
    OBVIOUS
  <2>2. IsFiniteSet(Upto(e)) /\ Cardinality(Upto(e)) <= n
    BY <2>1, <1>2, FS_Subset
  <2> QED BY <2>2, FS_CardinalityType
<1>7. \A e \in S : Cardinality(Upto(e)) # 0
  <2> SUFFICES ASSUME NEW e \in S PROVE Cardinality(Upto(e)) # 0
    OBVIOUS
  <2>1. e \in Upto(e)
    BY <1>5
  <2>2. Upto(e) # {}
    BY <2>1
  <2> QED BY <2>2, <1>6, FS_EmptySet
<1>8. ASSUME NEW e \in S, NEW f \in S, Pos(e.of) < Pos(f.of)
      PROVE  rank[e] < rank[f]
  <2>1. Upto(e) \subseteq Upto(f)
    BY <1>5, <1>8
  <2>2. f \in Upto(f) /\ f \notin Upto(e)
    BY <1>5, <1>8
  <2>3. Upto(e) # Upto(f)
    BY <2>2
  <2>4. Upto(e) \in SUBSET Upto(f)
    BY <2>1
  <2>5. IsFiniteSet(Upto(f))
    BY <1>6
  <2>6. Cardinality(Upto(e)) <= Cardinality(Upto(f)) /\ Cardinality(Upto(e)) # Cardinality(Upto(f))
    BY <2>3, <2>4, <2>5, FS_Subset
  <2>7. rank[e] = Cardinality(Upto(e)) /\ rank[f] = Cardinality(Upto(f))
    OBVIOUS
  <2>8. Cardinality(Upto(e)) \in Nat /\ Cardinality(Upto(f)) \in Nat
    BY <1>6
  <2> HIDE DEF rank, Upto
  <2> QED BY <2>6, <2>7, <2>8
<1>9. rank \in [S -> 1 .. n]
  <2>1. \A e \in S : Cardinality(Upto(e)) \in 1 .. n
    <3> HIDE DEF Upto, n
    <3> QED BY <1>3, <1>6, <1>7
  <2> HIDE DEF Upto, n
  <2> QED BY <2>1
<1>10. \A e, f \in S : e # f => rank[e] # rank[f]
  <2> SUFFICES ASSUME NEW e \in S, NEW f \in S, e # f PROVE rank[e] # rank[f]
    OBVIOUS
  <2>1. rank[e] \in Nat /\ rank[f] \in Nat
    BY <1>6
  <2>2. CASE Pos(e.of) < Pos(f.of)
    BY <2>1, <2>2, <1>8
  <2>3. CASE Pos(f.of) < Pos(e.of)
    BY <2>1, <2>3, <1>8
  <2> QED BY <2>2, <2>3, <1>4, <1>5
<1>11. rank \in Surjection(S, 1 .. n)
  <2>1. rank \in Injection(S, 1 .. n)
    BY <1>9, <1>10 DEF Injection, IsInjective
  <2>2. IsFiniteSet(1 .. n) /\ Cardinality(1 .. n) = n
    BY <1>3, FS_Interval
  <2> HIDE DEF rank
  <2> QED BY <2>1, <2>2, FS_Injection
<1> DEFINE s == [i \in 1 .. n |-> CHOOSE e \in S : rank[e] = i]
<1>12. \A i \in 1 .. n : s[i] \in S /\ rank[s[i]] = i
  <2> HIDE DEF rank
  <2> QED BY <1>11 DEF Surjection
<1>13. ASSUME NEW i \in 1 .. n, NEW j \in 1 .. n, i < j
       PROVE  Earlier(s[i].of, s[j].of)
  <2>1. s[i] \in S /\ s[j] \in S /\ rank[s[i]] < rank[s[j]]
    BY <1>12, <1>13
  <2> HIDE DEF s, rank
  <2>2. ~(Pos(s[j].of) < Pos(s[i].of)) /\ s[i] # s[j]
    BY <2>1, <1>8, <1>9
  <2>3. Pos(s[i].of) < Pos(s[j].of)
    BY <2>1, <2>2, <1>4, <1>5
  <2> QED BY <2>1, <2>3, <1>1, PosEarlier
<1>14. s \in [1 .. n -> S]
  <2> HIDE DEF rank
  <2> QED BY <1>12
<1> QED
  <2> HIDE DEF s
  <2>1. DOMAIN s = 1 .. n
    BY <1>14
  <2> QED BY <1>2, <1>3, <1>13, <1>14, <2>1

(* The ends of two pairs joined to a sequence of n.                        *)
LEMMA LastFour ==
  ASSUME NEW n \in Nat, NEW front, NEW head, NEW one, NEW two, NEW w,
         \A i \in 1 .. n + 2 : head[i] = IF i <= n THEN front[i] ELSE one[i - n],
         \A i \in 1 .. n + 4 : w[i] = IF i <= n + 2 THEN head[i] ELSE two[i - (n + 2)]
  PROVE  w[n + 1] = one[1] /\ w[n + 2] = one[2] /\ w[n + 3] = two[1] /\ w[n + 4] = two[2]
<1>1. w[n + 1] = head[n + 1] /\ w[n + 2] = head[n + 2]
  OBVIOUS
<1>2. head[n + 1] = one[n + 1 - n] /\ head[n + 2] = one[n + 2 - n]
  OBVIOUS
<1>3. n + 1 - n = 1 /\ n + 2 - n = 2
  OBVIOUS
<1>4. w[n + 3] = two[n + 3 - (n + 2)] /\ w[n + 4] = two[n + 4 - (n + 2)]
  OBVIOUS
<1>5. n + 3 - (n + 2) = 1 /\ n + 4 - (n + 2) = 2
  OBVIOUS
<1> QED BY <1>1, <1>2, <1>3, <1>4, <1>5

-----------------------------------------------------------------------------
(* The renames of a publication come in the order that writeSet gives them *)
(* and cover every added file with a place in the repository.              *)
LEMMA WritesOrder ==
  ASSUME NEW t \in Template, NEW inputs \in SUBSET Artifact,
         NEW archive, NEW active, NEW key, Added(t, inputs) \subseteq archive.entries,
         NEW w, w = Writes(archive, active, Added(t, inputs), key)
  PROVE  /\ w \in Seq(Renames(archive, active, key)) /\ Len(w) > 3
         /\ Order(w, archive, active, key)
         /\ \A e \in Added(t, inputs) :
              e.url.local => \E i \in 1 .. Len(w) - 4 : w[i] = FileWrite(e)
<1> DEFINE S == {e \in Added(t, inputs) : e.url.local}
           n == Cardinality(S)
           placed == InOrder(S)
           R == Renames(archive, active, key)
           front == [i \in DOMAIN placed |-> FileWrite(placed[i])]
           one == Document("archive", archive, key)
           two == Document("active", active, key)
<1>1. S \subseteq Entries
  BY DEF Entries, Added
<1>2. \A e, f \in S : e.of = f.of => e = f
  BY DEF Added, Entry
<1>3. /\ n \in Nat /\ placed \in [1 .. n -> S]
      /\ \A i, j \in DOMAIN placed : i < j => Earlier(placed[i].of, placed[j].of)
      /\ IsFiniteSet(S)
  <2> HIDE DEF S
  <2> QED BY <1>1, <1>2, OrderExists DEF InOrder
<1>4. \A i \in 1 .. n : placed[i].of \in Artifact /\ Pos(placed[i].of) \in Nat
  <2>1. \A e \in S : e.of \in Artifact
    BY <1>1 DEF Entries, Entry
  <2> HIDE DEF S, n, placed
  <2> QED BY <2>1, <1>3, PosType
<1>5. \A e \in S : \E i \in 1 .. n : placed[i] = e
  <2>1. \A i, j \in 1 .. n : placed[i] = placed[j] => i = j
    <3> SUFFICES ASSUME NEW i \in 1 .. n, NEW j \in 1 .. n, i < j PROVE placed[i] # placed[j]
      BY <1>3
    <3>1. Earlier(placed[i].of, placed[j].of)
      BY <1>3
    <3> HIDE DEF S, n, placed
    <3> QED BY <3>1, <1>4, PosEarlier
  <2>2. placed \in Injection(1 .. n, S)
    <3> HIDE DEF S, n, placed
    <3> QED BY <2>1, <1>3 DEF Injection, IsInjective
  <2>3. IsFiniteSet(1 .. n) /\ Cardinality(1 .. n) = n
    BY <1>3, FS_Interval
  <2>4. placed \in Surjection(1 .. n, S)
    <3> HIDE DEF placed
    <3> QED BY <2>2, <2>3, <1>3, FS_Injection
  <2> HIDE DEF S, n, placed
  <2> QED BY <2>4 DEF Surjection
<1>6. front \in Seq(R) /\ Len(front) = n /\ \A i \in 1 .. n : front[i] = FileWrite(placed[i])
  <2>1. \A i \in 1 .. n : placed[i] \in Entries
    <3> HIDE DEF S, n, placed
    <3> QED BY <1>1, <1>3
  <2> HIDE DEF S, n, placed
  <2>2. \A i \in 1 .. n : FileWrite(placed[i]) \in R
    BY <2>1 DEF Renames
  <2>3. DOMAIN placed = 1 .. n
    BY <1>3
  <2> HIDE DEF R
  <2> QED BY <2>2, <2>3, <1>3
<1>7. one \in Seq(R) /\ Len(one) = 2 /\ two \in Seq(R) /\ Len(two) = 2
  BY DEF Document, Renames
<1>8. /\ w \in Seq(R) /\ Len(w) = n + 4
      /\ \A i \in 1 .. n : w[i] = FileWrite(placed[i])
      /\ w[n + 1] = one[1] /\ w[n + 2] = one[2] /\ w[n + 3] = two[1] /\ w[n + 4] = two[2]
  <2> DEFINE head == front \o one
  <2>1. w = head \o two
    BY DEF Writes, Added
  <2>2. n \in Nat
    BY <1>3
  <2> HIDE DEF front, one, two, placed, R, n, S
  <2>3. /\ head \in Seq(R) /\ Len(head) = n + 2
        /\ \A i \in 1 .. n + 2 : head[i] = IF i <= n THEN front[i] ELSE one[i - n]
    <3>1. /\ head \in Seq(R) /\ Len(head) = Len(front) + Len(one)
          /\ \A i \in 1 .. Len(front) + Len(one) :
               head[i] = IF i <= Len(front) THEN front[i] ELSE one[i - Len(front)]
      BY <1>6, <1>7, ConcatProperties
    <3> HIDE DEF head
    <3> QED BY <3>1, <1>6, <1>7, <2>2
  <2> HIDE DEF head
  <2>4. /\ w \in Seq(R) /\ Len(w) = n + 4
        /\ \A i \in 1 .. n + 4 : w[i] = IF i <= n + 2 THEN head[i] ELSE two[i - (n + 2)]
    <3>1. /\ head \o two \in Seq(R) /\ Len(head \o two) = Len(head) + Len(two)
          /\ \A i \in 1 .. Len(head) + Len(two) :
               (head \o two)[i] = IF i <= Len(head) THEN head[i] ELSE two[i - Len(head)]
      BY <2>3, <1>7, ConcatProperties
    <3> QED BY <3>1, <2>1, <2>3, <1>7, <2>2
  <2>5. \A i \in 1 .. n : w[i] = FileWrite(placed[i])
    BY <2>3, <2>4, <1>6, <2>2
  <2>6. w[n + 1] = one[1] /\ w[n + 2] = one[2] /\ w[n + 3] = two[1] /\ w[n + 4] = two[2]
    BY <2>2, <2>3, <2>4, LastFour
  <2> QED BY <2>4, <2>5, <2>6
<1>9. Order(w, archive, active, key)
  <2>1. \A i \in 1 .. n : placed[i] \in archive.entries /\ placed[i].url.local
    <3>1. S \subseteq archive.entries /\ \A e \in S : e.url.local
      OBVIOUS
    <3> HIDE DEF S, n, placed
    <3> QED BY <3>1, <1>3
  <2>2. /\ one[1] = [what |-> "doc", name |-> "archive", doc |-> archive]
        /\ one[2] = [what |-> "sig", name |-> "archive", doc |-> archive, key |-> key]
        /\ two[1] = [what |-> "doc", name |-> "active", doc |-> active]
        /\ two[2] = [what |-> "sig", name |-> "active", doc |-> active, key |-> key]
    BY DEF Document
  <2> HIDE DEF one, two, placed, n
  <2> QED BY <2>1, <2>2, <1>8, <1>3 DEF Order
<1>10. ASSUME NEW e \in Added(t, inputs), e.url.local
       PROVE  \E i \in 1 .. Len(w) - 4 : w[i] = FileWrite(e)
  <2>1. e \in S
    BY <1>10
  <2> HIDE DEF S, placed, n
  <2>2. PICK i \in 1 .. n : placed[i] = e
    BY <2>1, <1>5
  <2>3. w[i] = FileWrite(e) /\ i \in 1 .. Len(w) - 4
    BY <2>2, <1>8, <1>3
  <2> QED BY <2>3
<1> QED
  <2>1. Len(w) > 3
    <3> HIDE DEF R, n
    <3> QED BY <1>8, <1>3
  <2>2. w \in Seq(Renames(archive, active, key))
    BY <1>8
  <2>3. \A e \in Added(t, inputs) : e.url.local => \E i \in 1 .. Len(w) - 4 : w[i] = FileWrite(e)
    BY <1>10
  <2> QED BY <2>1, <2>2, <2>3, <1>9

-----------------------------------------------------------------------------
(* What Publish makes of the indexes it read.                              *)

(* Entries have a package file with a numbered version.                    *)
LEMMA EntryType ==
  ASSUME NEW e \in Entries
  PROVE  e.of \in Artifact /\ e.of.version \in Nat /\ e.url \in Urls
  BY PublishAssumption DEF Entries, Entry, Urls

(* When no tie is noticed, the next active index lists a name once.        *)
LEMMA CurrentOneName ==
  ASSUME NEW t \in Template, NEW inputs \in SUBSET Artifact, NEW existing,
         existing \subseteq Entries, ~Ambiguous(existing, Added(t, inputs))
  PROVE  OneName(Current(existing \cup Added(t, inputs)))
<1> DEFINE added == Added(t, inputs)
           all == existing \cup added
<1>1. added \subseteq Entries /\ \A e, f \in added : e.of = f.of => e = f
  BY DEF Added, Entries, Entry
<1> HIDE DEF added
<1> SUFFICES ASSUME NEW e \in Current(all), NEW f \in Current(all),
                    e.of.name = f.of.name, e # f
             PROVE  FALSE
  BY DEF OneName, added
<1>2. e \in all /\ f \in all /\ e.of.version = f.of.version
  BY <1>1, EntryType DEF Current
<1>3. ASSUME NEW x \in all, NEW y \in all, x.of.name = y.of.name, x.of.version = y.of.version,
             x \in Current(all), y \in Walked(x, existing, added)
      PROVE  FALSE
  <2> DEFINE walked == {g \in Walked(x, existing, added) : g.of.name = x.of.name}
  <2>1. y \in walked
    BY <1>3
  <2>2. walked \subseteq all
    BY DEF Walked
  <2>3. \A g \in walked : g.of.version <= x.of.version
    BY <2>2, <1>3 DEF Current
  <2> HIDE DEF walked
  <2>4. \E g \in walked : g.of.version = x.of.version
    BY <2>1, <1>3
  <2> QED BY <2>3, <2>4, <1>3 DEF Ambiguous, added, walked
<1>4. CASE e \in added /\ f \in added
  <2>1. Pos(e.of) # Pos(f.of) /\ e.of \in Artifact /\ f.of \in Artifact
    BY <1>1, <1>4, EntryType, PosType
  <2>2. Earlier(f.of, e.of) \/ Earlier(e.of, f.of)
    BY <2>1, PosEarlier, PosType
  <2>3. f \in Walked(e, existing, added) \/ e \in Walked(f, existing, added)
    BY <2>2, <1>4 DEF Walked
  <2> QED BY <2>3, <1>2, <1>3
<1>5. CASE e \in added /\ f \notin added
  <2>1. f \in Walked(e, existing, added)
    BY <1>5, <1>2 DEF Walked
  <2> QED BY <2>1, <1>2, <1>3
<1>6. CASE e \notin added /\ f \in added
  <2>1. e \in Walked(f, existing, added)
    BY <1>6, <1>2 DEF Walked
  <2> QED BY <2>1, <1>2, <1>3
<1>7. CASE e \notin added /\ f \notin added
  <2>1. e.of.version \in Nat
    BY <1>1, <1>2, EntryType
  <2>2. f \in Walked(e, existing, added)
    BY <1>7, <1>2, <2>1 DEF Walked
  <2> QED BY <2>2, <1>2, <1>3
<1> QED BY <1>4, <1>5, <1>6, <1>7

(* The next version is above both versions read.                           *)
LEMMA NextVersionAbove ==
  ASSUME NEW state, state.archive.version \in Nat, state.active.version \in Nat
  PROVE  /\ NextVersion(state) \in Nat \ {0}
         /\ state.archive.version < NextVersion(state)
         /\ state.active.version < NextVersion(state)
  BY DEF NextVersion

(* What a publication names, or finds in the repository, are package files. *)
LEMMA InputsAreArtifacts ==
  ASSUME TypeOK, NEW named \in Named, NEW opt
  PROVE  resolvePackagePaths(named, opt) \in SUBSET Artifact
<1>1. \A u \in Urls : files[u] # None => files[u] \in Artifact
  BY DEF TypeOK
<1>2. named \subseteq Artifact
  BY PublishAssumption
<1> QED BY <1>1, <1>2 DEF resolvePackagePaths

-----------------------------------------------------------------------------
(* The steps of the publishers.                                            *)

(* One publication at a time is at most one publisher that is not idle.    *)
LEMMA AtMostOne ==
  ASSUME NEW f, \A p, q \in Publisher : f[p] # "idle" /\ f[q] # "idle" => p = q
  PROVE  Cardinality({p \in Publisher : f[p] # "idle"}) <= 1
<1> DEFINE S == {p \in Publisher : f[p] # "idle"}
<1>1. CASE S = {}
  BY <1>1, FS_EmptySet
<1>2. CASE S # {}
  <2>1. PICK p \in S : TRUE
    BY <1>2
  <2>2. S = {p}
    BY <2>1
  <2> QED BY <2>2, FS_Singleton
<1> QED BY <1>1, <1>2

(* At the start nothing is published, and the empty indexes are signed.    *)
LEMMA InitIInv == Init => IInv
<1> SUFFICES ASSUME Init PROVE IInv
  OBVIOUS
<1>1. Alone
  BY DEF Init, Alone
<1>2. Cardinality({p \in Publisher : phase[p] # "idle"}) <= 1
  BY <1>1, AtMostOne DEF Alone
<1>3. \A n \in Doc : sigs[n].key \in DOMAIN KeyStatus
  BY DEF Init, Doc, checkSigningKey
<1>4. docs.archive = Index("archive", 1, {}) /\ docs.active = Index("active", 1, {})
  BY DEF Init
<1>5. IndexOK(docs.archive, "archive") /\ IndexOK(docs.active, "active")
  BY <1>4 DEF IndexOK, Index
<1>6. TypeOK
  BY <1>2, <1>3, <1>4, <1>5, PublishAssumption DEF Init, TypeOK, Index, Doc
<1>7. Shapes
  BY <1>4 DEF Init, Shapes, Doc
<1>8. Opened /\ Staged /\ Recorded /\ Forward /\ ProtectedInstalls
  BY <1>4 DEF Init, Opened, Staged, Recorded, OneEach, Forward, FloorServed,
       ProtectedInstalls, Index
<1> QED BY <1>1, <1>6, <1>7, <1>8 DEF IInv

(* Taking the lock: nobody else is publishing, and what is read is served. *)
LEMMA LockStep ==
  ASSUME IInv, NEW p \in Publisher, lockPublication(p)
  PROVE  IInv'
<1> USE DEF IInv, lockPublication, Goto, served, consumer
<1>1. Alone'
  BY DEF Alone, TypeOK
<1>2. TypeOK'
  <2>1. Cardinality({q \in Publisher : phase'[q] # "idle"}) <= 1
    BY <1>1, AtMostOne DEF Alone
  <2> QED BY <2>1 DEF TypeOK
<1>3. Shapes'
  BY DEF Shapes
<1>4. Opened'
  BY DEF Opened, Shapes, TypeOK
<1>5. Staged'
  BY DEF Staged, TypeOK
<1>6. (Recorded /\ Forward /\ ProtectedInstalls)'
  BY DEF Recorded, Kept, Forward, FloorServed, ProtectedInstalls
<1> QED BY <1>1, <1>2, <1>3, <1>4, <1>5, <1>6

(* Giving the lock back, after the last rename, a refusal or a kill: what  *)
(* is served stays as it is.                                               *)
LEMMA UnlockStep ==
  ASSUME IInv, NEW p \in Publisher, Unlock(p), crashes' \in 0 .. MaxCrash,
         UNCHANGED <<served, evidence, waived, consumer>>
  PROVE  IInv'
<1> USE DEF IInv, Unlock, Goto, served, consumer
<1>1. Alone'
  BY DEF Alone, TypeOK
<1>2. TypeOK'
  <2>1. Cardinality({q \in Publisher : phase'[q] # "idle"}) <= 1
    BY <1>1, AtMostOne DEF Alone
  <2> QED BY <2>1 DEF TypeOK
<1>3. Shapes'
  BY DEF Shapes
<1>4. Opened'
  BY DEF Opened, Shapes, TypeOK
<1>5. Staged'
  <2> SUFFICES ASSUME NEW q \in Publisher, phase'[q] = "commit"
               PROVE  \E archive, active, key : InFlight(q, archive, active, key)'
    BY DEF Staged
  <2>1. q # p /\ phase[q] = "commit" /\ job'[q] = job[q] /\ read'[q] = read[q]
    BY DEF TypeOK, Shapes
  <2>2. PICK archive, active, key : InFlight(q, archive, active, key)
    BY <2>1 DEF Staged
  <2>3. InFlight(q, archive, active, key)'
    BY <2>1, <2>2 DEF InFlight, Succeeds, Kept
  <2> QED BY <2>3
<1>6. (Recorded /\ Forward /\ ProtectedInstalls)'
  BY DEF Recorded, Kept, Forward, FloorServed, ProtectedInstalls
<1> QED BY <1>1, <1>2, <1>3, <1>4, <1>5, <1>6

(* What Publish stages succeeds what the publisher read.                   *)
LEMMA PublishSucceeds ==
  ASSUME IInv, NEW p \in Publisher, NEW named \in Named, NEW opt \in Option,
         NEW t \in Template, NEW key \in SigningKey, Publish(p, named, opt, t, key)
  PROVE  \E archive, active :
           /\ Succeeds(archive, active, read[p])'
           /\ Added(t, resolvePackagePaths(named, opt)) \subseteq archive.entries
           /\ archive.entries \subseteq
                read[p].archive.entries \cup Added(t, resolvePackagePaths(named, opt))
           /\ active.entries \subseteq archive.entries
           /\ job' = [job EXCEPT ![p] =
                 Writes(archive, active, Added(t, resolvePackagePaths(named, opt)), key)]
<1> DEFINE state == read[p]
           inputs == resolvePackagePaths(named, opt)
           added == Added(t, inputs)
           existing == IF opt.rebuild THEN {} ELSE state.archive.entries
           kept == existing \ Taken(existing, inputs)
           all == kept \cup added
           next == NextVersion(state)
<1> PICK archive : archive = Index("archive", next, all)
  OBVIOUS
<1> PICK active : active = Index("active", next, Current(all))
  OBVIOUS
<1>1. /\ phase[p] = "open" /\ UNCHANGED <<served, read>>
      /\ ~Refused(state, named, inputs, opt, t, key, existing, added)
      /\ job' = [job EXCEPT ![p] = Writes(archive, active, added, key)]
      /\ waived' = waived \cup (IF opt.rebuild THEN Ids(state.archive.entries \cup added)
                                ELSE Ids(Taken(existing, inputs)))
  BY DEF Publish, Added
<1>2. state = docs
  BY <1>1 DEF IInv, Opened
<1>3. inputs \in SUBSET Artifact
  BY InputsAreArtifacts DEF IInv
<1>4. validateURLTemplate(t) /\ ~Ambiguous(kept, added)
      /\ \A a, b \in inputs : a # b => identityOf(a) # identityOf(b)
  BY <1>1 DEF Refused
<1>5. protected => \A e \in Current(all) : Installs(Reach({e}, Current(all)))
  <2>1. protected => qualifyClosures(state.active.entries, Current(all), inputs)
    BY <1>1 DEF Refused
  <2> QED BY <2>1 DEF qualifyClosures, Passes
<1>6. next \in Nat \ {0} /\ state.archive.version < next /\ state.active.version < next
  BY <1>2, NextVersionAbove DEF IInv, TypeOK, IndexOK
<1>7. existing \subseteq Valid /\ existing \subseteq Entries /\ OneEach(existing)
  BY <1>2 DEF IInv, Recorded, OneEach, TypeOK, IndexOK
<1>8. added \subseteq Valid /\ added \subseteq Entries
  BY <1>3, <1>4 DEF Added, Valid, Entries
<1>9. all \subseteq Valid /\ all \subseteq Entries /\ Current(all) \subseteq all
  BY <1>7, <1>8 DEF Current
<1>10. OneEach(all)
  <2>1. \A e \in added : e.of \in inputs
    BY DEF Added, Entry
  <2>2. \A e, f \in added : e.of = f.of => e = f
    BY DEF Added, Entry
  <2>3. \A e \in kept : e \in existing /\ \A a \in inputs : identityOf(e.of) # identityOf(a)
    BY DEF Taken
  <2> HIDE DEF inputs, added, existing, kept
  <2> QED BY <2>1, <2>2, <2>3, <1>4, <1>7 DEF OneEach
<1>11. OneName(Current(all))
  <2>1. kept \subseteq Entries
    BY <1>7
  <2> HIDE DEF kept, inputs
  <2> QED BY <2>1, <1>3, <1>4, CurrentOneName
<1>12. \A e \in state.archive.entries : e \in all \/ identityOf(e.of) \in waived'
  BY <1>1 DEF Ids, Taken
<1> HIDE DEF state, inputs, added, existing, kept, all, next
<1>13. Succeeds(archive, active, state)'
  <2>1. /\ archive.kind = "archive" /\ archive.version = next /\ archive.entries = all
        /\ active.kind = "active" /\ active.version = next /\ active.entries = Current(all)
    BY DEF Index
  <2>2. IndexOK(archive, "archive") /\ IndexOK(active, "active")
    BY <2>1, <1>6, <1>9 DEF IndexOK
  <2>3. protected' = protected /\ state' = state
    BY <1>1 DEF served, state
  <2> QED BY <2>1, <2>2, <2>3, <1>5, <1>6, <1>9, <1>10, <1>11, <1>12 DEF Succeeds, Kept
<1>14. /\ added \subseteq archive.entries /\ active.entries \subseteq archive.entries
       /\ archive.entries \subseteq state.archive.entries \cup added
  BY <1>9 DEF Index, all, kept, existing
<1> QED BY <1>1, <1>13, <1>14 DEF state, inputs, added

(* Staging a publication: nothing is served yet.                           *)
LEMMA PublishStep ==
  ASSUME IInv, NEW p \in Publisher, NEW named \in Named, NEW opt \in Option,
         NEW t \in Template, NEW key \in SigningKey, Publish(p, named, opt, t, key)
  PROVE  IInv'
<1> DEFINE added == Added(t, resolvePackagePaths(named, opt))
<1>1. /\ phase[p] = "open" /\ phase' = [phase EXCEPT ![p] = "commit"]
      /\ waived \subseteq waived' /\ key \in DOMAIN KeyStatus
      /\ UNCHANGED <<served, read, evidence, consumer, crashes>>
  BY DEF Publish, Goto, Refused, checkSigningKey
<1>2. PICK archive, active :
        /\ Succeeds(archive, active, read[p])'
        /\ added \subseteq archive.entries
        /\ job' = [job EXCEPT ![p] = Writes(archive, active, added, key)]
  BY PublishSucceeds
<1>3. PICK w : w = Writes(archive, active, added, key)
  OBVIOUS
<1>4. w \in Seq(Renames(archive, active, key)) /\ Len(w) > 3 /\ Order(w, archive, active, key)
  BY <1>2, <1>3, WritesOrder, InputsAreArtifacts DEF IInv
<1> USE DEF IInv, served, consumer
<1>5. Alone'
  BY <1>1 DEF Alone, TypeOK
<1>6. TypeOK'
  <2>1. Cardinality({q \in Publisher : phase'[q] # "idle"}) <= 1
    BY <1>5, AtMostOne DEF Alone
  <2> QED BY <1>1, <2>1 DEF TypeOK
<1>7. job' = [job EXCEPT ![p] = w]
  BY <1>2, <1>3
<1>8. Shapes'
  BY <1>1, <1>7 DEF Shapes
<1>9. Opened'
  BY <1>1 DEF Opened, TypeOK, Alone
<1>10. Staged'
  <2>1. job'[p] = w /\ read'[p] = read[p] /\ read[p] = docs
    BY <1>1, <1>7 DEF Shapes, Opened
  <2>2. InFlight(p, archive, active, key)'
    BY <1>1, <1>2, <1>4, <2>1 DEF InFlight
  <2>3. \A q \in Publisher : phase'[q] = "commit" => q = p
    BY <1>1 DEF Alone, TypeOK
  <2> QED BY <2>2, <2>3 DEF Staged
<1>11. (Recorded /\ Forward /\ ProtectedInstalls)'
  BY <1>1 DEF Recorded, Kept, Forward, FloorServed, ProtectedInstalls
<1> QED BY <1>5, <1>6, <1>8, <1>9, <1>10, <1>11

-----------------------------------------------------------------------------
(* The renames.                                                            *)

(* What the next rename of a publication on its way to archive and active  *)
(* does, by the number of renames left.                                    *)
Renamed(p, archive, active, key) ==
  LET n == Len(job[p]) IN
  \/ /\ n > 4 /\ UNCHANGED <<docs, sigs>>
     /\ \E e \in archive.entries : /\ e.url.local /\ job[p][1] = FileWrite(e)
                                  /\ files' = [files EXCEPT ![e.url] = e.of]
  \/ n = 4 /\ UNCHANGED <<files, sigs>> /\ docs' = [docs EXCEPT !["archive"] = archive]
  \/ n = 3 /\ UNCHANGED <<files, docs>>
     /\ sigs' = [sigs EXCEPT !["archive"] = [of |-> archive, key |-> key]]
  \/ n = 2 /\ UNCHANGED <<files, sigs>> /\ docs' = [docs EXCEPT !["active"] = active]
  \/ n = 1 /\ UNCHANGED <<files, docs>>
     /\ sigs' = [sigs EXCEPT !["active"] = [of |-> active, key |-> key]]

(* A publication in flight has exactly these renames.                      *)
LEMMA RenameCases ==
  ASSUME NEW p \in Publisher, rename(p), NEW archive, NEW active, NEW key,
         InFlight(p, archive, active, key)
  PROVE  Len(job[p]) \in Nat \ {0} /\ Renamed(p, archive, active, key)
<1> DEFINE n == Len(job[p])
           R == Renames(archive, active, key)
<1>1. n \in Nat \ {0} /\ Head(job[p]) = job[p][1] /\ 1 \in 1 .. n
  <2>1. job[p] \in Seq(R) /\ job[p] # <<>>
    BY DEF InFlight, rename
  <2> HIDE DEF R
  <2> QED BY <2>1
<1>2. PICK w : w = job[p][1]
  OBVIOUS
<1>3. /\ files' = IF w.what = "file" THEN [files EXCEPT ![w.url] = w.file] ELSE files
      /\ docs' = IF w.what = "doc" THEN [docs EXCEPT ![w.name] = w.doc] ELSE docs
      /\ sigs' = IF w.what = "sig" THEN [sigs EXCEPT ![w.name] = [of |-> w.doc, key |-> w.key]]
                 ELSE sigs
  BY <1>1, <1>2 DEF rename
<1>4. Order(job[p], archive, active, key)
  BY DEF InFlight
<1>5. CASE n > 4
  <2>1. n - 1 >= 4
    BY <1>1, <1>5
  <2>2. \E e \in archive.entries : e.url.local /\ job[p][1] = FileWrite(e)
    BY <1>1, <1>4, <2>1 DEF Order
  <2>3. PICK e \in archive.entries : e.url.local /\ job[p][1] = FileWrite(e)
    BY <2>2
  <2>4. w.what = "file" /\ w.url = e.url /\ w.file = e.of
    BY <1>2, <2>3 DEF FileWrite
  <2> QED BY <1>1, <1>2, <1>3, <1>5, <2>3, <2>4 DEF Renamed
<1>6. CASE n = 4
  <2>1. w = [what |-> "doc", name |-> "archive", doc |-> archive]
    BY <1>1, <1>2, <1>4, <1>6 DEF Order
  <2> QED BY <1>1, <1>3, <1>6, <2>1 DEF Renamed
<1>7. CASE n = 3
  <2>1. w = [what |-> "sig", name |-> "archive", doc |-> archive, key |-> key]
    BY <1>1, <1>2, <1>4, <1>7 DEF Order
  <2> QED BY <1>1, <1>3, <1>7, <2>1 DEF Renamed
<1>8. CASE n = 2
  <2>1. w = [what |-> "doc", name |-> "active", doc |-> active]
    BY <1>1, <1>2, <1>4, <1>8 DEF Order
  <2> QED BY <1>1, <1>3, <1>8, <2>1 DEF Renamed
<1>9. CASE n = 1
  <2>1. w = [what |-> "sig", name |-> "active", doc |-> active, key |-> key]
    BY <1>1, <1>2, <1>4, <1>9 DEF Order
  <2> QED BY <1>1, <1>3, <1>9, <2>1 DEF Renamed
<1>10. n > 4 \/ n = 4 \/ n = 3 \/ n = 2 \/ n = 1
  <2>1. n \in Nat \ {0}
    BY <1>1
  <2> HIDE DEF n
  <2> QED BY <2>1
<1> QED BY <1>1, <1>5, <1>6, <1>7, <1>8, <1>9, <1>10

(* Doing the first rename leaves the rest in order.                        *)
LEMMA OrderTail ==
  ASSUME NEW archive, NEW active, NEW key,
         NEW s \in Seq(Renames(archive, active, key)), s # <<>>,
         Order(s, archive, active, key)
  PROVE  /\ Tail(s) \in Seq(Renames(archive, active, key))
         /\ Len(s) \in Nat \ {0} /\ Len(Tail(s)) = Len(s) - 1
         /\ \A i \in 1 .. Len(Tail(s)) : i + 1 \in 1 .. Len(s) /\ Tail(s)[i] = s[i + 1]
         /\ Order(Tail(s), archive, active, key)
<1> DEFINE R == Renames(archive, active, key)
<1> HIDE DEF R
<1>1. s \in Seq(R)
  BY DEF R
<1>2. /\ Tail(s) \in Seq(R) /\ Len(s) \in Nat \ {0} /\ Len(Tail(s)) = Len(s) - 1
      /\ \A i \in 1 .. Len(Tail(s)) : Tail(s)[i] = s[i + 1]
  BY <1>1, HeadTailProperties
<1>3. \A i \in 1 .. Len(Tail(s)) :
        i + 1 \in 1 .. Len(s) /\ Len(s) - (i + 1) = Len(Tail(s)) - i
  BY <1>2
<1>4. Order(Tail(s), archive, active, key)
  <2> PICK t : t = Tail(s)
    OBVIOUS
  <2>1. \A i \in 1 .. Len(t) : t[i] = s[i + 1]
    BY <1>2
  <2>2. \A i \in 1 .. Len(t) : i + 1 \in 1 .. Len(s) /\ Len(s) - (i + 1) = Len(t) - i
    BY <1>3
  <2> SUFFICES ASSUME NEW i \in 1 .. Len(t)
               PROVE
    /\ Len(t) - i = 0 =>
         t[i] = [what |-> "sig", name |-> "active", doc |-> active, key |-> key]
    /\ Len(t) - i = 1 => t[i] = [what |-> "doc", name |-> "active", doc |-> active]
    /\ Len(t) - i = 2 =>
         t[i] = [what |-> "sig", name |-> "archive", doc |-> archive, key |-> key]
    /\ Len(t) - i = 3 => t[i] = [what |-> "doc", name |-> "archive", doc |-> archive]
    /\ Len(t) - i >= 4 => \E e \in archive.entries : e.url.local /\ t[i] = FileWrite(e)
    BY DEF Order
  <2> QED BY <2>1, <2>2 DEF Order
<1> QED BY <1>2, <1>3, <1>4 DEF R

(* After a rename the publication is still on its way to the same indexes. *)
LEMMA RenameInFlight ==
  ASSUME IInv, NEW p \in Publisher, rename(p), NEW archive, NEW active, NEW key,
         InFlight(p, archive, active, key)
  PROVE  InFlight(p, archive, active, key)'
<1>1. /\ job'[p] = Tail(job[p]) /\ read' = read /\ waived' = waived
      /\ protected' = protected /\ job[p] # <<>>
  BY DEF rename, IInv, Shapes
<1>2. /\ Tail(job[p]) \in Seq(Renames(archive, active, key))
      /\ Len(Tail(job[p])) = Len(job[p]) - 1
      /\ Order(Tail(job[p]), archive, active, key)
  BY <1>1, OrderTail DEF InFlight
<1>3. Len(job[p]) \in Nat \ {0} /\ Renamed(p, archive, active, key)
  BY RenameCases
<1>4. Succeeds(archive, active, read[p])'
  BY <1>1 DEF InFlight, Succeeds, Kept
<1>5. docs = [archive |-> docs.archive, active |-> docs.active]
  BY DEF IInv, Shapes
<1>6. /\ docs'.archive = IF Len(job'[p]) > 3 THEN read'[p].archive ELSE archive
      /\ docs'.active = IF Len(job'[p]) > 1 THEN read'[p].active ELSE active
  <2> DEFINE n == Len(job[p])
  <2>1. /\ n \in Nat \ {0} /\ Len(job'[p]) = n - 1 /\ read'[p] = read[p]
        /\ docs.archive = IF n > 3 THEN read[p].archive ELSE archive
        /\ docs.active = IF n > 1 THEN read[p].active ELSE active
    BY <1>1, <1>2, <1>3 DEF InFlight
  <2>2. \/ n > 4 /\ docs' = docs
        \/ n = 4 /\ docs' = [docs EXCEPT !["archive"] = archive]
        \/ n = 3 /\ docs' = docs
        \/ n = 2 /\ docs' = [docs EXCEPT !["active"] = active]
        \/ n = 1 /\ docs' = docs
    BY <1>3 DEF Renamed
  <2> HIDE DEF n
  <2>3. CASE n > 4
    BY <2>1, <2>2, <2>3
  <2>4. CASE n = 4
    BY <2>1, <2>2, <2>4, <1>5
  <2>5. CASE n = 3
    BY <2>1, <2>2, <2>5
  <2>6. CASE n = 2
    BY <2>1, <2>2, <2>6, <1>5
  <2>7. CASE n = 1
    BY <2>1, <2>2, <2>7
  <2> QED BY <2>2, <2>3, <2>4, <2>5, <2>6, <2>7
<1> QED BY <1>1, <1>2, <1>4, <1>6 DEF InFlight

(* A rename, and with it every index that is served, keeps the invariant.  *)
LEMMA RenameStep ==
  ASSUME IInv, NEW p \in Publisher, rename(p)
  PROVE  IInv' /\ \A e \in docs.archive.entries : Kept(e, docs'.archive.entries)
<1>1. /\ phase[p] = "commit" /\ phase' = phase /\ job' = [job EXCEPT ![p] = Tail(@)]
      /\ UNCHANGED <<protected, read, evidence, waived, consumer, crashes>>
  BY DEF rename
<1>2. PICK archive, active, key : InFlight(p, archive, active, key)
  BY <1>1 DEF IInv, Staged
<1>3. InFlight(p, archive, active, key)'
  BY <1>2, RenameInFlight
<1>4. Renamed(p, archive, active, key)
  BY <1>2, RenameCases
<1>5. /\ Succeeds(archive, active, read[p]) /\ key \in DOMAIN KeyStatus
      /\ docs.archive \in {read[p].archive, archive} /\ docs'.archive \in {docs.archive, archive}
      /\ docs.active \in {read[p].active, active} /\ docs'.active \in {docs.active, active}
      /\ docs'.active = docs.active \/ (docs'.active = active /\ docs'.archive = archive)
  <2>1. docs = [archive |-> docs.archive, active |-> docs.active]
    BY DEF IInv, Shapes
  <2>2. /\ docs.archive \in {read[p].archive, archive}
        /\ docs.active \in {read[p].active, active}
    BY <1>2 DEF InFlight
  <2>3. /\ docs'.archive \in {docs.archive, archive} /\ docs'.active \in {docs.active, active}
    BY <1>4, <2>1 DEF Renamed
  <2>4. docs'.active = docs.active \/ (docs'.active = active /\ docs'.archive = archive)
    <3>1. \/ docs' = docs
          \/ docs' = [docs EXCEPT !["archive"] = archive]
          \/ Len(job[p]) = 2 /\ docs' = [docs EXCEPT !["active"] = active]
      BY <1>4 DEF Renamed
    <3>2. CASE docs' = [docs EXCEPT !["archive"] = archive]
      BY <2>1, <3>2
    <3>3. CASE Len(job[p]) = 2 /\ docs' = [docs EXCEPT !["active"] = active]
      <4>1. docs.archive = archive
        BY <1>2, <3>3 DEF InFlight
      <4> QED BY <2>1, <3>3, <4>1
    <3> QED BY <3>1, <3>2, <3>3
  <2> QED BY <1>2, <2>2, <2>3, <2>4 DEF InFlight
<1>6. /\ IndexOK(docs.archive, "archive") /\ IndexOK(docs.active, "active")
      /\ OneName(docs.active.entries)
  BY DEF IInv, TypeOK, OneName
<1>7. /\ IndexOK(docs'.archive, "archive") /\ IndexOK(docs'.active, "active")
      /\ OneName(docs'.active.entries)
  BY <1>5, <1>6 DEF Succeeds
<1>8. docs' = [archive |-> docs'.archive, active |-> docs'.active]
      /\ sigs' = [n \in Doc |-> sigs'[n]]
      /\ \A n \in Doc : sigs'[n].key \in DOMAIN KeyStatus
  <2>1. docs' = [archive |-> docs'.archive, active |-> docs'.active]
    BY <1>4 DEF Renamed, IInv, Shapes
  <2>2. sigs = [n \in Doc |-> sigs[n]] /\ \A n \in Doc : sigs[n].key \in DOMAIN KeyStatus
    BY DEF IInv, Shapes, TypeOK, Doc
  <2>3. \/ sigs' = sigs
        \/ \E m \in Doc : \E d : sigs' = [sigs EXCEPT ![m] = [of |-> d, key |-> key]]
    BY <1>4 DEF Renamed, Doc
  <2> QED BY <1>5, <2>1, <2>2, <2>3
<1>9. files' \in [Urls -> Artifact \cup {None}]
  <2>1. \A e \in archive.entries : e.of \in Artifact
    BY <1>5, EntryType DEF Succeeds, IndexOK
  <2> QED BY <2>1, <1>4 DEF Renamed, IInv, TypeOK
<1>10. \A e \in docs.archive.entries : Kept(e, docs'.archive.entries)
  BY <1>5 DEF Succeeds, Kept
<1> USE DEF consumer
<1>11. TypeOK'
  BY <1>1, <1>7, <1>8, <1>9 DEF IInv, TypeOK, OneName, Doc
<1>12. Shapes'
  BY <1>1, <1>8 DEF IInv, Shapes
<1>13. Alone' /\ Opened'
  BY <1>1 DEF IInv, Alone, Opened
<1>14. Staged'
  <2>1. \A q \in Publisher : phase'[q] = "commit" => q = p
    BY <1>1 DEF IInv, Alone
  <2> QED BY <1>3, <2>1 DEF Staged
<1>15. Recorded'
  <2>1. OneEach(docs'.archive.entries) /\ docs'.archive.entries \subseteq Valid
    BY <1>5 DEF IInv, Recorded, Succeeds
  <2>2. \A e \in docs'.active.entries : Kept(e, docs'.archive.entries)
    BY <1>5, <1>10 DEF IInv, Recorded, Succeeds, Kept
  <2> QED BY <1>1, <1>10, <2>1, <2>2 DEF IInv, Recorded, Kept
<1>16. Forward'
  <2>1. /\ docs.archive.version \in Nat /\ docs'.archive.version \in Nat
        /\ docs.active.version \in Nat /\ docs'.active.version \in Nat
    BY <1>6, <1>7 DEF IndexOK
  <2>2. /\ docs.archive.version <= docs'.archive.version
        /\ docs.active.version <= docs'.active.version
    BY <1>5, <2>1 DEF Succeeds, IndexOK
  <2>3. docs'.active.version <= docs'.archive.version
    BY <1>5, <2>1, <2>2 DEF Succeeds, IInv, Forward, FloorServed
  <2>4. fetched # None => fetched.version \in Nat
    BY DEF IInv, Shapes, IndexOK
  <2> QED BY <1>1, <2>1, <2>2, <2>3, <2>4 DEF IInv, TypeOK, Forward, FloorServed
<1>17. ProtectedInstalls'
  BY <1>1, <1>5 DEF IInv, ProtectedInstalls, Succeeds
<1> QED BY <1>10, <1>11, <1>12, <1>13, <1>14, <1>15, <1>16, <1>17 DEF IInv

-----------------------------------------------------------------------------
(* The steps of the release coordinator and of the consumer.               *)

(* A step of neither a publisher nor an operator leaves a publication      *)
(* where it stands.                                                        *)
LEMMA StagedFrame ==
  ASSUME Staged, UNCHANGED <<protected, docs, publishing, waived>>
  PROVE  Staged'
<1> SUFFICES ASSUME NEW p \in Publisher, phase'[p] = "commit"
             PROVE  \E archive, active, key : InFlight(p, archive, active, key)'
  BY DEF Staged
<1>1. PICK archive, active, key : InFlight(p, archive, active, key)
  BY DEF Staged, publishing
<1>2. InFlight(p, archive, active, key)'
  BY <1>1 DEF InFlight, Succeeds, Kept, publishing
<1> QED BY <1>2

(* Evidence changes nothing that is served.                                *)
LEMMA QualifyStep ==
  ASSUME IInv, NEW inputs, NEW base, Qualify(inputs, base)
  PROVE  IInv'
<1> USE DEF IInv, Qualify, served, consumer
<1>1. Staged'
  BY StagedFrame
<1>2. (TypeOK /\ Shapes /\ Alone /\ Opened)'
  BY DEF TypeOK, Shapes, Alone, Opened, publishing
<1>3. (Recorded /\ Forward /\ ProtectedInstalls)'
  BY DEF Recorded, Kept, Forward, FloorServed, ProtectedInstalls
<1> QED BY <1>1, <1>2, <1>3

(* What is fetched is what is served.                                      *)
LEMMA FetchStep ==
  ASSUME IInv, fetchIndex
  PROVE  IInv'
<1> USE DEF IInv, fetchIndex, served, publishing
<1>1. TypeOK' /\ Alone' /\ Opened' /\ ProtectedInstalls'
  BY DEF TypeOK, Alone, Opened, ProtectedInstalls
<1>2. Shapes'
  BY DEF TypeOK, Shapes
<1>3. Staged'
  BY StagedFrame
<1>4. Recorded'
  BY DEF Recorded, Kept
<1>5. Forward'
  BY DEF TypeOK, IndexOK, Forward, FloorServed
<1> QED BY <1>1, <1>2, <1>3, <1>4, <1>5

(* An accepted index is one that was served, and a refused one is dropped. *)
LEMMA AcceptStep ==
  ASSUME IInv, acceptIndex
  PROVE  IInv'
<1> USE DEF IInv, acceptIndex, served, publishing
<1>1. IndexOK(fetched, "active")
  BY DEF Shapes
<1>2. TypeOK'
  BY <1>1 DEF TypeOK, IndexOK
<1>3. Alone' /\ Opened' /\ ProtectedInstalls' /\ Shapes'
  BY DEF Alone, Opened, ProtectedInstalls, Shapes
<1>4. Staged'
  BY StagedFrame
<1>5. Recorded'
  BY DEF Recorded, Kept
<1>6. Forward'
  BY <1>1 DEF TypeOK, IndexOK, Forward, FloorServed
<1> QED BY <1>2, <1>3, <1>4, <1>5, <1>6

(* A step that changes nothing keeps the invariant.                        *)
LEMMA StutterStep ==
  ASSUME IInv, UNCHANGED vars
  PROVE  IInv'
<1> USE DEF IInv, vars, served, consumer
<1>1. Staged'
  BY StagedFrame
<1>2. (TypeOK /\ Shapes /\ Alone /\ Opened)'
  BY DEF TypeOK, Shapes, Alone, Opened, publishing
<1>3. (Recorded /\ Forward /\ ProtectedInstalls)'
  BY DEF Recorded, Kept, Forward, FloorServed, ProtectedInstalls
<1> QED BY <1>1, <1>2, <1>3

-----------------------------------------------------------------------------
(* The theorems.                                                           *)

(* Every step keeps the invariant and every recorded entry.                *)
LEMMA NextStep ==
  ASSUME IInv, [Next]_vars
  PROVE  IInv' /\ \A e \in docs.archive.entries : Kept(e, docs'.archive.entries)
<1>1. CASE UNCHANGED docs /\ IInv'
  BY <1>1 DEF Kept
<1>2. ASSUME NEW p \in Publisher, lockPublication(p)
      PROVE  IInv' /\ UNCHANGED docs
  BY <1>2, LockStep DEF lockPublication, served
<1>3. ASSUME NEW p \in Publisher, Publication(p)
      PROVE  IInv' /\ UNCHANGED docs
  <2>1. PICK named \in Named, opt \in Option, t \in Template, key \in SigningKey :
          Publish(p, named, opt, t, key)
    BY <1>3 DEF Publication
  <2>2. UNCHANGED docs
    BY <2>1 DEF Publish, served
  <2> QED BY <2>1, <2>2, PublishStep
<1>4. ASSUME NEW p \in Publisher, Done(p) \/ GiveUp(p) \/ Crash(p)
      PROVE  IInv' /\ UNCHANGED docs
  <2>1. Unlock(p) /\ UNCHANGED <<served, evidence, waived, consumer>>
    BY <1>4 DEF Done, GiveUp, Crash
  <2>2. crashes' \in 0 .. MaxCrash
    BY <1>4, PublishAssumption DEF Done, GiveUp, Crash, IInv, TypeOK
  <2> QED BY <2>1, <2>2, UnlockStep DEF served
<1>5. ASSUME NEW inputs, NEW base, Qualify(inputs, base)
      PROVE  IInv' /\ UNCHANGED docs
  BY <1>5, QualifyStep DEF Qualify, served
<1>6. CASE fetchIndex \/ acceptIndex
  BY <1>1, <1>6, FetchStep, AcceptStep DEF fetchIndex, acceptIndex, served
<1>7. CASE UNCHANGED vars
  BY <1>1, <1>7, StutterStep DEF vars, served
<1> QED BY <1>1, <1>2, <1>3, <1>4, <1>5, <1>6, <1>7, RenameStep DEF Next, Commit

(* The invariant holds throughout.                                         *)
THEOREM Invariance == Spec => []IInv
<1>1. IInv /\ [Next]_vars => IInv'
  BY NextStep
<1> QED BY InitIInv, <1>1, PTL DEF Spec

(* Every variable keeps its shape, the active index lists a name once, and *)
(* the lock of lockPublication admits one publication at a time.           *)
THEOREM TypeCorrect == Spec => []TypeOK
<1>1. IInv => TypeOK
  BY DEF IInv
<1> QED BY Invariance, <1>1, PTL

(* A consumer is never offered a rollback, between any two renames and     *)
(* after any kill: the archive is renamed before the active index, and the *)
(* next version is above both (commit, Publish).                           *)
THEOREM NoRollback == Spec => []FloorServed
<1>1. IInv => FloorServed
  BY DEF IInv, Forward
<1> QED BY Invariance, <1>1, PTL

(* What a protected repository serves installs on an empty system          *)
(* (qualifyClosures), although it is checked on what was read and served   *)
(* only after the last rename.                                             *)
THEOREM ServesInstallable == Spec => []ProtectedInstalls
<1>1. IInv => ProtectedInstalls
  BY DEF IInv
<1> QED BY Invariance, <1>1, PTL

(* No publication loses an entry of another: the archive is read under the *)
(* lock, so nothing was recorded since (lockPublication, Publish).         *)
THEOREM NothingLost == Spec => PublishedForGood
<1>1. IInv /\ [Next]_vars =>
        [\A e \in docs.archive.entries :
           identityOf(e.of) \in waived \/ e \in docs'.archive.entries]_vars
  BY NextStep DEF Kept
<1> QED BY Invariance, <1>1, PTL DEF Spec, PublishedForGood

-----------------------------------------------------------------------------
(* What is advertised is served.                                           *)

(* What is served and what is about to be, together.                       *)
SInv == AdvertisedServed /\ PendingServed

(* Under one URL there is one identity.                                    *)
LEMMA SameUrl ==
  ASSUME UrlsTellApart, NEW e \in Valid, NEW f \in Valid, e.url.local, e.url = f.url
  PROVE  identityOf(e.of) = identityOf(f.of)
<1>1. PICK t \in Template, a \in Artifact : validateURLTemplate(t) /\ e = Entry(t, a)
  BY DEF Valid
<1>2. PICK u \in Template, b \in Artifact : validateURLTemplate(u) /\ f = Entry(u, b)
  BY DEF Valid
<1>3. Url(t, a) = Url(u, b) /\ e.of = a /\ f.of = b /\ t.local
  BY <1>1, <1>2 DEF Entry, Url
<1> QED BY <1>1, <1>2, <1>3 DEF UrlsTellApart

(* A document among the renames is the new archive or the new active index. *)
LEMMA DocsOf ==
  ASSUME NEW archive, NEW active, NEW key, NEW s, Len(s) \in Nat,
         Order(s, archive, active, key), NEW i \in 1 .. Len(s), s[i].what = "doc"
  PROVE  /\ Len(s) - i = 3 \/ Len(s) - i = 1
         /\ Len(s) - i = 3 => s[i].doc = archive
         /\ Len(s) - i = 1 => s[i].doc = active
<1> DEFINE d == Len(s) - i
<1>1. d = 0 \/ d = 1 \/ d = 2 \/ d = 3 \/ d >= 4
  OBVIOUS
<1>2. d = 0 => s[i].what = "sig"
  BY DEF Order
<1>3. d = 2 => s[i].what = "sig"
  BY DEF Order
<1>4. d >= 4 => s[i].what = "file"
  <2> SUFFICES ASSUME d >= 4 PROVE s[i].what = "file"
    OBVIOUS
  <2>1. PICK e \in archive.entries : s[i] = FileWrite(e)
    BY DEF Order
  <2> QED BY <2>1 DEF FileWrite
<1>5. d = 1 => s[i] = [what |-> "doc", name |-> "active", doc |-> active]
  BY DEF Order
<1>6. d = 3 => s[i] = [what |-> "doc", name |-> "archive", doc |-> archive]
  BY DEF Order
<1> HIDE DEF d
<1>7. /\ d = 3 \/ d = 1
      /\ d = 3 => s[i].doc = archive
      /\ d = 1 => s[i].doc = active
  BY <1>1, <1>2, <1>3, <1>4, <1>5, <1>6
<1> QED BY <1>7 DEF d

(* Everything a staged publication will advertise is in place already or   *)
(* among the files it renames first.                                       *)
LEMMA PublishServes ==
  ASSUME IInv, SInv, NEW p \in Publisher, NEW named \in Named, NEW opt \in Option,
         NEW t \in Template, NEW key \in SigningKey, Publish(p, named, opt, t, key)
  PROVE  SInv'
<1> DEFINE added == Added(t, resolvePackagePaths(named, opt))
<1>1. /\ phase[p] = "open" /\ phase' = [phase EXCEPT ![p] = "commit"] /\ waived \subseteq waived'
      /\ UNCHANGED <<served, read, consumer>>
  BY DEF Publish, Goto
<1>2. PICK archive, active :
        /\ added \subseteq archive.entries /\ active.entries \subseteq archive.entries
        /\ archive.entries \subseteq read[p].archive.entries \cup added
        /\ job' = [job EXCEPT ![p] = Writes(archive, active, added, key)]
  BY PublishSucceeds
<1>3. PICK w : w = Writes(archive, active, added, key)
  OBVIOUS
<1>4. /\ w \in Seq(Renames(archive, active, key)) /\ Len(w) > 3 /\ Order(w, archive, active, key)
      /\ \A e \in added : e.url.local => \E i \in 1 .. Len(w) - 4 : w[i] = FileWrite(e)
  BY <1>2, <1>3, WritesOrder, InputsAreArtifacts DEF IInv
<1>5. Len(w) \in Nat
  <2> DEFINE R == Renames(archive, active, key)
  <2>1. w \in Seq(R)
    BY <1>4
  <2> HIDE DEF R
  <2> QED BY <2>1
<1>6. read[p] = docs /\ job'[p] = w
  BY <1>1, <1>2, <1>3 DEF IInv, Opened, Shapes
<1>7. AdvertisedServed'
  BY <1>1 DEF SInv, AdvertisedServed, served, consumer
<1>8. \A e \in archive.entries :
        Served(e)' \/ \E j \in 1 .. Len(w) - 4 : w[j] = FileWrite(e)
  <2> SUFFICES ASSUME NEW e \in archive.entries, ~Served(e)'
               PROVE  \E j \in 1 .. Len(w) - 4 : w[j] = FileWrite(e)
    OBVIOUS
  <2>1. e.url.local
    BY DEF Served
  <2>2. e \notin docs.archive.entries
    BY <1>7, <1>1 DEF AdvertisedServed, Served, served
  <2> QED BY <1>2, <1>4, <1>6, <2>1, <2>2
<1>9. ASSUME NEW i \in 1 .. Len(w), w[i].what = "doc", NEW e \in w[i].doc.entries
      PROVE  Served(e)' \/ \E j \in 1 .. i - 1 : w[j] = FileWrite(e)
  <2>1. Len(w) - i = 3 \/ Len(w) - i = 1
    BY <1>4, <1>5, <1>9, DocsOf
  <2>2. w[i].doc.entries \subseteq archive.entries
    BY <1>2, <1>4, <1>5, <1>9, DocsOf
  <2>3. \A j \in 1 .. Len(w) - 4 : j \in 1 .. i - 1
    BY <1>5, <2>1
  <2> QED BY <1>8, <1>9, <2>2, <2>3
<1>10. PendingServed'
  <2> SUFFICES ASSUME NEW q \in Publisher, phase'[q] = "commit",
                      NEW i \in 1 .. Len(job'[q]), job'[q][i].what = "doc",
                      NEW e \in job'[q][i].doc.entries
               PROVE  Served(e)' \/ \E j \in 1 .. i - 1 : job'[q][j] = FileWrite(e)
    BY DEF PendingServed
  <2>1. q = p
    BY <1>1 DEF IInv, Alone, TypeOK
  <2> QED BY <1>6, <1>9, <2>1
<1> QED BY <1>7, <1>10 DEF SInv

(* A package file that is renamed into place replaces no other package     *)
(* file that is advertised or about to be.                                 *)
LEMMA FileKeepsServed ==
  ASSUME UrlsTellApart, IInv, NEW archive, archive.entries \subseteq Valid,
         archive.entries \subseteq Entries,
         OneEach(archive.entries), NEW e \in archive.entries, e.url.local,
         files' = [files EXCEPT ![e.url] = e.of], waived' = waived
  PROVE  /\ Served(e)'
         /\ \A f \in archive.entries : Served(f) => Served(f)'
<1>1. files'[e.url] = e.of
  BY EntryType DEF IInv, TypeOK
<1>2. ASSUME NEW f \in archive.entries, Served(f)
      PROVE  Served(f)'
  <2>1. CASE f.url = e.url
    <3>1. f = e
      BY <2>1, SameUrl DEF OneEach
    <3> QED BY <1>1, <3>1 DEF Served
  <2>2. CASE f.url # e.url
    BY <1>2, <2>2, EntryType DEF Served, IInv, TypeOK
  <2> QED BY <2>1, <2>2
<1> QED BY <1>1, <1>2 DEF Served

(* A rename makes good what was pending for the file it places, and only   *)
(* then is the index that advertises it renamed.                           *)
LEMMA RenameServes ==
  ASSUME UrlsTellApart, IInv, SInv, NEW p \in Publisher, rename(p)
  PROVE  SInv'
<1>1. /\ phase[p] = "commit" /\ phase' = phase /\ waived' = waived /\ holding' = holding
      /\ job'[p] = Tail(job[p]) /\ job[p] # <<>>
  BY DEF rename, consumer, IInv, Shapes
<1>2. PICK archive, active, key : InFlight(p, archive, active, key)
  BY <1>1 DEF IInv, Staged
<1>3. Renamed(p, archive, active, key)
  BY <1>2, RenameCases
<1>4. /\ Len(job[p]) \in Nat \ {0} /\ Len(job'[p]) = Len(job[p]) - 1
      /\ \A i \in 1 .. Len(job'[p]) : i + 1 \in 1 .. Len(job[p]) /\ job'[p][i] = job[p][i + 1]
      /\ Order(job[p], archive, active, key)
  BY <1>1, <1>2, OrderTail DEF InFlight
<1>5. /\ archive.entries \subseteq Valid /\ archive.entries \subseteq Entries
      /\ OneEach(archive.entries) /\ active.entries \subseteq archive.entries
  BY <1>2 DEF InFlight, Succeeds, IndexOK
<1>6. ASSUME NEW f, f \in docs.archive.entries \cup docs.active.entries \cup holding
      PROVE  Kept(f, archive.entries)
  <2>1. Kept(f, docs.archive.entries)
    BY <1>6 DEF IInv, Recorded, Kept
  <2> QED BY <1>2, <2>1 DEF InFlight, Succeeds, Kept
<1>7. \A f \in archive.entries :
        (Served(f) => Served(f)') /\ (job[p][1] = FileWrite(f) => Served(f)')
  <2>1. CASE UNCHANGED files /\ job[p][1].what # "file"
    BY <1>1, <2>1 DEF Served, FileWrite
  <2>2. ASSUME NEW e \in archive.entries, e.url.local, job[p][1] = FileWrite(e),
               files' = [files EXCEPT ![e.url] = e.of]
        PROVE  \A f \in archive.entries :
                 (Served(f) => Served(f)') /\ (job[p][1] = FileWrite(f) => Served(f)')
    <3>1. Served(e)' /\ \A f \in archive.entries : Served(f) => Served(f)'
      BY <1>1, <1>5, <2>2, FileKeepsServed
    <3>2. \A f \in archive.entries : job[p][1] = FileWrite(f) => Served(f)'
      <4> SUFFICES ASSUME NEW f \in archive.entries, job[p][1] = FileWrite(f)
                   PROVE  Served(f)'
        OBVIOUS
      <4>1. f.url = e.url /\ f.of = e.of
        BY <2>2 DEF FileWrite
      <4> QED BY <3>1, <4>1 DEF Served
    <3> QED BY <3>1, <3>2
  <2>3. Len(job[p]) \in 1 .. 4 => job[p][1].what # "file"
    <3>0. 1 \in 1 .. Len(job[p])
      BY <1>4
    <3>1. ASSUME Len(job[p]) - 1 = 0 PROVE job[p][1].what = "sig"
      BY <1>4, <3>0, <3>1 DEF Order
    <3>2. ASSUME Len(job[p]) - 1 = 1 PROVE job[p][1].what = "doc"
      <4>1. job[p][1] = [what |-> "doc", name |-> "active", doc |-> active]
        BY <1>4, <3>0, <3>2 DEF Order
      <4> QED BY <4>1
    <3>3. ASSUME Len(job[p]) - 1 = 2 PROVE job[p][1].what = "sig"
      <4>1. job[p][1] = [what |-> "sig", name |-> "archive", doc |-> archive, key |-> key]
        BY <1>4, <3>0, <3>3 DEF Order
      <4> QED BY <4>1
    <3>4. ASSUME Len(job[p]) - 1 = 3 PROVE job[p][1].what = "doc"
      <4>1. job[p][1] = [what |-> "doc", name |-> "archive", doc |-> archive]
        BY <1>4, <3>0, <3>4 DEF Order
      <4> QED BY <4>1
    <3> DEFINE n == Len(job[p])
    <3> HIDE DEF n
    <3>5. n \in 1 .. 4 => n - 1 = 0 \/ n - 1 = 1 \/ n - 1 = 2 \/ n - 1 = 3
      OBVIOUS
    <3> QED BY <3>1, <3>2, <3>3, <3>4, <3>5 DEF n
  <2> QED BY <1>3, <2>1, <2>2, <2>3 DEF Renamed
<1>8. ASSUME NEW i \in 1 .. Len(job'[p]), job'[p][i].what = "doc",
             NEW f \in job'[p][i].doc.entries
      PROVE  Served(f)' \/ \E j \in 1 .. i - 1 : job'[p][j] = FileWrite(f)
  <2>1. i + 1 \in 1 .. Len(job[p]) /\ job'[p][i] = job[p][i + 1]
    BY <1>4
  <2>2. f \in archive.entries
    BY <1>4, <1>5, <1>8, <2>1, DocsOf
  <2>3. Served(f) \/ \E j \in 1 .. (i + 1) - 1 : job[p][j] = FileWrite(f)
    BY <1>1, <1>8, <2>1 DEF SInv, PendingServed
  <2>4. CASE Served(f) \/ job[p][1] = FileWrite(f)
    BY <1>7, <2>2, <2>4
  <2>5. ASSUME NEW j \in 1 .. (i + 1) - 1, job[p][j] = FileWrite(f), j # 1
        PROVE  \E k \in 1 .. i - 1 : job'[p][k] = FileWrite(f)
    <3>1. j - 1 \in 1 .. i - 1 /\ (j - 1) + 1 = j /\ j - 1 \in 1 .. Len(job'[p])
      BY <2>5, <1>4
    <3> QED BY <1>4, <2>5, <3>1
  <2> QED BY <2>3, <2>4, <2>5
<1>9. PendingServed'
  <2> SUFFICES ASSUME NEW q \in Publisher, phase'[q] = "commit",
                      NEW i \in 1 .. Len(job'[q]), job'[q][i].what = "doc",
                      NEW f \in job'[q][i].doc.entries
               PROVE  Served(f)' \/ \E j \in 1 .. i - 1 : job'[q][j] = FileWrite(f)
    BY DEF PendingServed
  <2>1. q = p
    BY <1>1 DEF IInv, Alone
  <2> QED BY <1>8, <2>1
<1>10. AdvertisedServed'
  <2> SUFFICES ASSUME NEW f \in (docs.archive.entries \cup docs.active.entries \cup holding)'
               PROVE  Served(f)'
    BY DEF AdvertisedServed, Served
  <2>1. CASE f \in docs.archive.entries \cup docs.active.entries \cup holding
    <3>1. Served(f)
      BY <2>1 DEF SInv, AdvertisedServed, Served
    <3> QED BY <1>1, <1>6, <1>7, <2>1, <3>1 DEF Kept, Served
  <2>2. CASE f \notin docs.archive.entries \cup docs.active.entries \cup holding
    <3>1. job[p][1].what = "doc" /\ f \in job[p][1].doc.entries
      <4>1. docs = [archive |-> docs.archive, active |-> docs.active]
        BY DEF IInv, Shapes
      <4>2. \/ Len(job[p]) = 4 /\ docs' = [docs EXCEPT !["archive"] = archive]
            \/ Len(job[p]) = 2 /\ docs' = [docs EXCEPT !["active"] = active]
            \/ docs' = docs
        BY <1>3 DEF Renamed
      <4>3. CASE Len(job[p]) = 4 /\ docs' = [docs EXCEPT !["archive"] = archive]
        <5>1. f \in archive.entries
          BY <1>1, <2>2, <4>1, <4>3
        <5>2. job[p][1] = [what |-> "doc", name |-> "archive", doc |-> archive]
          BY <1>4, <4>3 DEF Order
        <5> QED BY <5>1, <5>2
      <4>4. CASE Len(job[p]) = 2 /\ docs' = [docs EXCEPT !["active"] = active]
        <5>1. f \in active.entries
          BY <1>1, <2>2, <4>1, <4>4
        <5>2. job[p][1] = [what |-> "doc", name |-> "active", doc |-> active]
          BY <1>4, <4>4 DEF Order
        <5> QED BY <5>1, <5>2
      <4> QED BY <1>1, <2>2, <4>2, <4>3, <4>4
    <3>2. f \in archive.entries
      BY <1>4, <1>5, <3>1, DocsOf
    <3>3. 1 \in 1 .. Len(job[p]) /\ ~\E j \in 1 .. 1 - 1 : job[p][j] = FileWrite(f)
      BY <1>4
    <3>4. Served(f)
      BY <1>1, <3>1, <3>3 DEF SInv, PendingServed
    <3> QED BY <1>7, <3>2, <3>4
  <2> QED BY <2>1, <2>2
<1> QED BY <1>9, <1>10 DEF SInv

(* The other steps of a publisher place no file.                           *)
LEMMA StillServes ==
  ASSUME IInv, SInv, UNCHANGED <<served, waived>>,
         \A e \in holding' : Kept(e, docs.archive.entries),
         \A p \in Publisher : phase'[p] = "commit" =>
           phase[p] = "commit" /\ job'[p] = job[p]
  PROVE  SInv'
<1>1. AdvertisedServed'
  <2> SUFFICES ASSUME NEW e \in (docs.archive.entries \cup docs.active.entries \cup holding)'
               PROVE  Served(e)'
    BY DEF AdvertisedServed, Served
  <2>1. e \in docs.archive.entries \cup docs.active.entries \/ identityOf(e.of) \in waived
    BY DEF Kept, served
  <2> QED BY <2>1 DEF SInv, AdvertisedServed, Served, served
<1>2. PendingServed'
  BY DEF SInv, PendingServed, Served, served
<1> QED BY <1>1, <1>2 DEF SInv

(* Every step keeps what is advertised served.                             *)
LEMMA NextServes ==
  ASSUME UrlsTellApart, IInv, SInv, [Next]_vars
  PROVE  SInv'
<1>1. \A e \in holding : Kept(e, docs.archive.entries)
  BY DEF IInv, Recorded
<1> USE DEF served
<1>2. ASSUME NEW p \in Publisher, lockPublication(p)
      PROVE  SInv'
  BY <1>1, <1>2, StillServes DEF lockPublication, Goto, consumer, IInv, TypeOK
<1>3. ASSUME NEW p \in Publisher, Publication(p)
      PROVE  SInv'
  BY <1>3, PublishServes DEF Publication
<1>4. ASSUME NEW p \in Publisher, Done(p) \/ GiveUp(p) \/ Crash(p)
      PROVE  SInv'
  <2>1. Unlock(p) /\ UNCHANGED <<served, waived, consumer>>
    BY <1>4 DEF Done, GiveUp, Crash
  <2> QED BY <1>1, <2>1, StillServes DEF Unlock, Goto, consumer, IInv, TypeOK, Shapes
<1>5. ASSUME NEW inputs, NEW base, Qualify(inputs, base)
      PROVE  SInv'
  BY <1>1, <1>5, StillServes DEF Qualify, publishing, consumer
<1>6. CASE fetchIndex
  BY <1>1, <1>6, StillServes DEF fetchIndex, publishing
<1>7. CASE acceptIndex
  <2>1. \A e \in holding' : Kept(e, docs.archive.entries)
    BY <1>1, <1>7 DEF acceptIndex, IInv, Recorded
  <2> QED BY <1>7, <2>1, StillServes DEF acceptIndex, publishing
<1>8. CASE UNCHANGED vars
  BY <1>1, <1>8, StillServes DEF vars, publishing, consumer
<1> QED BY <1>2, <1>3, <1>4, <1>5, <1>6, <1>7, <1>8, RenameServes DEF Next, Commit

(* At every instant of a publication and after one that was killed, what   *)
(* the indexes advertise, and what any index a consumer accepted ever      *)
(* advertised, is served at its URL with the bytes it was derived from,    *)
(* except where the operator waived that (Publish, writeSet.commit).       *)
THEOREM AllServed == UrlsTellApart => (Spec => []AdvertisedServed)
<1> SUFFICES ASSUME UrlsTellApart PROVE Spec => []AdvertisedServed
  OBVIOUS
<1>1. Init => SInv
  BY DEF Init, Index, SInv, AdvertisedServed, PendingServed
<1>2. IInv /\ SInv /\ [Next]_vars => SInv'
  BY NextServes
<1>3. SInv => AdvertisedServed
  BY DEF SInv
<1> QED BY <1>1, <1>2, <1>3, Invariance, PTL DEF Spec
=============================================================================
