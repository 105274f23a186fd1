------------------------------- MODULE Publish -------------------------------
(***************************************************************************)
(* The publishing side of a repository: internal/repopub, which turns      *)
(* package files into the directory that is served verbatim, and the       *)
(* consumer that reads it while it is being published into.                *)
(*                                                                         *)
(* A publication takes the lock, opens the state, builds both indexes in   *)
(* memory, stages every file beside its destination and renames them one   *)
(* after the other: package files, the archive index and its signature,    *)
(* the active index and its signature.  It may be killed, or a rename may  *)
(* fail, between any two; a consumer may fetch between any two.            *)
(*                                                                         *)
(* A protected repository accepts only a publication with signed release   *)
(* evidence about the exact state it builds on, and re-checks that every   *)
(* package of the next active index installs and upgrades.                 *)
(*                                                                         *)
(* Abstracted: a package file is its manifest and payload; its content     *)
(* hash is the file itself; a detached signature is the document it was    *)
(* made over and the key; sizes are left out (a quick audit sees whether a *)
(* file is present).  Of the resolver, a closure is what its dependencies  *)
(* reach by name; Resolver models the rest.                                *)
(***************************************************************************)
EXTENDS Naturals, Sequences, FiniteSets

CONSTANTS Publisher,   \* publishing processes
          Artifacts,   \* the package files, in path order
          KeyStatus,   \* [keys the descriptor lists -> status]
          SigningKey,  \* keys publishers sign with
          Template,    \* URL templates: [local, fields]
          StoredTemplate,
          Option,      \* flags of a publication: [replace, rebuild, unsigned]
          None,
          MaxVersion,  \* bound: index_version
          MaxCrash,    \* bound: kills and failing renames
          Named        \* bound: the sets of package files one publication names

Artifact == {Artifacts[i] : i \in DOMAIN Artifacts}
Earlier(a, b) == \E i, j \in DOMAIN Artifacts : i < j /\ Artifacts[i] = a /\ Artifacts[j] = b

ASSUME PublishAssumption ==
  /\ Artifacts \in Seq(Artifact)
  /\ \A i, j \in DOMAIN Artifacts : Artifacts[i] = Artifacts[j] => i = j
  /\ \A a \in Artifact : a.version \in Nat /\ a.needs \subseteq {b.name : b \in Artifact}
  /\ \A k \in DOMAIN KeyStatus : KeyStatus[k] \in {"active", "transitioning", "revoked"}
  /\ \A t \in Template : t.fields \subseteq {"name", "version", "arch"}
  /\ StoredTemplate \in Template
  /\ MaxVersion \in Nat /\ MaxCrash \in Nat /\ Named \subseteq SUBSET Artifact

VARIABLES protected, \* the configuration's require_qualification
          files,     \* [URL -> the package file there, or None]
          docs,      \* the two indexes being served
          sigs,      \* their detached signatures
          phase,     \* [Publisher -> phase]
          read,      \* [Publisher -> the indexes it opened]
          job,       \* [Publisher -> renames still to do]
          evidence,  \* the signed release evidence, or None
          waived,    \* identities a --replace or --rebuild may have rewritten
          floor,     \* the consumer's index_version floor
          holding,   \* the entries of the index the consumer last accepted
          fetched,   \* the index it fetched and not yet verified, or None
          crashes

served == <<protected, files, docs, sigs>>
publishing == <<phase, read, job>>
consumer == <<floor, holding, fetched>>
vars == <<served, publishing, evidence, waived, consumer, crashes>>

-----------------------------------------------------------------------------
(* Package files and index entries.                                        *)

(* expandURLTemplate: the part of the identity a template shows.           *)
Url(t, a) ==
  [local |-> t.local,
   name |-> IF "name" \in t.fields THEN a.name ELSE None,
   version |-> IF "version" \in t.fields THEN a.version ELSE 0,
   arch |-> IF "arch" \in t.fields THEN a.arch ELSE None]
Urls == {Url(t, a) : t \in Template, a \in Artifact}

validateURLTemplate(t) == {"name", "version"} \subseteq t.fields

identityOf(a) == <<a.name, a.version, a.arch>>
Entry(t, a) == [of |-> a, url |-> Url(t, a)]
Ids(entries) == {identityOf(e.of) : e \in entries}

(* ingest: the archive verifies against the keys the repository publishes. *)
loadStateKeys == {k \in DOMAIN KeyStatus : KeyStatus[k] # "revoked"}
Ingestible(a, opt) == a.signer \in loadStateKeys \/ (a.signer = None /\ opt.unsigned)

checkSigningKey(key) ==
  key \in DOMAIN KeyStatus /\ KeyStatus[key] \in {"active", "transitioning"}

(* deriveActive: the highest version of each name.  It walks the recorded  *)
(* archive, newest first, then the added files in path order, and fails on *)
(* two architectures of the version that is the highest so far.            *)
Current(entries) ==
  {e \in entries : \A f \in entries : f.of.name = e.of.name => f.of.version <= e.of.version}

Walked(e, existing, added) ==
  IF e \in added THEN existing \cup {f \in added : Earlier(f.of, e.of)}
  ELSE {f \in existing : f.of.version >= e.of.version} \ {e}

(* Mutant: two builds of one version are not noticed.                      *)
X_Ambiguous(existing, added) == FALSE

Ambiguous(existing, added) ==
  \E e \in existing \cup added :
    LET walked == {f \in Walked(e, existing, added) : f.of.name = e.of.name}
    IN /\ \E f \in walked : f.of.version = e.of.version
       /\ \A f \in walked : f.of.version <= e.of.version

-----------------------------------------------------------------------------
(* Qualification.                                                          *)

Digest == <<protected, docs, sigs>>  \* StateDigest

Signed(name) ==
  /\ sigs[name].of = docs[name]
  /\ sigs[name].key \in loadStateKeys
Agree == docs.active.version = docs.archive.version

(* What interrupting a publication breaks.                                 *)
Torn == ~(Signed("active") /\ Signed("archive") /\ Agree)

(* Verify, quick.                                                          *)
Sound ==
  /\ ~Torn
  /\ docs.active.entries = Current(docs.archive.entries)
  /\ ~Ambiguous(docs.archive.entries, {})
  /\ \A e \in docs.archive.entries : e.url.local => files[e.url] # None

(* What installing e from an index brings with it.                         *)
Reach(start, index) ==
  LET step[n \in 0 .. Cardinality(index)] ==
        IF n = 0 THEN start
        ELSE step[n - 1] \cup {e \in index : \E f \in step[n - 1] : e.of.name \in f.of.needs}
  IN step[Cardinality(index)]

Met(entries) == \A e \in entries : e.of.needs \subseteq {f.of.name : f \in entries}
Clash(entries) == \E e, f \in entries : e # f /\ e.of.paths \cap f.of.paths # {}
Installs(entries) == Met(entries) /\ ~Clash(entries)

(* load: every archive of a checked closure is at hand, unchanged and      *)
(* signed, an --allow-unsigned notwithstanding.                            *)
Loadable(entries, inputs) ==
  \A e \in entries :
    /\ e.of.signer \in loadStateKeys
    /\ e.of \in inputs \/ (e.url.local /\ files[e.url] = e.of)
Passes(entries, inputs) == Installs(entries) /\ Loadable(entries, inputs)

Upgraded(e, old, new) ==
  LET names == {f.of.name : f \in Reach({e}, old)}
  IN Reach({f \in new : f.of.name \in names}, new)

(* Mutant: only what is already published is checked again.                *)
X_qualifyClosures(old, new, inputs) ==
  \A e \in old : Met(Reach({e}, old)) /\ Passes(Upgraded(e, old, new), inputs)

(* Every active package installs on an empty system, and what a fresh      *)
(* install of the previous index gives upgrades to the next.               *)
qualifyClosures(old, new, inputs) ==
  /\ \A e \in new : Passes(Reach({e}, new), inputs)
  /\ \A e \in old : Met(Reach({e}, old)) /\ Passes(Upgraded(e, old, new), inputs)

checkQualificationBase == Sound

(* The evidence names the state it was produced on, or an absent one that  *)
(* the empty first index stands for, and exactly the files published.      *)
checkReleaseEvidence(inputs) ==
  /\ evidence # None /\ evidence.artifacts = inputs
  /\ \/ evidence.base = Digest
     \/ evidence.base = None /\ docs.archive.entries = {} /\ docs.active.version = 1

-----------------------------------------------------------------------------
(* Publishing.                                                             *)

Index(kind, version, entries) == [kind |-> kind, version |-> version, entries |-> entries]

Goto(p, where) == phase' = [phase EXCEPT ![p] = where]

(* Mutant: the lock is not exclusive.                                      *)
X_lockPublication(p) ==
  /\ phase[p] = "idle"
  /\ Goto(p, "open")
  /\ read' = [read EXCEPT ![p] = docs]
  /\ UNCHANGED <<served, job, evidence, waived, consumer, crashes>>

(* The lock is on the configuration file, and is not waited for.           *)
lockPublication(p) ==
  /\ phase[p] = "idle" /\ \A q \in Publisher : phase[q] = "idle"
  /\ Goto(p, "open")
  /\ read' = [read EXCEPT ![p] = docs]
  /\ UNCHANGED <<served, job, evidence, waived, consumer, crashes>>

Unlock(p) ==
  /\ Goto(p, "idle")
  /\ read' = [read EXCEPT ![p] = None]
  /\ job' = [job EXCEPT ![p] = <<>>]

(* A rebuild with nothing named takes the package files the repository     *)
(* holds.                                                                  *)
resolvePackagePaths(named, opt) ==
  IF opt.rebuild /\ named = {}
  THEN {files[u] : u \in {v \in Urls : v.local /\ files[v] # None}} ELSE named

TwiceOnDisk(named, opt) ==
  /\ opt.rebuild /\ named = {}
  /\ \E u, v \in Urls :
       u # v /\ u.local /\ v.local /\ files[u] # None /\ files[u] = files[v]

NextVersion(state) ==
  1 + (IF state.archive.version > state.active.version
       THEN state.archive.version ELSE state.active.version)

(* Identities already in the archive that the publication takes over.      *)
Taken(existing, inputs) == {e \in existing : identityOf(e.of) \in {identityOf(a) : a \in inputs}}

(* What refuses a publication before anything is written.  No caller that  *)
(* passes release evidence passes Rebuild, so a protected repository is    *)
(* never rebuilt.                                                          *)
Refused(state, named, inputs, opt, t, key, existing, added) ==
  \/ ~checkSigningKey(key)
  \/ ~validateURLTemplate(t)
  \/ inputs = {} \/ TwiceOnDisk(named, opt)
  \/ \E a \in inputs : ~Ingestible(a, opt)
  \/ \E a, b \in inputs : a # b /\ identityOf(a) = identityOf(b)
  \/ ~opt.replace /\ Taken(existing, inputs) # {}
  \/ Ambiguous(existing \ Taken(existing, inputs), added)
  \/ /\ protected
     /\ \/ ~checkQualificationBase \/ ~checkReleaseEvidence(inputs)
        \/ opt.rebuild
        \/ ~qualifyClosures(state.active.entries,
                            Current((existing \ Taken(existing, inputs)) \cup added),
                            inputs)

FileWrite(e) == [what |-> "file", url |-> e.url, file |-> e.of]
Document(name, doc, key) ==
  << [what |-> "doc", name |-> name, doc |-> doc],
     [what |-> "sig", name |-> name, doc |-> doc, key |-> key] >>

(* Package files are placed in path order.                                 *)
InOrder(entries) ==
  CHOOSE s \in [1 .. Cardinality(entries) -> entries] :
    \A i, j \in DOMAIN s : i < j => Earlier(s[i].of, s[j].of)

(* Mutant: the indexes are renamed before the package files.               *)
X_Writes(archive, active, added, key) ==
  LET placed == InOrder({e \in added : e.url.local})
  IN Document("archive", archive, key) \o Document("active", active, key)
       \o [i \in DOMAIN placed |-> FileWrite(placed[i])]

(* Mutant: the active index is renamed before the archive.                 *)
Y_Writes(archive, active, added, key) ==
  LET placed == InOrder({e \in added : e.url.local})
  IN [i \in DOMAIN placed |-> FileWrite(placed[i])]
       \o Document("active", active, key) \o Document("archive", archive, key)

(* writeSet in the order of its renames.                                   *)
Writes(archive, active, added, key) ==
  LET placed == InOrder({e \in added : e.url.local})
  IN [i \in DOMAIN placed |-> FileWrite(placed[i])]
       \o Document("archive", archive, key) \o Document("active", active, key)

(* Publish, up to the end of the staging: everything is read, verified and *)
(* written to temporary files, and nothing is renamed yet.                 *)
Publish(p, named, opt, t, key) ==
  LET state == read[p]
      inputs == resolvePackagePaths(named, opt)
      existing == IF opt.rebuild THEN {} ELSE state.archive.entries
      added == {Entry(t, a) : a \in inputs}
      next == NextVersion(state)
      all == (existing \ Taken(existing, inputs)) \cup added
  IN /\ phase[p] = "open" /\ (next <= MaxVersion \/ Torn)
     /\ ~Refused(state, named, inputs, opt, t, key, existing, added)
     /\ job' = [job EXCEPT ![p] = Writes(Index("archive", next, all),
                                         Index("active", next, Current(all)), added, key)]
     /\ waived' = waived \cup (IF opt.rebuild THEN Ids(state.archive.entries \cup added)
                               ELSE Ids(Taken(existing, inputs)))
     /\ Goto(p, "commit")
     /\ UNCHANGED <<served, read, evidence, consumer, crashes>>

(* commit: one rename.                                                     *)
rename(p) ==
  /\ phase[p] = "commit" /\ job[p] # <<>>
  /\ LET w == Head(job[p]) IN
       /\ files' = IF w.what = "file" THEN [files EXCEPT ![w.url] = w.file] ELSE files
       /\ docs' = IF w.what = "doc" THEN [docs EXCEPT ![w.name] = w.doc] ELSE docs
       /\ sigs' = IF w.what = "sig" THEN [sigs EXCEPT ![w.name] = [of |-> w.doc, key |-> w.key]]
                  ELSE sigs
  /\ job' = [job EXCEPT ![p] = Tail(@)]
  /\ UNCHANGED <<protected, phase, read, evidence, waived, consumer, crashes>>

Done(p) ==
  /\ phase[p] = "commit" /\ job[p] = <<>>
  /\ Unlock(p)
  /\ UNCHANGED <<served, evidence, waived, consumer, crashes>>

(* A refused publication, or one that found nothing to do.                 *)
GiveUp(p) ==
  /\ phase[p] = "open"
  /\ Unlock(p)
  /\ UNCHANGED <<served, evidence, waived, consumer, crashes>>

(* Mutant: the lock outlives the process that held it.                     *)
X_Crash(p) ==
  /\ phase[p] = "commit" /\ job[p] # <<>> /\ crashes < MaxCrash
  /\ crashes' = crashes + 1
  /\ Goto(p, "dead")
  /\ UNCHANGED <<served, read, job, evidence, waived, consumer>>

(* A kill, or a failing rename: the renames already done stand.            *)
Crash(p) ==
  /\ phase[p] = "commit" /\ job[p] # <<>> /\ crashes < MaxCrash
  /\ crashes' = crashes + 1
  /\ Unlock(p)
  /\ UNCHANGED <<served, evidence, waived, consumer>>

(* The release coordinator checks a set of files against the repository as *)
(* it is, or against none, and signs what it found; bound: again only when *)
(* the repository has changed.                                             *)
Qualify(inputs, base) ==
  /\ protected /\ inputs # {}
  /\ evidence # None => evidence.base # Digest
  /\ base = None => docs.archive.version = 1 /\ evidence = None
  /\ evidence' = [base |-> base, artifacts |-> inputs]
  /\ UNCHANGED <<served, publishing, waived, consumer, crashes>>

-----------------------------------------------------------------------------
(* A consumer: the active index and its signature are two fetches, and the *)
(* index is accepted only if they fit and its version is not below the     *)
(* floor.                                                                  *)
fetchIndex ==
  /\ fetched = None /\ fetched' = docs.active
  /\ UNCHANGED <<served, publishing, evidence, waived, floor, holding, crashes>>

acceptIndex ==
  /\ fetched # None /\ fetched' = None
  /\ IF /\ sigs.active.of = fetched /\ sigs.active.key \in loadStateKeys
        /\ fetched.version >= floor
     THEN floor' = fetched.version /\ holding' = fetched.entries
     ELSE UNCHANGED <<floor, holding>>
  /\ UNCHANGED <<served, publishing, evidence, waived, crashes>>

-----------------------------------------------------------------------------
(* Init has put an empty, signed repository in an empty directory.         *)
Init ==
  /\ protected \in BOOLEAN
  /\ files = [u \in Urls |-> None]
  /\ docs = [archive |-> Index("archive", 1, {}), active |-> Index("active", 1, {})]
  /\ \E key \in {k \in SigningKey : checkSigningKey(k)} :
       sigs = [name \in {"archive", "active"} |-> [of |-> docs[name], key |-> key]]
  /\ phase = [p \in Publisher |-> "idle"] /\ read = [p \in Publisher |-> None]
  /\ job = [p \in Publisher |-> <<>>]
  /\ evidence = None /\ waived = {}
  /\ floor = 0 /\ holding = {} /\ fetched = None /\ crashes = 0

Commit(p) == rename(p) \/ Done(p)
Publication(p) ==
  \E named \in Named, opt \in Option, t \in Template, key \in SigningKey :
    Publish(p, named, opt, t, key)

Next ==
  \/ \E p \in Publisher :
       lockPublication(p) \/ Publication(p) \/ Commit(p) \/ GiveUp(p) \/ Crash(p)
  \/ \E inputs \in Named, base \in {Digest, None} : Qualify(inputs, base)
  \/ fetchIndex \/ acceptIndex

Spec == Init /\ [][Next]_vars

(* A publication that has staged goes on to its last rename, and an        *)
(* operator who sees a torn repository rebuilds it, or has the next        *)
(* release qualified and publishes that.                                   *)
Mend(p) ==
  /\ Torn
  /\ \E named \in Named, opt \in Option, key \in SigningKey :
       (opt.rebuild \/ protected) /\ Publish(p, named, opt, StoredTemplate, key)

FairSpec ==
  /\ Spec
  /\ \A p \in Publisher : WF_vars(Commit(p)) /\ SF_vars(Mend(p)) /\ WF_vars(GiveUp(p))
  /\ SF_vars(\E p \in Publisher : Torn /\ lockPublication(p))

-----------------------------------------------------------------------------
(* Properties.                                                             *)

Entries == {Entry(t, a) : t \in Template, a \in Artifact}
IndexOK(doc, kind) ==
  doc.kind = kind /\ doc.version \in Nat \ {0} /\ doc.entries \subseteq Entries

(* Every variable has its shape, the active index lists a name once, and   *)
(* at most one publication is under way (lockPublication).                 *)
TypeOK ==
  /\ protected \in BOOLEAN
  /\ files \in [Urls -> Artifact \cup {None}]
  /\ IndexOK(docs.archive, "archive") /\ IndexOK(docs.active, "active")
  /\ \A e, f \in docs.active.entries : e.of.name = f.of.name => e = f
  /\ \A n \in {"archive", "active"} : sigs[n].key \in DOMAIN KeyStatus
  /\ phase \in [Publisher -> {"idle", "open", "commit"}]
  /\ Cardinality({p \in Publisher : phase[p] # "idle"}) <= 1
  /\ floor \in Nat /\ holding \subseteq Entries /\ crashes \in 0 .. MaxCrash

(* What either index advertises, or a consumer was ever told, is served at *)
(* its URL with the bytes the entry was derived from, at every instant of  *)
(* a publication and after one that was killed: packages are in place      *)
(* before any index advertises them, and a published version is retained   *)
(* (Publish, writeSet.commit), except where the operator waived that.      *)
AdvertisedServed ==
  \A e \in docs.archive.entries \cup docs.active.entries \cup holding :
    e.url.local /\ identityOf(e.of) \notin waived => files[e.url] = e.of

(* The archive is the record of everything ever published: no publication, *)
(* whatever ran beside it or was killed before it, loses another's entry.  *)
PublishedForGood ==
  [][\A e \in docs.archive.entries :
       identityOf(e.of) \in waived \/ e \in docs'.archive.entries]_vars

(* The indexes a consumer fetches are never a rollback for it, not even    *)
(* between the renames of a publication: its floor comes from an active    *)
(* index, and the archive is renamed first (commit, Publish).              *)
FloorServed == floor <= docs.active.version /\ docs.active.version <= docs.archive.version

(* What a protected repository serves installs, package by package, onto   *)
(* an empty system (qualifyClosures), although the evidence, the state it  *)
(* was produced on and the publication are read at different times.        *)
ProtectedInstalls ==
  protected => \A e \in docs.active.entries : Installs(Reach({e}, docs.active.entries))

(* An interrupted publication is mended by publishing again: the indexes   *)
(* verify and agree once more (Publish takes the greater index_version).   *)
TornHeals == (Torn /\ ~protected) ~> ~Torn

(* The same of a protected repository: "what keeps that invariant true     *)
(* even if a previous publish was interrupted between the two renames".    *)
ProtectedHeals == (Torn /\ protected) ~> ~Torn
=============================================================================
