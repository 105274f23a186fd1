--------------------------- MODULE CommandsProofs ---------------------------
(***************************************************************************)
(* Theorems about Commands.  The loops of Resolver are taken one by one:   *)
(* each is an instance of Loops, whose theorem reduces it to one turn.     *)
(***************************************************************************)
EXTENDS Commands, FiniteSetTheorems, TLAPS

-----------------------------------------------------------------------------
(* Sequences.                                                              *)

LEMMA AppendSet ==
  ASSUME NEW S, NEW t \in Seq(S), NEW e \in S
  PROVE  ToSet(Append(t, e)) = ToSet(t) \cup {e}
<1>1. DOMAIN t = 1 .. Len(t) /\ DOMAIN Append(t, e) = 1 .. Len(t) + 1 /\ Len(t) \in Nat
  OBVIOUS
<1>2. \A i \in 1 .. Len(t) : Append(t, e)[i] = t[i]
  OBVIOUS
<1>3. Append(t, e)[Len(t) + 1] = e
  OBVIOUS
<1>4. 1 .. Len(t) + 1 = (1 .. Len(t)) \cup {Len(t) + 1}
  BY <1>1
<1> QED BY <1>1, <1>2, <1>3, <1>4 DEF ToSet

(* What Append gives.                                                      *)
LEMMA AppendFacts ==
  ASSUME NEW S, NEW t \in Seq(S), NEW e \in S
  PROVE  /\ Append(t, e) \in Seq(S) /\ Len(Append(t, e)) = Len(t) + 1
         /\ ToSet(Append(t, e)) = ToSet(t) \cup {e}
<1>1. Append(t, e) \in Seq(S) /\ Len(Append(t, e)) = Len(t) + 1
  OBVIOUS
<1> QED BY <1>1, AppendSet

(* The elements of a sequence.                                             *)
LEMMA SetOfSeq ==
  ASSUME NEW S, NEW t \in Seq(S)
  PROVE  ToSet(t) \in SUBSET S /\ (ToSet(t) = {} <=> t = << >>)
BY DEF ToSet

(* The elements of a sequence without its last, when none is repeated.     *)
LEMMA FrontOf ==
  ASSUME NEW S, NEW t \in Seq(S), t # << >>,
         \A i, j \in 1 .. Len(t) : t[i] = t[j] => i = j
  PROVE  /\ Front(t) \in Seq(S) /\ Len(Front(t)) = Len(t) - 1 /\ Last(t) \in ToSet(t)
         /\ ToSet(Front(t)) = ToSet(t) \ {Last(t)}
         /\ \A i, j \in 1 .. Len(Front(t)) : Front(t)[i] = Front(t)[j] => i = j
<1>1. Len(t) \in Nat /\ Len(t) > 0 /\ DOMAIN t = 1 .. Len(t)
  OBVIOUS
<1>2. /\ Front(t) \in Seq(S) /\ Len(Front(t)) = Len(t) - 1
      /\ \A i \in 1 .. Len(t) - 1 : Front(t)[i] = t[i]
  BY <1>1 DEF Front
<1>3. DOMAIN Front(t) = 1 .. Len(t) - 1
  BY <1>2
<1>4. Last(t) = t[Len(t)]
  BY DEF Last
<1>5. 1 .. Len(t) = (1 .. Len(t) - 1) \cup {Len(t)}
  BY <1>1
<1>6. \A i \in 1 .. Len(t) - 1 : t[i] # t[Len(t)]
  BY <1>1
<1>7. ToSet(Front(t)) = {t[i] : i \in 1 .. Len(t) - 1}
  BY <1>2, <1>3 DEF ToSet
<1>8. ToSet(t) = {t[i] : i \in 1 .. Len(t)}
  BY <1>1 DEF ToSet
<1> QED BY <1>1, <1>2, <1>4, <1>5, <1>6, <1>7, <1>8

(* Reverse keeps the elements.                                             *)
LEMMA ReverseSet ==
  ASSUME NEW S, NEW t \in Seq(S)
  PROVE  Reverse(t) \in Seq(S) /\ ToSet(Reverse(t)) = ToSet(t)
<1> DEFINE n == Len(t)
<1>1. n \in Nat /\ DOMAIN t = 1 .. n /\ \A i \in 1 .. n : t[i] \in S
  OBVIOUS
<1>2. Reverse(t) = [i \in 1 .. n |-> t[(n - i) + 1]]
  BY DEF Reverse
<1>3. \A i \in 1 .. n : (n - i) + 1 \in 1 .. n /\ (n - ((n - i) + 1)) + 1 = i
  BY <1>1
<1>4. Reverse(t) \in [1 .. n -> S]
  BY <1>1, <1>2, <1>3
<1>5. ToSet(Reverse(t)) = {t[(n - i) + 1] : i \in 1 .. n}
  BY <1>2 DEF ToSet
<1>6. ToSet(t) = {t[i] : i \in 1 .. n}
  BY <1>1 DEF ToSet
<1> HIDE DEF n
<1>7. Reverse(t) \in Seq(S)
  BY <1>1, <1>4
<1>8. {t[(n - i) + 1] : i \in 1 .. n} = {t[i] : i \in 1 .. n}
  <2>1. ASSUME NEW i \in 1 .. n PROVE t[i] \in {t[(n - j) + 1] : j \in 1 .. n}
    BY <1>3
  <2> QED BY <2>1, <1>3
<1> QED BY <1>5, <1>6, <1>7, <1>8

(* The elements of two sequences put together.                             *)
LEMMA JoinedSet ==
  ASSUME NEW S, NEW s \in Seq(S), NEW t \in Seq(S)
  PROVE  s \o t \in Seq(S) /\ ToSet(s \o t) = ToSet(s) \cup ToSet(t)
<1> DEFINE m == Len(s)
           n == Len(t)
           j == s \o t
<1>1. m \in Nat /\ DOMAIN s = 1 .. m /\ n \in Nat /\ DOMAIN t = 1 .. n
  OBVIOUS
<1>2. j \in Seq(S) /\ DOMAIN j = 1 .. m + n
  OBVIOUS
<1>3. \A i \in 1 .. m : j[i] = s[i]
  OBVIOUS
<1>4. \A i \in 1 .. n : j[m + i] = t[i]
  OBVIOUS
<1> HIDE DEF j, m, n
<1>5. \A i \in 1 .. m + n : i \in 1 .. m \/ (i - m \in 1 .. n /\ i = m + (i - m))
  BY <1>1
<1>6. \A i \in 1 .. m + n : j[i] \in ToSet(s) \cup ToSet(t)
  BY <1>1, <1>3, <1>4, <1>5 DEF ToSet
<1>7. \A i \in 1 .. m : i \in 1 .. m + n
  BY <1>1
<1>8. \A i \in 1 .. n : m + i \in 1 .. m + n
  BY <1>1
<1>9. ToSet(j) = ToSet(s) \cup ToSet(t)
  <2>1. ASSUME NEW y \in ToSet(j) PROVE y \in ToSet(s) \cup ToSet(t)
    <3>1. PICK i \in 1 .. m + n : y = j[i]
      BY <1>2 DEF ToSet
    <3> QED BY <3>1, <1>6
  <2>2. ASSUME NEW y \in ToSet(s) PROVE y \in ToSet(j)
    <3>1. PICK i \in 1 .. m : y = s[i]
      BY <1>1 DEF ToSet
    <3> QED BY <3>1, <1>2, <1>3, <1>7 DEF ToSet
  <2>3. ASSUME NEW y \in ToSet(t) PROVE y \in ToSet(j)
    <3>1. PICK i \in 1 .. n : y = t[i]
      BY <1>1 DEF ToSet
    <3> QED BY <3>1, <1>2, <1>4, <1>8 DEF ToSet
  <2> QED BY <2>1, <2>2, <2>3
<1> QED BY <1>2, <1>9 DEF j

Filtered(t, k, x) ==
  /\ t \in Seq(x[2]) /\ ToSet(t) = {x[1][i] : i \in 1 .. k} \cap x[2]
  /\ k > 0 /\ x[1][1] \in x[2] => t # << >> /\ t[1] = x[1][1]

FilterStep(t, k, x) == IF x[1][k] \in x[2] THEN Append(t, x[1][k]) ELSE t

Filter == INSTANCE Loops WITH Step <- LAMBDA t, k, x : FilterStep(t, k, x),
                              Keeps <- LAMBDA t, k, x : Filtered(t, k, x)

(* Select gives the elements in the set, and begins with the first element *)
(* when that is one of them.                                               *)
LEMMA SelectFacts ==
  ASSUME NEW S, NEW seq \in Seq(S), NEW T
  PROVE  /\ Select(seq, T) \in Seq(S \cap T)
         /\ ToSet(Select(seq, T)) = ToSet(seq) \cap T
         /\ seq # << >> /\ seq[1] \in T =>
              Select(seq, T) # << >> /\ Select(seq, T)[1] = seq[1]
<1> DEFINE x == <<seq, T>>
           n == Len(seq)
           chosen == Select(seq, T)
<1>1. n \in Nat /\ DOMAIN seq = 1 .. n /\ x[1] = seq /\ x[2] = T
  OBVIOUS
<1>2. Filtered(<< >>, 0, x)
  BY <1>1 DEF Filtered, ToSet
<1>3. ASSUME NEW k \in 1 .. n, NEW t, Filtered(t, k - 1, x)
      PROVE  Filtered(FilterStep(t, k, x), k, x)
  <2>1. t \in Seq(T) /\ ToSet(t) = {seq[i] : i \in 1 .. k - 1} \cap T
    BY <1>1, <1>3 DEF Filtered
  <2>2. {seq[i] : i \in 1 .. k} = {seq[i] : i \in 1 .. k - 1} \cup {seq[k]}
    BY <1>1
  <2>3. CASE seq[k] \in T
    <3>1. FilterStep(t, k, x) = Append(t, seq[k])
      BY <2>3, <1>1 DEF FilterStep
    <3>2. Append(t, seq[k]) \in Seq(T) /\ ToSet(Append(t, seq[k])) = ToSet(t) \cup {seq[k]}
      BY <2>1, <2>3, AppendSet
    <3>3. k > 1 /\ seq[1] \in T => Append(t, seq[k])[1] = seq[1]
      BY <2>1, <1>1, <1>3 DEF Filtered
    <3>4. k = 1 => t = << >>
      <4>1. k = 1 => ToSet(t) = {}
        BY <2>1
      <4> QED BY <4>1, <2>1 DEF ToSet
    <3>5. k = 1 => Append(t, seq[k])[1] = seq[1]
      BY <3>4
    <3>6. Append(t, seq[k]) # << >>
      BY <2>1
    <3>7. ToSet(Append(t, seq[k])) = {seq[i] : i \in 1 .. k} \cap T
      BY <3>2, <2>1, <2>2, <2>3
    <3>8. seq[1] \in T => Append(t, seq[k])[1] = seq[1]
      BY <3>3, <3>5
    <3> QED BY <3>1, <3>2, <3>6, <3>7, <3>8, <1>1 DEF Filtered
  <2>4. CASE seq[k] \notin T
    <3>1. FilterStep(t, k, x) = t
      BY <2>4, <1>1 DEF FilterStep
    <3>2. seq[1] \in T => k - 1 > 0
      BY <2>4
    <3>3. {seq[i] : i \in 1 .. k} \cap T = {seq[i] : i \in 1 .. k - 1} \cap T
      BY <2>2, <2>4
    <3>4. ToSet(t) = {seq[i] : i \in 1 .. k} \cap T
      BY <2>1, <3>3
    <3>5. seq[1] \in T => t # << >> /\ t[1] = seq[1]
      BY <3>2, <1>1, <1>3 DEF Filtered
    <3>6. Filtered(t, k, x)
      BY <2>1, <3>4, <3>5, <1>1 DEF Filtered
    <3> QED BY <3>1, <3>6
  <2> QED BY <2>3, <2>4
<1>4. Filtered(chosen, n, x)
  <2>1. Filtered(LET after[k \in 0 .. n] == IF k = 0 THEN << >> ELSE FilterStep(after[k - 1], k, x)
                 IN after[n], n, x)
    <3> HIDE DEF x, n
    <3> QED BY <1>1, <1>2, <1>3, Filter!LoopKeeps
  <2> QED BY <2>1 DEF Select, FilterStep
<1>5. chosen \in Seq(T) /\ ToSet(chosen) = ToSet(seq) \cap T
  BY <1>4, <1>1 DEF Filtered, ToSet
<1>6. seq # << >> /\ seq[1] \in T => chosen # << >> /\ chosen[1] = seq[1]
  BY <1>4, <1>1 DEF Filtered
<1>7. chosen \in Seq(S \cap T)
  BY <1>5 DEF ToSet
<1> QED BY <1>5, <1>6, <1>7

-----------------------------------------------------------------------------
(* Candidate selection.                                                    *)

PreferStep(t, k, x) == IF morePreferred(x[1][k], t, x[2], x[3]) THEN x[1][k] ELSE t

Preference == INSTANCE Loops WITH Step <- LAMBDA t, k, x : PreferStep(t, k, x),
                                  Keeps <- LAMBDA t, k, x : t \in x[4]

(* The preferred of some candidates is one of them.                        *)
LEMMA PreferredIn ==
  ASSUME NEW S, NEW seq \in Seq(S), seq # << >>, NEW name, NEW depender
  PROVE  preferredOf(seq, name, depender) \in S
<1> DEFINE rest == Tail(seq)
           n == Len(rest)
           x == <<rest, name, depender, S>>
<1>1. rest \in Seq(S) /\ n \in Nat /\ DOMAIN rest = 1 .. n /\ Head(seq) \in S
  OBVIOUS
<1>2. x[1] = rest /\ x[2] = name /\ x[3] = depender /\ x[4] = S
  OBVIOUS
<1>3. ASSUME NEW k \in 1 .. n, NEW t \in x[4] PROVE PreferStep(t, k, x) \in x[4]
  <2>1. rest[k] \in S
    BY <1>1
  <2> QED BY <2>1, <1>2 DEF PreferStep
<1> HIDE DEF x
<1>4. (LET iter[K \in SUBSET (1 .. n)] ==
             IF K = {} THEN Head(seq)
             ELSE LET i == CHOOSE i \in K : \A j \in K : i >= j
                  IN PreferStep(iter[K \ {i}], i, x)
       IN iter[1 .. n]) \in x[4]
  BY <1>1, <1>2, <1>3, Preference!FoldKeeps
<1> DEFINE D == DOMAIN rest
<1>5. (LET iter[K \in SUBSET D] ==
             IF K = {} THEN Head(seq)
             ELSE LET i == CHOOSE i \in K : \A j \in K : i >= j
                  IN IF morePreferred(rest[i], iter[K \ {i}], name, depender) THEN rest[i]
                     ELSE iter[K \ {i}]
       IN iter[D]) \in S
  <2>1. D = 1 .. n
    BY <1>1
  <2> HIDE DEF rest, D, n
  <2> QED BY <1>4, <1>2, <2>1 DEF PreferStep
<1> HIDE DEF n
<1> QED BY <1>5 DEF preferredOf, FoldLeft, MapThenFoldSet, Max

(* pickBest gives one of the candidates, or None.                          *)
LEMMA BestIn ==
  ASSUME NEW S, NEW matches \in Seq(S), NEW name, NEW depender
  PROVE  pickBest(matches, name, depender) \in S \cup {None}
<1> DEFINE of(c) == revisions(matches, c)
           first == firstRevisions(matches)
           bests == Map(LAMBDA c : preferredOf(revisions(matches, c), name, depender), first)
<1>1. CASE matches = << >>
  BY <1>1 DEF pickBest
<1>2. CASE matches # << >>
  <2>1. ASSUME NEW c \in ToSet(matches)
        PROVE  of(c) \in Seq(S) /\ of(c) # << >>
    <3> DEFINE T == {d \in ToSet(matches) : d.name = c.name}
    <3>1. Select(matches, T) \in Seq(S \cap T) /\ ToSet(Select(matches, T)) = ToSet(matches) \cap T
      BY SelectFacts
    <3>2. c \in ToSet(matches) \cap T
      OBVIOUS
    <3>3. Select(matches, T) # << >>
      <4>1. ToSet(<< >>) = {}
        BY DEF ToSet
      <4> QED BY <4>1, <3>1, <3>2
    <3> QED BY <3>1, <3>3 DEF revisions
  <2>2. first \in Seq(S) /\ first # << >> /\ \A i \in DOMAIN first : first[i] \in ToSet(matches)
    <3> DEFINE T == {c \in ToSet(matches) : Head(revisions(matches, c)) = c}
               U == {d \in ToSet(matches) : d.name = matches[1].name}
    <3>1. matches[1] \in ToSet(matches) /\ matches[1] \in U
      BY <1>2 DEF ToSet
    <3>2. revisions(matches, matches[1]) # << >> /\ revisions(matches, matches[1])[1] = matches[1]
      <4> DEFINE r == Select(matches, U)
      <4>1. r # << >> /\ r[1] = matches[1]
        <5> HIDE DEF U, T, first, bests
        <5>1. matches[1] \in U
          BY <3>1
        <5>2. /\ Select(matches, U) \in Seq(S \cap U)
              /\ matches # << >> /\ matches[1] \in U =>
                Select(matches, U) # << >> /\ Select(matches, U)[1] = matches[1]
          BY SelectFacts
        <5> QED BY <5>1, <5>2, <1>2
      <4>2. revisions(matches, matches[1]) = r
        BY DEF revisions
      <4> HIDE DEF r
      <4> QED BY <4>1, <4>2
    <3>3. revisions(matches, matches[1]) \in Seq(S)
      BY <2>1, <3>1
    <3>4. Head(revisions(matches, matches[1])) = matches[1]
      BY <3>2, <3>3
    <3>5. matches[1] \in T
      BY <3>1, <3>4
    <3> HIDE DEF T
    <3>6. first = Select(matches, T)
      BY DEF firstRevisions, T
    <3>7. Select(matches, T) \in Seq(S \cap T) /\ Select(matches, T) # << >>
      BY <3>5, <1>2, SelectFacts
    <3>8. T \subseteq ToSet(matches)
      BY DEF T
    <3> QED BY <3>6, <3>7, <3>8
  <2>3. bests \in Seq(S) /\ bests # << >>
    <3>1. DOMAIN first = 1 .. Len(first) /\ Len(first) \in Nat /\ Len(first) > 0
      BY <2>2
    <3>2. \A i \in DOMAIN first : preferredOf(revisions(matches, first[i]), name, depender) \in S
      BY <2>1, <2>2, PreferredIn
    <3>3. bests = [i \in 1 .. Len(first) |-> preferredOf(revisions(matches, first[i]), name, depender)]
      BY <3>1 DEF Map
    <3> HIDE DEF bests
    <3>4. bests \in [1 .. Len(first) -> S]
      BY <3>1, <3>2, <3>3
    <3> QED BY <3>1, <3>4
  <2>4. preferredOf(bests, name, depender) \in S
    <3> HIDE DEF bests
    <3> QED BY <2>3, PreferredIn
  <2> QED BY <2>4, <1>2 DEF pickBest
<1> QED BY <1>1, <1>2

(* SetToSeq lists a finite set.                                            *)
LEMMA ListsSet ==
  ASSUME NEW S, IsFiniteSet(S)
  PROVE  SetToSeq(S) \in Seq(S)
<1>1. Cardinality(S) \in Nat
  BY FS_CardinalityType
<1>2. \E f \in [1 .. Cardinality(S) -> S] : IsInjective(f)
  <2>1. PICK f : f \in Bijection(1 .. Cardinality(S), S)
    BY FS_CardinalityType DEF ExistsBijection
  <2>2. f \in [1 .. Cardinality(S) -> S] /\ IsInjective(f)
    BY <2>1, Zenon DEF Bijection, Injection, IsInjective
  <2> QED BY <2>2
<1>3. SetToSeq(S) \in [1 .. Cardinality(S) -> S]
  BY <1>2 DEF SetToSeq
<1> QED BY <1>1, <1>3

-----------------------------------------------------------------------------
(* Worlds.                                                                 *)

Key(e) == <<e.root, e.pkg.name>>
OneEach(world) == \A e, f \in world : e.root = f.root /\ e.pkg.name = f.pkg.name => e = f

Entry(view) == [root : view, pkg : Catalog, chosen : BOOLEAN, was : Catalog \cup {None}]

(* An element of a sequence is where Position says.                        *)
LEMMA PositionFacts ==
  ASSUME NEW S, NEW seq \in Seq(S), NEW x \in ToSet(seq)
  PROVE  Position(seq, x) \in 1 .. Len(seq) /\ seq[Position(seq, x)] = x
<1> DEFINE I == {i \in 1 .. Len(seq) : seq[i] = x}
<1>1. DOMAIN seq = 1 .. Len(seq) /\ Len(seq) \in Nat
  OBVIOUS
<1>2. I # {} /\ I \in SUBSET Nat
  BY <1>1 DEF ToSet
<1>3. \E n \in I : \A i \in I : n <= i
  BY <1>2, Filter!LeastNumber
<1>4. Position(seq, x) = CHOOSE n \in I : \A i \in I : n <= i
  BY <1>2 DEF Position, SelectInSeq, Min
<1> HIDE DEF I
<1>5. Position(seq, x) \in I
  BY <1>3, <1>4
<1> QED BY <1>5 DEF I

(* Of entries of different roots or names, one comes first.                *)
LEMMA FirstIn ==
  ASSUME NEW E \in SUBSET Entry(Root), OneEach(E), E # {}
  PROVE  FirstOf(E) \in E
<1> DEFINE at(e) == Position(RootSeq, e.root)
           under(e) == Position(NameSeq, e.pkg.name)
<1>1. \A e \in E : e.root \in ToSet(RootSeq) /\ e.pkg.name \in ToSet(NameSeq)
  BY CommandsAssumption DEF Entry, Root, Name
<1>2. RootSeq \in Seq(Root) /\ NameSeq \in Seq(Name)
  BY ResolverAssumption
<1>3. \A e \in E : at(e) \in Nat /\ RootSeq[at(e)] = e.root
  BY <1>1, <1>2, PositionFacts
<1>4. \A e \in E : under(e) \in Nat /\ NameSeq[under(e)] = e.pkg.name
  BY <1>1, <1>2, PositionFacts
<1> HIDE DEF at, under
<1>5. PICK d \in E : \A e \in E : at(d) <= at(e)
  <2> DEFINE N == {at(e) : e \in E}
  <2>1. N \in SUBSET Nat /\ N # {}
    BY <1>3
  <2>2. PICK n \in N : \A i \in N : n <= i
    BY <2>1, Filter!LeastNumber
  <2> QED BY <2>2
<1> DEFINE D == {e \in E : at(e) = at(d)}
<1>6. PICK f \in D : \A e \in D : under(f) <= under(e)
  <2> DEFINE N == {under(e) : e \in D}
  <2>1. N \in SUBSET Nat /\ N # {}
    BY <1>4
  <2>2. PICK n \in N : \A i \in N : n <= i
    BY <2>1, Filter!LeastNumber
  <2> QED BY <2>2
<1>7. ASSUME NEW e \in E, e # f PROVE KeyBefore(f, e)
  <2>1. f \in E /\ at(f) <= at(e)
    BY <1>5, <1>6
  <2>2. CASE at(f) < at(e)
    BY <2>2 DEF KeyBefore, at
  <2>3. CASE at(f) = at(e)
    <3>1. e.root = f.root
      BY <2>1, <2>3, <1>3
    <3>2. e \in D
      BY <2>3, <1>6
    <3>3. under(f) # under(e)
      BY <2>1, <3>1, <1>4, <1>7 DEF OneEach
    <3>4. under(f) < under(e)
      BY <3>2, <3>3, <2>1, <1>4, <1>6
    <3> QED BY <3>1, <3>4 DEF KeyBefore, under
  <2> QED BY <2>1, <2>2, <2>3, <1>3
<1>8. \E g \in E : \A e \in E \ {g} : KeyBefore(g, e)
  BY <1>6, <1>7
<1> QED BY <1>8 DEF FirstOf

(* There are finitely many roots.                                          *)
LEMMA FiniteRoots == IsFiniteSet(Root)
<1>1. RootSeq \in Seq(Root)
  BY ResolverAssumption
<1>2. IsFiniteSet(1 .. Len(RootSeq))
  BY <1>1, FS_Interval
<1>3. Root = {RootSeq[i] : i \in 1 .. Len(RootSeq)}
  BY <1>1 DEF Root, ToSet
<1> DEFINE g == [i \in 1 .. Len(RootSeq) |-> RootSeq[i]]
<1>4. g \in Surjection(1 .. Len(RootSeq), Root)
  BY <1>3 DEF Surjection
<1> QED BY <1>2, <1>4, FS_Surjection

(* There are finitely many entries, so a resolution's bounds are numbers.  *)
LEMMA FiniteEntries == IsFiniteSet(Entry(Root))
<1> DEFINE P == Root \X Catalog
           Q == BOOLEAN \X (Catalog \cup {None})
           f == [y \in P \X Q |-> [root |-> y[1][1], pkg |-> y[1][2],
                                   chosen |-> y[2][1], was |-> y[2][2]]]
<1>1. IsFiniteSet(Root)
  BY FiniteRoots
<1>2. IsFiniteSet(P) /\ IsFiniteSet(Q)
  <2>1. IsFiniteSet(Catalog)
    BY CommandsAssumption
  <2>2. IsFiniteSet({None}) /\ IsFiniteSet({TRUE, FALSE})
    <3>1. IsFiniteSet({None})
      BY FS_Singleton
    <3>2. IsFiniteSet({TRUE} \cup {FALSE})
      BY FS_Singleton, FS_Union
    <3>3. {TRUE} \cup {FALSE} = {TRUE, FALSE}
      OBVIOUS
    <3> QED BY <3>1, <3>2, <3>3
  <2>3. BOOLEAN = {TRUE, FALSE}
    OBVIOUS
  <2>4. IsFiniteSet(Catalog \cup {None})
    BY <2>1, <2>2, FS_Union
  <2> QED BY <1>1, <2>1, <2>2, <2>3, <2>4, FS_Product
<1>3. IsFiniteSet(P \X Q)
  BY <1>2, FS_Product
<1>4. \A e \in Entry(Root) : \E y \in P \X Q : f[y] = e
  <2> TAKE e \in Entry(Root)
  <2> DEFINE y == <<<<e.root, e.pkg>>, <<e.chosen, e.was>>>>
  <2>1. y \in P \X Q
    BY DEF Entry
  <2>2. f[y] = [root |-> e.root, pkg |-> e.pkg, chosen |-> e.chosen, was |-> e.was]
    BY <2>1
  <2>3. e = [root |-> e.root, pkg |-> e.pkg, chosen |-> e.chosen, was |-> e.was]
    BY DEF Entry
  <2> QED BY <2>1, <2>2, <2>3
<1>5. \A y \in P \X Q : f[y] \in Entry(Root)
  <2> TAKE y \in P \X Q
  <2>1. f[y] = [root |-> y[1][1], pkg |-> y[1][2], chosen |-> y[2][1], was |-> y[2][2]]
    OBVIOUS
  <2>2. y[1] \in P /\ y[2] \in Q
    OBVIOUS
  <2>3. y[1][1] \in Root /\ y[1][2] \in Catalog /\ y[2][1] \in BOOLEAN /\ y[2][2] \in Catalog \cup {None}
    BY <2>2
  <2> QED BY <2>1, <2>3 DEF Entry
<1>6. f \in Surjection(P \X Q, Entry(Root))
  <2>1. DOMAIN f = P \X Q /\ f = [y \in P \X Q |-> f[y]]
    OBVIOUS
  <2> HIDE DEF f
  <2>2. f \in [P \X Q -> Entry(Root)]
    BY <2>1, <1>5
  <2> QED BY <2>1, <2>2, <1>4 DEF Surjection
<1> HIDE DEF f, P, Q
<1> QED BY <1>3, <1>6, FS_Surjection

-----------------------------------------------------------------------------
(* A world in the making.  inst gives the packages of each root, view the  *)
(* roots the resolution has been given.                                    *)

Given(inst, view) ==
  /\ inst \in [Root -> SUBSET Catalog] /\ view \in SUBSET Root
  /\ \A r \in Root \ view : inst[r] = {}
  /\ \A r \in Root : \A c, d \in inst[r] : c.name = d.name => c = d

(* An entry nothing was chosen for is what is installed; one with a choice *)
(* remembers what is installed in its place, unless that had been removed. *)
Remembers(e, inst) ==
  IF e.chosen THEN e.was = None \/ (e.was \in inst[e.root] /\ e.was.name = e.pkg.name)
  ELSE e.was = e.pkg /\ e.pkg \in inst[e.root]

WorldOK(world, inst, view) ==
  /\ world \in SUBSET Entry(view) /\ OneEach(world)
  /\ \A e \in world : Remembers(e, inst)

State(view) ==
  [world : SUBSET Entry(view), work : Seq(Root \X Name),
   auths : SUBSET Authorization, steps : Nat, reason : Reasons \cup {None}]

(* What is on the worklist is in the world.                                *)
Reachable(s) == \A i \in DOMAIN s.work : At(s.world, s.work[i][1], s.work[i][2]) # {}

(* The places of base are still taken, by entries that remember the same.  *)
Retains(world, base) ==
  \A e \in base : \E f \in world :
    f.root = e.root /\ f.pkg.name = e.pkg.name /\ f.was = e.was

Sound(s, inst, view, base) ==
  /\ s \in State(view) /\ WorldOK(s.world, inst, view) /\ Reachable(s)
  /\ Retains(s.world, base)

(* The world a resolution starts from.                                     *)
LEMMA InstalledEntries ==
  ASSUME NEW inst, NEW view, Given(inst, view)
  PROVE  /\ WorldOK(InstalledWorld(inst), inst, view)
         /\ \A e : e \in InstalledWorld(inst) <=>
              \E r \in Root : \E c \in inst[r] :
                e = [root |-> r, pkg |-> c, chosen |-> FALSE, was |-> c]
<1>1. \A e : e \in InstalledWorld(inst) <=>
        \E r \in Root : \E c \in inst[r] :
          e = [root |-> r, pkg |-> c, chosen |-> FALSE, was |-> c]
  BY DEF InstalledWorld
<1>2. \A r \in Root : \A c \in inst[r] : r \in view /\ c \in Catalog
  BY DEF Given
<1> DEFINE W == InstalledWorld(inst)
<1> HIDE DEF W
<1>3. ASSUME NEW e \in W
      PROVE  e \in Entry(view) /\ Remembers(e, inst)
  <2>1. PICK r \in Root, c \in Catalog : c \in inst[r] /\ e = [root |-> r, pkg |-> c, chosen |-> FALSE, was |-> c]
    BY <1>1, <1>2, <1>3 DEF W
  <2> QED BY <2>1, <1>2 DEF Entry, Remembers
<1>4. ASSUME NEW e \in W, NEW f \in W, e.root = f.root, e.pkg.name = f.pkg.name
      PROVE  e = f
  <2>1. PICK r \in Root, c \in Catalog : c \in inst[r] /\ e = [root |-> r, pkg |-> c, chosen |-> FALSE, was |-> c]
    BY <1>1, <1>2 DEF W
  <2>2. PICK q \in Root, d \in Catalog : d \in inst[q] /\ f = [root |-> q, pkg |-> d, chosen |-> FALSE, was |-> d]
    BY <1>1, <1>2 DEF W
  <2>3. q = r /\ c.name = d.name
    BY <2>1, <2>2, <1>4
  <2>4. c = d
    BY <2>1, <2>2, <2>3 DEF Given
  <2> QED BY <2>1, <2>2, <2>3, <2>4
<1>5. WorldOK(W, inst, view)
  BY <1>3, <1>4 DEF WorldOK, OneEach
<1> QED BY <1>1, <1>5 DEF W

(* A world stays sound when entries go.                                    *)
LEMMA SubworldOK ==
  ASSUME NEW inst, NEW view, NEW world, WorldOK(world, inst, view), NEW w \in SUBSET world
  PROVE  WorldOK(w, inst, view)
BY DEF WorldOK, OneEach

(* The types of an entry's fields.                                         *)
LEMMA EntryNames ==
  ASSUME NEW view \in SUBSET Root, NEW e \in Entry(view)
  PROVE  e.root \in Root /\ e.pkg \in Catalog /\ e.pkg.name \in Name
BY CommandsAssumption DEF Entry

(* A candidate put in its place in a world.                                *)
LEMMA PlaceOK ==
  ASSUME NEW inst, NEW view \in SUBSET Root, NEW world, WorldOK(world, inst, view),
         NEW cand \in Catalog, NEW root \in view
  PROVE  /\ WorldOK(placeCandidate(world, cand, root), inst, view)
         /\ At(placeCandidate(world, cand, root), root, cand.name) # {}
         /\ \A r, name : At(world, r, name) # {} => At(placeCandidate(world, cand, root), r, name) # {}
         /\ \A base : Retains(world, base) => Retains(placeCandidate(world, cand, root), base)
<1> DEFINE old == At(world, root, cand.name)
           was == IF old = {} THEN None ELSE The(world, <<root, cand.name>>).was
           new == [root |-> root, pkg |-> cand, chosen |-> TRUE, was |-> was]
           W == placeCandidate(world, cand, root)
<1>1. W = (world \ old) \cup {new}
  BY DEF placeCandidate
<1>2. was \in Catalog \cup {None}
      /\ (was = None \/ (was \in inst[root] /\ was.name = cand.name))
  <2>1. CASE old = {}
    BY <2>1
  <2>2. CASE old # {}
    <3> DEFINE e == The(world, <<root, cand.name>>)
    <3>1. e \in old
      BY <2>2 DEF The
    <3>2. e \in world /\ e.root = root /\ e.pkg.name = cand.name
      BY <3>1 DEF At
    <3>3. e \in Entry(view) /\ Remembers(e, inst)
      BY <3>2 DEF WorldOK
    <3>4. e.was \in Catalog \cup {None}
      BY <3>3 DEF Entry
    <3>5. was = e.was
      BY <2>2
    <3> HIDE DEF e
    <3> QED BY <3>2, <3>3, <3>4, <3>5 DEF Remembers
  <2> QED BY <2>1, <2>2
<1> HIDE DEF was
<1>3. new \in Entry(view) /\ Remembers(new, inst)
  BY <1>2 DEF Entry, Remembers
<1>4. new.root = root /\ new.pkg.name = cand.name
  OBVIOUS
<1> HIDE DEF new
<1>5. W \in SUBSET Entry(view) /\ \A e \in W : Remembers(e, inst)
  BY <1>1, <1>3 DEF WorldOK
<1>6. OneEach(W)
  <2> SUFFICES ASSUME NEW e \in W, NEW f \in W, e.root = f.root, e.pkg.name = f.pkg.name
               PROVE  e = f
    BY DEF OneEach
  <2>1. \A g \in world \ old : ~(g.root = root /\ g.pkg.name = cand.name)
    BY DEF At
  <2> QED BY <2>1, <1>1, <1>4 DEF WorldOK, OneEach
<1>7. new \in At(W, root, cand.name)
  BY <1>1, <1>4 DEF At
<1>8. ASSUME NEW r, NEW name, At(world, r, name) # {} PROVE At(W, r, name) # {}
  <2>1. PICK e \in world : e.root = r /\ e.pkg.name = name
    BY <1>8 DEF At
  <2>2. CASE e \in old
    BY <2>1, <2>2, <1>7 DEF At
  <2>3. CASE e \notin old
    BY <2>1, <2>3, <1>1 DEF At
  <2> QED BY <2>2, <2>3
<1> HIDE DEF W
<1>9. WorldOK(W, inst, view)
  BY <1>5, <1>6 DEF WorldOK
<1>10. ASSUME NEW e \in world
       PROVE  \E f \in W : f.root = e.root /\ f.pkg.name = e.pkg.name /\ f.was = e.was
  <2>1. CASE e \in old
    <3>1. The(world, <<root, cand.name>>) = e
      <4>1. \A g \in old : g = e
        BY <2>1 DEF At, WorldOK, OneEach
      <4>2. The(world, <<root, cand.name>>) \in old
        BY <2>1 DEF The
      <4> QED BY <4>1, <4>2
    <3>2. was = e.was
      BY <2>1, <3>1 DEF was
    <3>3. e.root = root /\ e.pkg.name = cand.name /\ new.was = was
      BY <2>1 DEF At, new
    <3> HIDE DEF old
    <3> QED BY <3>2, <3>3, <1>1, <1>4
  <2>2. CASE e \notin old
    BY <2>2, <1>1
  <2> QED BY <2>1, <2>2
<1>11. \A base : Retains(world, base) => Retains(W, base)
  <2> SUFFICES ASSUME NEW base, Retains(world, base), NEW b \in base
               PROVE  \E f \in W : f.root = b.root /\ f.pkg.name = b.pkg.name /\ f.was = b.was
    BY DEF Retains
  <2>1. PICK e \in world : e.root = b.root /\ e.pkg.name = b.pkg.name /\ e.was = b.was
    BY DEF Retains
  <2> QED BY <2>1, <1>10
<1> QED BY <1>7, <1>8, <1>9, <1>11 DEF W

(* The best candidate is one of the available packages.                    *)
LEMMA BestAvailable ==
  ASSUME NEW available \in SUBSET Catalog
  PROVE  /\ \A name, vers : bestNamed(available, name, vers) \in Catalog \cup {None}
         /\ \A name : bestForGoal(available, name) \in Catalog \cup {None}
         /\ \A dep, arch, depender :
              bestForDependency(available, dep, arch, depender) \in Catalog \cup {None}
<1>1. \A S \in SUBSET available : SetToSeq(S) \in Seq(Catalog)
  <2> TAKE S \in SUBSET available
  <2>1. S \in SUBSET Catalog
    OBVIOUS
  <2>2. IsFiniteSet(S)
    BY <2>1, CommandsAssumption, FS_Subset
  <2>3. SetToSeq(S) \in Seq(S)
    BY <2>2, ListsSet
  <2> QED BY <2>1, <2>3
<1>2. \A S \in SUBSET available : \A name, depender :
        pickBest(SetToSeq(S), name, depender) \in Catalog \cup {None}
  BY <1>1, BestIn
<1>3. ASSUME NEW name, NEW vers PROVE bestNamed(available, name, vers) \in Catalog \cup {None}
  <2> DEFINE S == {c \in available : /\ c.name = name /\ c.ver \in vers
                                     /\ installableArch(c.arch)}
  <2>1. S \in SUBSET available
    OBVIOUS
  <2> HIDE DEF S
  <2>2. pickBest(SetToSeq(S), name, NoDepender) \in Catalog \cup {None}
    BY <2>1, <1>2
  <2> QED BY <2>2 DEF bestNamed, S
<1>4. ASSUME NEW name PROVE bestForGoal(available, name) \in Catalog \cup {None}
  <2>1. GoalMatches(available, name) \in SUBSET available
    BY DEF GoalMatches
  <2> QED BY <2>1, <1>2 DEF bestForGoal
<1>5. ASSUME NEW dep, NEW arch, NEW depender
      PROVE  bestForDependency(available, dep, arch, depender) \in Catalog \cup {None}
  <2>1. DependencyMatches(available, dep, arch) \in SUBSET available
    BY DEF DependencyMatches
  <2>2. pickBest(SetToSeq(DependencyMatches(available, dep, arch)), dep.name, depender)
          \in Catalog \cup {None}
    BY <2>1, <1>2
  <2> QED BY <2>2 DEF bestForDependency
<1> QED BY <1>3, <1>4, <1>5

-----------------------------------------------------------------------------
(* The steps a resolution is made of.                                      *)

LEMMA RejectedSound ==
  ASSUME NEW inst, NEW view \in SUBSET Root, NEW base, NEW s, Sound(s, inst, view, base), NEW why \in Reasons
  PROVE  Sound(Rejected(s, why), inst, view, base)
<1>1. s \in State(view)
  BY DEF Sound
<1>2. Rejected(s, why) \in State(view) /\ Rejected(s, why).world = s.world
      /\ Rejected(s, why).work = s.work
  BY <1>1 DEF Rejected, State
<1> QED BY <1>2 DEF Sound, Reachable

(* A goal is put on the worklist only for a package that is in the world.  *)
LEMMA GoalSound ==
  ASSUME NEW inst, NEW view \in SUBSET Root, NEW base, NEW s, Sound(s, inst, view, base),
         NEW root \in Root, NEW name \in Name, At(s.world, root, name) # {}
  PROVE  Sound(Goal(s, root, name), inst, view, base)
<1> DEFINE g == Goal(s, root, name)
<1>1. s \in State(view)
  BY DEF Sound
<1>2. g \in State(view) /\ g.world = s.world /\ g.work = Append(s.work, <<root, name>>)
  <2> DEFINE w == Append(s.work, <<root, name>>)
  <2>1. w \in Seq(Root \X Name)
    <3>1. s.work \in Seq(Root \X Name) /\ <<root, name>> \in Root \X Name
      BY <1>1 DEF State
    <3> QED BY <3>1
  <2>2. g = [s EXCEPT !.work = w]
    BY <1>1 DEF Goal, State
  <2> HIDE DEF w, g
  <2>3. g \in State(view) /\ g.world = s.world /\ g.work = w
    BY <2>1, <2>2, <1>1 DEF State
  <2> QED BY <2>3 DEF w
<1> HIDE DEF g
<1>3. Reachable(g)
  <2> SUFFICES ASSUME NEW i \in DOMAIN g.work
               PROVE  At(s.world, g.work[i][1], g.work[i][2]) # {}
    BY <1>2 DEF Reachable
  <2>1. s.work \in Seq(Root \X Name) /\ <<root, name>> \in Root \X Name
    BY <1>1 DEF State
  <2>2. CASE i = Len(s.work) + 1
    <3>1. g.work[i] = <<root, name>>
      BY <2>1, <2>2, <1>2
    <3> QED BY <3>1
  <2>3. CASE i # Len(s.work) + 1
    <3>1. i \in DOMAIN s.work /\ g.work[i] = s.work[i]
      BY <2>1, <2>3, <1>2
    <3> QED BY <3>1 DEF Sound, Reachable
  <2> QED BY <2>2, <2>3
<1> QED BY <1>2, <1>3 DEF Sound, g

(* Placing a candidate keeps a resolution sound (placeCandidate).          *)
LEMMA PlacedSound ==
  ASSUME NEW inst, NEW view \in SUBSET Root, NEW base, NEW s, Sound(s, inst, view, base),
         NEW cand \in Catalog, NEW root \in view
  PROVE  Sound(Placed(s, cand, root), inst, view, base)
<1> DEFINE W == placeCandidate(s.world, cand, root)
           t == [s EXCEPT !.world = W]
<1>1. s \in State(view) /\ WorldOK(s.world, inst, view)
  BY DEF Sound
<1>2. /\ WorldOK(W, inst, view) /\ At(W, root, cand.name) # {}
      /\ \A r, name : At(s.world, r, name) # {} => At(W, r, name) # {}
      /\ Retains(s.world, base) => Retains(W, base)
  BY <1>1, PlaceOK
<1> HIDE DEF W
<1>3. t \in State(view) /\ t.world = W /\ t.work = s.work
  BY <1>1, <1>2 DEF State, WorldOK
<1>4. Sound(t, inst, view, base)
  BY <1>2, <1>3 DEF Sound, Reachable
<1>5. root \in Root /\ cand.name \in Name
  BY CommandsAssumption
<1>6. Placed(s, cand, root) = Goal(t, root, cand.name)
  BY <1>1 DEF Placed, W, State
<1> HIDE DEF t
<1> QED BY <1>2, <1>3, <1>4, <1>5, <1>6, GoalSound

(* So does placing the best one, or rejecting when there is none.          *)
LEMMA PlacedIfAnySound ==
  ASSUME NEW inst, NEW view \in SUBSET Root, NEW base, NEW s, Sound(s, inst, view, base),
         NEW cand \in Catalog \cup {None}, NEW root \in view
  PROVE  Sound(PlacedIfAny(s, cand, root), inst, view, base)
BY PlacedSound, RejectedSound DEF PlacedIfAny, Reasons

(* So does the upgrade of one package.                                     *)
LEMMA UpgradeKeySound ==
  ASSUME NEW inst, NEW view \in SUBSET Root, NEW base, NEW s, Sound(s, inst, view, base),
         NEW available \in SUBSET Catalog, NEW key
  PROVE  Sound(upgradeKey(s, key, available), inst, view, base)
<1>1. CASE At(s.world, key[1], key[2]) = {}
  BY <1>1 DEF upgradeKey
<1>2. CASE At(s.world, key[1], key[2]) # {}
  <2> DEFINE e == The(s.world, key)
             cand == bestNamed(available, e.pkg.name, Nat)
  <2>1. e \in s.world
    BY <1>2 DEF The, At
  <2> HIDE DEF e
  <2>2. e \in Entry(view) /\ e.root \in view
    BY <2>1 DEF Sound, WorldOK, Entry
  <2>3. e.root \in Root /\ e.pkg.name \in Name
    BY <2>2, EntryNames
  <2>4. At(s.world, e.root, e.pkg.name) # {}
    BY <2>1 DEF At
  <2>5. Sound(Goal(s, e.root, e.pkg.name), inst, view, base)
    BY <2>3, <2>4, GoalSound
  <2>6. cand \in Catalog \cup {None}
    BY BestAvailable
  <2> HIDE DEF cand
  <2>7. cand # None => Sound(Placed(s, cand, e.root), inst, view, base)
    BY <2>2, <2>6, PlacedSound
  <2>8. Sound(PlacedIfNewer(s, e, cand), inst, view, base)
    BY <2>5, <2>7 DEF PlacedIfNewer
  <2> QED BY <2>8, <1>2 DEF upgradeKey, e, cand
<1> QED BY <1>1, <1>2

(* So does meeting one dependency (resolveDependency).                     *)
LEMMA DependencySound ==
  ASSUME NEW inst, NEW view \in SUBSET Root, NEW base, NEW s, Sound(s, inst, view, base),
         NEW available \in SUBSET Catalog, NEW e \in Entry(view), NEW dep,
         NEW refs, refs = None \/ refs \in SUBSET view, NEW conf
  PROVE  Sound(resolveDependency(s, e, dep, available, refs, conf), inst, view, base)
<1> DEFINE root == routeRoot(dep, e.root, refs)
           cand == bestForDependency(available, dep, e.pkg.arch, originRepo(e, conf))
           placed == Placed(s, cand, root)
           auths == lowTrustProvidesAuthorization(available, dep, cand)
<1>1. root \in view \cup {None}
  BY DEF routeRoot, Entry
<1>2. cand \in Catalog \cup {None}
  BY BestAvailable
<1> HIDE DEF root, cand
<1>3. Sound(meetBy(s, dep, cand, root, available), inst, view, base)
  <2>1. CASE root = None \/ cand = None
    BY <2>1, RejectedSound DEF meetBy, Reasons
  <2>2. CASE root # None /\ cand # None
    <3>1. Sound(placed, inst, view, base)
      BY <2>2, <1>1, <1>2, PlacedSound
    <3>2. auths \in SUBSET Authorization
      <4>1. cand.name \in Name
        BY <2>2, <1>2, CommandsAssumption
      <4>2. auths \in SUBSET {[kind |-> "low-trust-provides", name |-> cand.name]}
        BY Zenon DEF lowTrustProvidesAuthorization
      <4>3. [kind |-> "low-trust-provides", name |-> cand.name] \in Authorization
        BY <4>1 DEF Authorization
      <4> HIDE DEF auths
      <4> QED BY <4>2, <4>3, Zenon
    <3> HIDE DEF placed, auths
    <3> DEFINE t == [placed EXCEPT !.auths = @ \cup auths]
    <3>3. t \in State(view) /\ t.world = placed.world /\ t.work = placed.work
      BY <3>1, <3>2 DEF Sound, State
    <3>4. Sound(t, inst, view, base)
      BY <3>1, <3>3 DEF Sound, Reachable
    <3>5. meetBy(s, dep, cand, root, available) = t
      BY <2>2 DEF meetBy, placed, auths
    <3> QED BY <3>4, <3>5
  <2> QED BY <2>1, <2>2
<1> QED BY <1>3 DEF resolveDependency, root, cand

-----------------------------------------------------------------------------
(* The phases of a resolution keep it sound: removals,                     *)

Bare(t, x) == Sound(t, x.inst, x.view, {}) /\ t.work = << >>

TargetStep(t, k, x) == removeTarget(t, x.seq[k])
BrokenStep(t, k, x) == removeBroken(t, x.refs, x.cascade)

Targets == INSTANCE Loops WITH Step <- LAMBDA t, k, x : TargetStep(t, k, x),
                               Keeps <- LAMBDA t, k, x : Bare(t, x)
Cascade == INSTANCE Loops WITH Step <- LAMBDA t, k, x : BrokenStep(t, k, x),
                               Keeps <- LAMBDA t, k, x : Bare(t, x)

(* Taking entries out of the world keeps it sound while no goal is set.    *)
LEMMA ShrunkBare ==
  ASSUME NEW x, x.view \in SUBSET Root, NEW s, Bare(s, x), NEW w \in SUBSET s.world
  PROVE  Bare([s EXCEPT !.world = w], x)
<1> DEFINE t == [s EXCEPT !.world = w]
<1>1. s \in State(x.view) /\ WorldOK(s.world, x.inst, x.view)
  BY DEF Bare, Sound
<1>2. WorldOK(w, x.inst, x.view)
  BY <1>1, SubworldOK
<1>3. t \in State(x.view) /\ t.world = w /\ t.work = << >>
  BY <1>1, <1>2 DEF State, WorldOK, Bare
<1> HIDE DEF t
<1>4. Reachable(t) /\ Retains(t.world, {})
  BY <1>3 DEF Reachable, Retains
<1> QED BY <1>2, <1>3, <1>4 DEF Bare, Sound, t

(* So does a rejection.                                                    *)
LEMMA RejectedBare ==
  ASSUME NEW x, x.view \in SUBSET Root, NEW s, Bare(s, x), NEW why \in Reasons
  PROVE  Bare(Rejected(s, why), x)
<1>1. Sound(Rejected(s, why), x.inst, x.view, {})
  BY RejectedSound DEF Bare
<1>2. Rejected(s, why).work = s.work
  BY DEF Bare, Sound, State, Rejected
<1> QED BY <1>1, <1>2 DEF Bare

(* Removals and their cascade keep a resolution sound (applyRemovals).     *)
LEMMA RemovalsBare ==
  ASSUME NEW inst, NEW view \in SUBSET Root, NEW s, Sound(s, inst, view, {}), s.work = << >>,
         NEW T, NEW targets \in Seq(T), NEW refs, NEW cascade
  PROVE  Sound(applyRemovals(s, targets, refs, cascade), inst, view, {})
<1> DEFINE n == Len(targets)
           x == [seq |-> targets, refs |-> refs, cascade |-> cascade, inst |-> inst, view |-> view]
           m == Cardinality(s.world) + 1
           gone == FoldLeft(removeTarget, s, targets)
<1>1. n \in Nat /\ DOMAIN targets = 1 .. n
  OBVIOUS
<1>2. /\ x.seq = targets /\ x.refs = refs /\ x.cascade = cascade
      /\ x.inst = inst /\ x.view = view
  OBVIOUS
<1>3. m \in Nat
  <2>1. s.world \in SUBSET Entry(Root)
    <3>1. Entry(view) \in SUBSET Entry(Root)
      BY DEF Entry
    <3> QED BY <3>1 DEF Sound, WorldOK
  <2>2. IsFiniteSet(s.world)
    BY <2>1, FiniteEntries, FS_Subset
  <2> QED BY <2>2, FS_CardinalityType
<1> HIDE DEF x, m
<1>4. Bare(s, x)
  BY <1>2 DEF Bare
<1>5. ASSUME NEW k, NEW t, Bare(t, x) PROVE Bare(TargetStep(t, k, x), x)
  <2> DEFINE key == x.seq[k]
  <2> HIDE DEF key
  <2>1. t.world \ At(t.world, key[1], key[2]) \in SUBSET t.world
    OBVIOUS
  <2>2. Bare([t EXCEPT !.world = t.world \ At(t.world, key[1], key[2])], x)
    BY <2>1, <1>2, <1>5, ShrunkBare
  <2>3. Bare(Rejected(t, "removal-blocked"), x)
    BY <1>2, <1>5, RejectedBare DEF Reasons
  <2> QED BY <2>2, <2>3, <1>5 DEF TargetStep, removeTarget, key, Bare, Sound, State
<1>6. ASSUME NEW k, NEW t, Bare(t, x) PROVE Bare(BrokenStep(t, k, x), x)
  <2> DEFINE B == broken(t.world, refs)
  <2>1. Bare([t EXCEPT !.world = t.world \ {FirstOf(B)}], x)
    BY <1>2, <1>6, ShrunkBare
  <2>2. Bare(Rejected(t, "removal-blocked"), x)
    BY <1>2, <1>6, RejectedBare DEF Reasons
  <2> HIDE DEF B
  <2>3. Bare(dropFirst(t, B, cascade), x)
    BY <2>1, <2>2, <1>6 DEF dropFirst, Bare, Sound, State
  <2> QED BY <2>3, <1>2, <1>6 DEF BrokenStep, removeBroken, B
<1>7. Bare(gone, x)
  <2>1. Bare(LET iter[K \in SUBSET (1 .. n)] ==
                   IF K = {} THEN s
                   ELSE LET i == CHOOSE i \in K : \A j \in K : i >= j
                        IN TargetStep(iter[K \ {i}], i, x)
             IN iter[1 .. n], x)
    BY <1>1, <1>4, <1>5, Targets!FoldKeeps
  <2> DEFINE D == DOMAIN targets
  <2>2. Bare(LET iter[K \in SUBSET D] ==
                   IF K = {} THEN s
                   ELSE LET i == CHOOSE i \in K : \A j \in K : i >= j
                        IN removeTarget(iter[K \ {i}], targets[i])
             IN iter[D], x)
    <3>1. D = 1 .. n
      BY <1>1
    <3> HIDE DEF D, n
    <3> QED BY <2>1, <3>1, <1>2 DEF TargetStep
  <2> QED BY <2>2 DEF FoldLeft, MapThenFoldSet, Max
<1> HIDE DEF gone
<1>8. Bare(Iterate(LAMBDA t : removeBroken(t, refs, cascade), gone, m), x)
  <2>1. Bare(LET after[k \in 0 .. m] == IF k = 0 THEN gone ELSE BrokenStep(after[k - 1], k, x)
             IN after[m], x)
    BY <1>3, <1>6, <1>7, Cascade!LoopKeeps
  <2> QED BY <2>1, <1>2 DEF Iterate, BrokenStep
<1>9. targets = << >> \/ Bare(applyRemovals(s, targets, refs, cascade), x)
  BY <1>8 DEF applyRemovals, m, gone
<1> QED BY <1>9, <1>2 DEF applyRemovals, Bare

-----------------------------------------------------------------------------
(* goals,                                                                  *)

Requests(view) ==
  [kind : {"install", "upgrade", "downgrade", "remove"}, root : view,
   name : Name \cup {None}, ver : Nat]

SoundIn(t, x) == Sound(t, x.inst, x.view, x.base)

UpgradeStep(t, k, x) == upgradeKey(t, x.seq[k], x.available)
GoalStep(t, k, x) == applyGoal(t, x.seq[k], x.available)

Upgrades == INSTANCE Loops WITH Step <- LAMBDA t, k, x : UpgradeStep(t, k, x),
                                Keeps <- LAMBDA t, k, x : SoundIn(t, x)
Goals == INSTANCE Loops WITH Step <- LAMBDA t, k, x : GoalStep(t, k, x),
                             Keeps <- LAMBDA t, k, x : SoundIn(t, x)

(* KeySeq is a sequence.                                                   *)
LEMMA KeySeqType == KeySeq \in Seq(ToSet(KeySeq))
<1>1. Len(RootSeq) * Len(NameSeq) \in Nat
  <2>1. Len(RootSeq) \in Nat /\ Len(NameSeq) \in Nat
    BY ResolverAssumption
  <2> QED BY <2>1
<1>2. DOMAIN KeySeq = 1 .. Len(RootSeq) * Len(NameSeq)
      /\ KeySeq = [i \in 1 .. Len(RootSeq) * Len(NameSeq) |-> KeySeq[i]]
  BY DEF KeySeq
<1>3. KeySeq \in [1 .. Len(RootSeq) * Len(NameSeq) -> ToSet(KeySeq)]
  BY <1>2 DEF ToSet
<1> QED BY <1>1, <1>3

(* The upgrade of everything keeps a resolution sound.                     *)
LEMMA UpgradeAllSound ==
  ASSUME NEW inst, NEW view \in SUBSET Root, NEW base, NEW s, Sound(s, inst, view, base),
         NEW available \in SUBSET Catalog, NEW S, NEW keys \in Seq(S)
  PROVE  Sound(FoldLeft(LAMBDA t, key : upgradeKey(t, key, available), s, keys), inst, view, base)
<1> DEFINE n == Len(keys)
           D == DOMAIN keys
           x == [seq |-> keys, available |-> available, inst |-> inst, view |-> view, base |-> base]
<1>1. n \in Nat /\ D = 1 .. n
  OBVIOUS
<1>2. x.seq = keys /\ x.available = available /\ x.inst = inst /\ x.view = view /\ x.base = base
  OBVIOUS
<1> HIDE DEF x, D, n
<1>3. SoundIn(s, x)
  BY <1>2 DEF SoundIn
<1>4. ASSUME NEW k, NEW t, SoundIn(t, x) PROVE SoundIn(UpgradeStep(t, k, x), x)
  BY <1>2, <1>4, UpgradeKeySound DEF SoundIn, UpgradeStep
<1>5. SoundIn(LET iter[K \in SUBSET (1 .. n)] ==
                    IF K = {} THEN s
                    ELSE LET i == CHOOSE i \in K : \A j \in K : i >= j
                         IN UpgradeStep(iter[K \ {i}], i, x)
              IN iter[1 .. n], x)
  BY <1>1, <1>3, <1>4, Upgrades!FoldKeeps
<1>6. SoundIn(LET iter[K \in SUBSET D] ==
                    IF K = {} THEN s
                    ELSE LET i == CHOOSE i \in K : \A j \in K : i >= j
                         IN upgradeKey(iter[K \ {i}], keys[i], available)
              IN iter[D], x)
  BY <1>5, <1>1, <1>2 DEF UpgradeStep
<1>7. SoundIn(FoldLeft(LAMBDA t, key : upgradeKey(t, key, available), s, keys), x)
  BY <1>6 DEF FoldLeft, MapThenFoldSet, Max, D
<1> QED BY <1>7, <1>2 DEF SoundIn

(* Every kind of request keeps a resolution sound (applyGoal).             *)
LEMMA GoalOfSound ==
  ASSUME NEW inst, NEW view \in SUBSET Root, NEW base, NEW s, Sound(s, inst, view, base),
         NEW available \in SUBSET Catalog, NEW req \in Requests(view)
  PROVE  Sound(applyGoal(s, req, available), inst, view, base)
<1>1. req.root \in view /\ req.kind \in {"install", "upgrade", "downgrade", "remove"}
  BY DEF Requests
<1>2. Sound(installGoal(s, req, available), inst, view, base)
  <2>1. CASE At(s.world, req.root, req.name) # {}
    <3>1. PICK e \in s.world : e.root = req.root /\ e.pkg.name = req.name
      BY <2>1 DEF At
    <3>2. req.root \in Root /\ req.name \in Name
      <4>1. e \in Entry(view)
        BY <3>1 DEF Sound, WorldOK
      <4> QED BY <3>1, <4>1, EntryNames
    <3> QED BY <2>1, <3>2, GoalSound DEF installGoal
  <2>2. CASE At(s.world, req.root, req.name) = {}
    <3>1. bestForGoal(available, req.name) \in Catalog \cup {None}
      BY BestAvailable
    <3> QED BY <2>2, <3>1, <1>1, PlacedIfAnySound DEF installGoal
  <2> QED BY <2>1, <2>2
<1>3. Sound(upgradeGoal(s, req, available), inst, view, base)
  <2>1. upgradeTargets(s.world) \in Seq(ToSet(KeySeq) \cap {<<e.root, e.pkg.name>> : e \in s.world})
    BY KeySeqType, SelectFacts DEF upgradeTargets
  <2>2. Sound(FoldLeft(LAMBDA t, key : upgradeKey(t, key, available), s, upgradeTargets(s.world)),
              inst, view, base)
    BY <2>1, UpgradeAllSound
  <2>3. Sound(Rejected(s, "unsatisfiable"), inst, view, base)
    BY RejectedSound DEF Reasons
  <2>4. Sound(upgradeKey(s, <<req.root, req.name>>, available), inst, view, base)
    BY UpgradeKeySound
  <2> QED BY <2>2, <2>3, <2>4 DEF upgradeGoal
<1>4. Sound(downgradeGoal(s, req, available), inst, view, base)
  <2>1. bestNamed(available, req.name, {req.ver}) \in Catalog \cup {None}
    BY BestAvailable
  <2> QED BY <2>1, <1>1, PlacedIfAnySound DEF downgradeGoal
<1>5. applyGoal(s, req, available) \in
        {s, installGoal(s, req, available), upgradeGoal(s, req, available),
         downgradeGoal(s, req, available)}
  <2>1. CASE ~Open(s) \/ req.kind = "remove"
    BY <2>1, Zenon DEF applyGoal
  <2>2. CASE Open(s) /\ req.kind # "remove"
    BY <2>2, <1>1, Zenon DEF applyGoal
  <2> QED BY <2>1, <2>2
<1> QED BY <1>2, <1>3, <1>4, <1>5

(* So do the requests together.                                            *)
LEMMA GoalsSound ==
  ASSUME NEW inst, NEW view \in SUBSET Root, NEW base, NEW s, Sound(s, inst, view, base),
         NEW available \in SUBSET Catalog, NEW reqs \in Seq(Requests(view))
  PROVE  Sound(seedGoals(s, reqs, available), inst, view, base)
<1> DEFINE n == Len(reqs)
           D == DOMAIN reqs
           x == [seq |-> reqs, available |-> available, inst |-> inst, view |-> view, base |-> base]
<1>1. n \in Nat /\ D = 1 .. n
  OBVIOUS
<1>2. x.seq = reqs /\ x.available = available /\ x.inst = inst /\ x.view = view /\ x.base = base
  OBVIOUS
<1>3. \A k \in 1 .. n : reqs[k] \in Requests(view)
  OBVIOUS
<1> HIDE DEF x, D, n
<1>4. SoundIn(s, x)
  BY <1>2 DEF SoundIn
<1>5. ASSUME NEW k \in 1 .. n, NEW t, SoundIn(t, x) PROVE SoundIn(GoalStep(t, k, x), x)
  BY <1>2, <1>3, <1>5, GoalOfSound DEF SoundIn, GoalStep
<1>6. SoundIn(LET iter[K \in SUBSET (1 .. n)] ==
                    IF K = {} THEN s
                    ELSE LET i == CHOOSE i \in K : \A j \in K : i >= j
                         IN GoalStep(iter[K \ {i}], i, x)
              IN iter[1 .. n], x)
  BY <1>1, <1>4, <1>5, Goals!FoldKeeps
<1>7. SoundIn(LET iter[K \in SUBSET D] ==
                    IF K = {} THEN s
                    ELSE LET i == CHOOSE i \in K : \A j \in K : i >= j
                         IN applyGoal(iter[K \ {i}], reqs[i], available)
              IN iter[D], x)
  BY <1>6, <1>1, <1>2 DEF GoalStep
<1>8. SoundIn(seedGoals(s, reqs, available), x)
  BY <1>7 DEF seedGoals, FoldLeft, MapThenFoldSet, Max, D
<1> QED BY <1>8, <1>2 DEF SoundIn

-----------------------------------------------------------------------------
(* the dependencies of everything on the worklist,                         *)

ByNameStep(t, k, x) == resolveDependency(t, x.e, x.seq[k], x.available, x.refs, x.conf)

Dependencies == INSTANCE Loops WITH Step <- LAMBDA t, k, x : ByNameStep(t, k, x),
                                    Keeps <- LAMBDA t, k, x : SoundIn(t, x)

resolveName(t, name, e, available, refs, conf) ==
  FoldLeft(LAMBDA u, dep : resolveDependency(u, e, dep, available, refs, conf),
           t, DependenciesOn(e, name))

EntryStep(t, k, x) == resolveName(t, x.seq[k], x.e, x.available, x.refs, x.conf)

Names == INSTANCE Loops WITH Step <- LAMBDA t, k, x : EntryStep(t, k, x),
                             Keeps <- LAMBDA t, k, x : SoundIn(t, x)

ForwardStep(t, k, x) == resolveNext(t, x.available, x.refs, x.conf)

Worklist == INSTANCE Loops WITH Step <- LAMBDA t, k, x : ForwardStep(t, k, x),
                                Keeps <- LAMBDA t, k, x : SoundIn(t, x)

(* The dependencies of one name keep a resolution sound.                   *)
LEMMA NameSound ==
  ASSUME NEW inst, NEW view \in SUBSET Root, NEW base, NEW s, Sound(s, inst, view, base),
         NEW available \in SUBSET Catalog, NEW e \in Entry(view), NEW name,
         NEW refs, refs = None \/ refs \in SUBSET view, NEW conf
  PROVE  Sound(resolveName(s, name, e, available, refs, conf), inst, view, base)
<1> DEFINE deps == DependenciesOn(e, name)
           n == Len(deps)
           D == DOMAIN deps
           x == [seq |-> deps, e |-> e, available |-> available, refs |-> refs, conf |-> conf,
                 inst |-> inst, view |-> view, base |-> base]
<1>1. n \in Nat /\ D = 1 .. n
  <2>1. IsFiniteSet({dep \in e.pkg.deps : dep.name = name})
    <3>1. IsFiniteSet(e.pkg.deps)
      BY CommandsAssumption DEF Entry
    <3> QED BY <3>1, FS_Subset
  <2>2. deps \in Seq({dep \in e.pkg.deps : dep.name = name})
    BY <2>1, ListsSet DEF DependenciesOn
  <2> HIDE DEF deps
  <2> QED BY <2>2
<1>2. /\ x.seq = deps /\ x.e = e /\ x.available = available /\ x.refs = refs /\ x.conf = conf
      /\ x.inst = inst /\ x.view = view /\ x.base = base
  OBVIOUS
<1> HIDE DEF x, D, n, deps
<1>3. SoundIn(s, x)
  BY <1>2 DEF SoundIn
<1>4. ASSUME NEW k, NEW t, SoundIn(t, x) PROVE SoundIn(ByNameStep(t, k, x), x)
  BY <1>2, <1>4, DependencySound DEF SoundIn, ByNameStep
<1>5. SoundIn(LET iter[K \in SUBSET (1 .. n)] ==
                    IF K = {} THEN s
                    ELSE LET i == CHOOSE i \in K : \A j \in K : i >= j
                         IN ByNameStep(iter[K \ {i}], i, x)
              IN iter[1 .. n], x)
  BY <1>1, <1>3, <1>4, Dependencies!FoldKeeps
<1>6. SoundIn(LET iter[K \in SUBSET D] ==
                    IF K = {} THEN s
                    ELSE LET i == CHOOSE i \in K : \A j \in K : i >= j
                         IN resolveDependency(iter[K \ {i}], e, deps[i], available, refs, conf)
              IN iter[D], x)
  BY <1>5, <1>1, <1>2 DEF ByNameStep
<1>7. SoundIn(resolveName(s, name, e, available, refs, conf), x)
  BY <1>6 DEF resolveName, FoldLeft, MapThenFoldSet, Max, D, deps
<1> QED BY <1>7, <1>2 DEF SoundIn

(* So do all the dependencies of an entry.                                 *)
LEMMA EntrySound ==
  ASSUME NEW inst, NEW view \in SUBSET Root, NEW base, NEW s, Sound(s, inst, view, base),
         NEW available \in SUBSET Catalog, NEW e \in Entry(view),
         NEW refs, refs = None \/ refs \in SUBSET view, NEW conf
  PROVE  Sound(resolveEntry(s, e, available, refs, conf), inst, view, base)
<1> DEFINE names == DependencyNames(e, available)
           n == Len(names)
           D == DOMAIN names
           x == [seq |-> names, e |-> e, available |-> available, refs |-> refs, conf |-> conf,
                 inst |-> inst, view |-> view, base |-> base]
<1>1. n \in Nat /\ D = 1 .. n
  <2> DEFINE wanted == {dep.name : dep \in e.pkg.deps}
             offered == {c.name : c \in available}
             first == Select(NameSeq, wanted \cap offered)
             then == Select(NameSeq, wanted \ offered)
  <2>1. NameSeq \in Seq(Name)
    BY ResolverAssumption
  <2> HIDE DEF wanted, offered
  <2>2. first \in Seq(Name \cap (wanted \cap offered)) /\ then \in Seq(Name \cap (wanted \ offered))
    BY <2>1, SelectFacts
  <2>3. names = first \o then
    BY DEF DependencyNames, wanted, offered
  <2> HIDE DEF first, then, names
  <2>4. first \in Seq(Name) /\ then \in Seq(Name)
    BY <2>2
  <2> QED BY <2>3, <2>4
<1>2. /\ x.seq = names /\ x.e = e /\ x.available = available /\ x.refs = refs /\ x.conf = conf
      /\ x.inst = inst /\ x.view = view /\ x.base = base
  OBVIOUS
<1> HIDE DEF x, D, n, names
<1>3. SoundIn(s, x)
  BY <1>2 DEF SoundIn
<1>4. ASSUME NEW k, NEW t, SoundIn(t, x) PROVE SoundIn(EntryStep(t, k, x), x)
  BY <1>2, <1>4, NameSound DEF SoundIn, EntryStep
<1>5. SoundIn(LET iter[K \in SUBSET (1 .. n)] ==
                    IF K = {} THEN s
                    ELSE LET i == CHOOSE i \in K : \A j \in K : i >= j
                         IN EntryStep(iter[K \ {i}], i, x)
              IN iter[1 .. n], x)
  BY <1>1, <1>3, <1>4, Names!FoldKeeps
<1>6. SoundIn(LET iter[K \in SUBSET D] ==
                    IF K = {} THEN s
                    ELSE LET i == CHOOSE i \in K : \A j \in K : i >= j
                         IN resolveName(iter[K \ {i}], names[i], e, available, refs, conf)
              IN iter[D], x)
  BY <1>5, <1>1, <1>2 DEF EntryStep
<1>7. SoundIn(FoldLeft(LAMBDA t, name : resolveName(t, name, e, available, refs, conf), s, names), x)
  BY <1>6 DEF FoldLeft, MapThenFoldSet, Max, D
<1>8. SoundIn(resolveEntry(s, e, available, refs, conf), x)
  BY <1>7 DEF resolveEntry, resolveName, names
<1> QED BY <1>8, <1>2 DEF SoundIn

(* So does a turn of the worklist.                                         *)
LEMMA NextSound ==
  ASSUME NEW inst, NEW view \in SUBSET Root, NEW base, NEW s, Sound(s, inst, view, base),
         NEW available \in SUBSET Catalog,
         NEW refs, refs = None \/ refs \in SUBSET view, NEW conf
  PROVE  Sound(resolveNext(s, available, refs, conf), inst, view, base)
<1> DEFINE t == [s EXCEPT !.work = Tail(@), !.steps = @ + 1]
           e == The(s.world, s.work[1])
<1>1. s \in State(view)
  BY DEF Sound
<1>2. Sound(Rejected(s, "too-complex"), inst, view, base)
  BY RejectedSound DEF Reasons
<1>3. CASE s.work = << >>
  BY <1>3 DEF resolveNext
<1>4. CASE s.work # << >>
  <2>1. s.work \in Seq(Root \X Name) /\ s.steps \in Nat
    BY <1>1 DEF State
  <2>2. t \in State(view) /\ t.world = s.world /\ t.work = Tail(s.work)
    <3> DEFINE w == Tail(s.work)
    <3>1. w \in Seq(Root \X Name)
      BY <2>1, <1>4
    <3>2. t = [s EXCEPT !.work = w, !.steps = s.steps + 1]
      BY <1>1 DEF State
    <3> HIDE DEF w, t
    <3>3. t.world = s.world /\ t.work = w
      BY <3>2, <1>1 DEF State
    <3>4. t \in State(view)
      <4> DEFINE m == s.steps + 1
      <4>1. m \in Nat
        BY <2>1
      <4>2. t = [s EXCEPT !.work = w, !.steps = m]
        BY <3>2
      <4> HIDE DEF m
      <4> QED BY <3>1, <4>1, <4>2, <1>1 DEF State
    <3> QED BY <3>3, <3>4 DEF w
  <2> HIDE DEF t
  <2>3. Reachable(t)
    <3>1. \A i \in DOMAIN Tail(s.work) : i + 1 \in DOMAIN s.work /\ Tail(s.work)[i] = s.work[i + 1]
      BY <2>1, <1>4
    <3> QED BY <3>1, <2>2 DEF Sound, Reachable
  <2>4. Sound(t, inst, view, base)
    BY <2>2, <2>3 DEF Sound
  <2>5. At(s.world, s.work[1][1], s.work[1][2]) # {}
    BY <2>1, <1>4 DEF Sound, Reachable
  <2>6. e \in s.world
    BY <2>5 DEF The, At
  <2>7. e \in Entry(view)
    BY <2>6 DEF Sound, WorldOK
  <2> HIDE DEF e
  <2>8. Sound(resolveEntry(t, e, available, refs, conf), inst, view, base)
    BY <2>4, <2>7, EntrySound
  <2> QED BY <2>8, <1>2, <1>4 DEF resolveNext, t, e
<1> QED BY <1>3, <1>4

(* So does the worklist (resolveForward).                                  *)
LEMMA ForwardSound ==
  ASSUME NEW inst, NEW view \in SUBSET Root, NEW base, NEW s, Sound(s, inst, view, base),
         NEW available \in SUBSET Catalog,
         NEW refs, refs = None \/ refs \in SUBSET view, NEW conf
  PROVE  Sound(resolveForward(s, available, refs, conf), inst, view, base)
<1> DEFINE m == MaxResolveSteps + 1
           x == [available |-> available, refs |-> refs, conf |-> conf, inst |-> inst, view |-> view, base |-> base]
<1>1. m \in Nat
  BY ResolverAssumption
<1>2. /\ x.available = available /\ x.refs = refs /\ x.conf = conf
      /\ x.inst = inst /\ x.view = view /\ x.base = base
  OBVIOUS
<1> HIDE DEF x, m
<1>3. SoundIn(s, x)
  BY <1>2 DEF SoundIn
<1>4. ASSUME NEW k, NEW t, SoundIn(t, x) PROVE SoundIn(ForwardStep(t, k, x), x)
  BY <1>2, <1>4, NextSound DEF SoundIn, ForwardStep
<1>5. SoundIn(LET after[k \in 0 .. m] == IF k = 0 THEN s ELSE ForwardStep(after[k - 1], k, x)
              IN after[m], x)
  BY <1>1, <1>3, <1>4, Worklist!LoopKeeps
<1>6. SoundIn(Iterate(LAMBDA t : resolveNext(t, available, refs, conf), s, m), x)
  BY <1>5, <1>2 DEF Iterate, ForwardStep
<1> QED BY <1>6, <1>2 DEF SoundIn, resolveForward, m

-----------------------------------------------------------------------------
(* and successions.                                                        *)

LEMMA ReplacesSound ==
  ASSUME NEW inst, NEW view \in SUBSET Root, NEW s, s \in State(view), WorldOK(s.world, inst, view),
         NEW conf
  PROVE  LET t == applyReplaces(s, conf) IN t \in State(view) /\ WorldOK(t.world, inst, view)
<1> DEFINE t == applyReplaces(s, conf)
           w == s.world \ {pv[2] : pv \in takeovers(s.world)}
           a == {[kind |-> "foreign-replaces", name |-> pv[1].pkg.name] :
                   pv \in {p \in takeovers(s.world) : foreign(p, conf)}}
<1>1. w \in SUBSET s.world
  OBVIOUS
<1>2. a \in SUBSET Authorization
  <2> SUFFICES ASSUME NEW pv \in takeovers(s.world)
               PROVE  [kind |-> "foreign-replaces", name |-> pv[1].pkg.name] \in Authorization
    OBVIOUS
  <2>1. pv \in s.world \X s.world
    BY DEF takeovers
  <2>2. pv[1] \in Entry(view)
    BY <2>1 DEF WorldOK
  <2>3. pv[1].pkg.name \in Name
    BY <2>2, EntryNames
  <2> QED BY <2>3 DEF Authorization
<1>3. t = IF Open(s) THEN [s EXCEPT !.world = w, !.auths = @ \cup a] ELSE s
  BY DEF applyReplaces, State
<1> HIDE DEF t, w, a
<1>4. WorldOK(w, inst, view)
  BY <1>1, SubworldOK
<1>5. w \in SUBSET Entry(view)
  BY <1>4 DEF WorldOK
<1>6. t \in State(view) /\ (t.world = w \/ t.world = s.world)
  BY <1>2, <1>3, <1>5 DEF State
<1> QED BY <1>4, <1>6 DEF t

-----------------------------------------------------------------------------
(* The walk that orders a plan visits every entry or finds a cycle: each   *)
(* turn but the last pushes an entry or takes one off the stack for good.  *)

WalkState(S) == [stack : Seq(S), out : Seq(S), cycle : BOOLEAN]

(* A list without repetition in which what an entry may depend on precedes *)
(* it.                                                                     *)
Laid(seq, S, refs) ==
  /\ \A i, j \in 1 .. Len(seq) : seq[i] = seq[j] => i = j
  /\ \A i \in 1 .. Len(seq) : \A f \in dependenciesAmong(S, seq[i], refs) :
       \E j \in 1 .. i - 1 : seq[j] = f

WalkOK(t, k, x) ==
  /\ t \in WalkState(x.S) /\ Laid(t.out, x.S, x.refs)
  /\ ToSet(t.stack) \cap ToSet(t.out) = {}
  /\ \A i, j \in 1 .. Len(t.stack) : t.stack[i] = t.stack[j] => i = j
  /\ Cardinality(ToSet(t.stack)) = Len(t.stack) /\ Cardinality(ToSet(t.out)) = Len(t.out)
  /\ \/ t.cycle
     \/ t.stack = << >> /\ ToSet(t.out) = x.S
     \/ 2 * Len(t.out) + Len(t.stack) = k

WalkStep(t, k, x) == visit(t, unvisited(t, x.S, x.refs))

Walk == INSTANCE Loops WITH Step <- LAMBDA t, k, x : WalkStep(t, k, x),
                            Keeps <- LAMBDA t, k, x : WalkOK(t, k, x)

(* A turn of the walk: an entry is pushed, or one is done, or a cycle is   *)
(* found.                                                                  *)
LEMMA WalkStepOK ==
  ASSUME NEW x, x.S \in SUBSET Entry(Root), OneEach(x.S), IsFiniteSet(x.S),
         NEW k \in Nat \ {0}, NEW t, WalkOK(t, k - 1, x)
  PROVE  WalkOK(WalkStep(t, k, x), k, x)
<1> DEFINE next == unvisited(t, x.S, x.refs)
           K == ToSet(t.stack)
           O == ToSet(t.out)
           e == FirstOf(next)
           u == visit(t, next)
<1>1. t \in WalkState(x.S) /\ t.stack \in Seq(x.S) /\ t.out \in Seq(x.S) /\ t.cycle \in BOOLEAN
  BY DEF WalkOK, WalkState
<1>2. K \in SUBSET x.S /\ O \in SUBSET x.S /\ IsFiniteSet(K) /\ IsFiniteSet(O)
  <2>1. K \in SUBSET x.S /\ O \in SUBSET x.S
    BY <1>1, SetOfSeq
  <2> QED BY <2>1, FS_Subset
<1>3. next \in SUBSET x.S /\ next \cap O = {}
  BY DEF unvisited, dependenciesAmong
<1>4. t.stack = << >> => next = x.S \ O
  BY DEF unvisited
<1>5. Len(t.stack) \in Nat /\ Len(t.out) \in Nat
  BY <1>1
<1> HIDE DEF next
<1>6. CASE t.cycle \/ (t.stack = << >> /\ next = {})
  <2>1. u = t
    BY <1>6 DEF visit
  <2>2. t.cycle \/ (t.stack = << >> /\ O = x.S)
    BY <1>2, <1>4, <1>6
  <2> QED BY <2>1, <2>2 DEF WalkOK, WalkStep, next
<1>7. CASE ~(t.cycle \/ (t.stack = << >> /\ next = {}))
  <2>1. 2 * Len(t.out) + Len(t.stack) = k - 1
    <3>1. t.stack = << >> /\ O = x.S => next = {}
      BY <1>4
    <3> QED BY <1>7, <3>1 DEF WalkOK
  <2>2. CASE next = {}
    <3> DEFINE top == Last(t.stack)
    <3>1. t.stack # << >>
      BY <1>7, <2>2
    <3>2. \A i, j \in 1 .. Len(t.stack) : t.stack[i] = t.stack[j] => i = j
      BY DEF WalkOK
    <3>3. /\ Front(t.stack) \in Seq(x.S) /\ Len(Front(t.stack)) = Len(t.stack) - 1
          /\ top \in K /\ ToSet(Front(t.stack)) = K \ {top}
          /\ \A i, j \in 1 .. Len(Front(t.stack)) : Front(t.stack)[i] = Front(t.stack)[j] => i = j
      BY <1>1, <3>1, <3>2, FrontOf
    <3>4. u = [t EXCEPT !.stack = Front(t.stack), !.out = Append(t.out, top)]
      BY <1>1, <1>7, <2>2 DEF visit, WalkState
    <3> DEFINE front == Front(t.stack)
               out == Append(t.out, top)
    <3>5. top \in x.S
      BY <3>3, <1>2
    <3>6. out \in Seq(x.S) /\ ToSet(out) = O \cup {top} /\ Len(out) = Len(t.out) + 1
      <4> HIDE DEF top
      <4>1. t.out \in Seq(x.S) /\ top \in x.S
        BY <1>1, <3>5
      <4> DEFINE T == x.S
                 q == t.out
      <4> HIDE DEF T, q
      <4>2. q \in Seq(T) /\ top \in T
        BY <4>1 DEF T, q
      <4>3. /\ Append(q, top) \in Seq(T) /\ Len(Append(q, top)) = Len(q) + 1
            /\ ToSet(Append(q, top)) = ToSet(q) \cup {top}
        BY <4>2, AppendFacts
      <4> QED BY <4>3 DEF T, q
    <3> HIDE DEF top
    <3>15. Laid(out, x.S, x.refs)
      <4> DEFINE n == Len(t.out)
                 q == t.out
      <4>1. n \in Nat /\ \A i \in 1 .. n : q[i] \in O
        BY <1>1 DEF ToSet
      <4>2. Len(out) = n + 1 /\ out[n + 1] = top /\ \A i \in 1 .. n : out[i] = q[i]
        BY <1>1, <3>6
      <4>3. top \notin O
        BY <3>3 DEF WalkOK
      <4>4. dependenciesAmong(x.S, top, x.refs) \in SUBSET O
        <5>1. next = dependenciesAmong(x.S, top, x.refs) \ O
          BY <3>1 DEF unvisited, next, top
        <5> HIDE DEF next, O
        <5> QED BY <5>1, <2>2
      <4>5. \A f \in O : \E j \in 1 .. n : q[j] = f
        BY <1>1 DEF ToSet
      <4>6. /\ \A i, j \in 1 .. n : q[i] = q[j] => i = j
            /\ \A i \in 1 .. n : \A f \in dependenciesAmong(x.S, q[i], x.refs) :
                 \E j \in 1 .. i - 1 : q[j] = f
        BY DEF WalkOK, Laid
      <4> HIDE DEF n, q, out, O
      <4>7. \A i \in 1 .. n + 1 : i = n + 1 \/ i \in 1 .. n
        BY <4>1
      <4>8. \A i, j \in 1 .. n + 1 : out[i] = out[j] => i = j
        BY <4>1, <4>2, <4>3, <4>6, <4>7
      <4>9. ASSUME NEW i \in 1 .. n + 1, NEW f \in dependenciesAmong(x.S, out[i], x.refs)
            PROVE  \E j \in 1 .. i - 1 : out[j] = f
        <5>1. CASE i = n + 1
          <6>1. PICK j \in 1 .. n : q[j] = f
            BY <4>2, <4>4, <4>5, <4>9, <5>1
          <6> QED BY <6>1, <5>1, <4>1, <4>2
        <5>2. CASE i \in 1 .. n
          <6>1. PICK j \in 1 .. i - 1 : q[j] = f
            BY <4>2, <4>6, <4>9, <5>2
          <6>2. j \in 1 .. n
            BY <4>1, <5>2
          <6> QED BY <6>1, <6>2, <4>2
        <5> QED BY <5>1, <5>2, <4>7
      <4> QED BY <4>2, <4>8, <4>9 DEF Laid
    <3> HIDE DEF u, front, out
    <3>7. u.stack = front /\ u.out = out /\ u.cycle = t.cycle /\ u \in WalkState(x.S)
      BY <1>1, <3>3, <3>4, <3>6 DEF WalkState, front, out
    <3>8. K \cap O = {}
      BY DEF WalkOK
    <3>9. Cardinality(K \ {top}) = Cardinality(K) - 1
      BY <1>2, <3>3, FS_RemoveElement
    <3>10. Cardinality(O \cup {top}) = Cardinality(O) + 1
      BY <1>2, <3>3, <3>8, FS_AddElement
    <3>11. Cardinality(ToSet(front)) = Len(front) /\ Cardinality(ToSet(out)) = Len(out)
      BY <3>3, <3>6, <3>9, <3>10 DEF WalkOK, front
    <3>12. ToSet(front) \cap ToSet(out) = {}
      BY <3>3, <3>6, <3>8 DEF front
    <3>13. 2 * Len(out) + Len(front) = k
      <4>1. Len(front) = Len(t.stack) - 1 /\ Len(out) = Len(t.out) + 1
        BY <3>3, <3>6 DEF front
      <4> DEFINE a == Len(t.out)
                 b == Len(t.stack)
      <4>2. a \in Nat /\ b \in Nat /\ 2 * a + b = k - 1
        BY <2>1, <1>5
      <4> HIDE DEF a, b
      <4>3. 2 * (a + 1) + (b - 1) = k
        BY <4>2
      <4> QED BY <4>1, <4>3 DEF a, b
    <3>14. \A i, j \in 1 .. Len(front) : front[i] = front[j] => i = j
      BY <3>3 DEF front
    <3> QED BY <3>7, <3>11, <3>12, <3>13, <3>14, <3>15 DEF WalkOK, WalkStep, u, next
  <2>3. CASE next # {} /\ e \in K
    <3>1. u = [t EXCEPT !.cycle = TRUE]
      BY <1>7, <2>3 DEF visit
    <3> HIDE DEF u
    <3>2. u \in WalkState(x.S) /\ u.stack = t.stack /\ u.out = t.out /\ u.cycle
      BY <1>1, <3>1 DEF WalkState
    <3> QED BY <3>2 DEF WalkOK, WalkStep, u, next
  <2>4. CASE next # {} /\ e \notin K
    <3>1. e \in next
      <4>1. next \in SUBSET Entry(Root) /\ OneEach(next)
        BY <1>3 DEF OneEach
      <4> QED BY <4>1, <2>4, FirstIn
    <3> DEFINE stack == Append(t.stack, e)
    <3>2. u = [t EXCEPT !.stack = stack]
      BY <1>1, <1>7, <2>4 DEF visit, WalkState
    <3>3. e \in x.S /\ e \notin O
      BY <1>3, <3>1
    <3> HIDE DEF e
    <3>4. stack \in Seq(x.S) /\ ToSet(stack) = K \cup {e} /\ Len(stack) = Len(t.stack) + 1
      <4>1. t.stack \in Seq(x.S) /\ e \in x.S
        BY <1>1, <3>3
      <4> DEFINE T == x.S
                 q == t.stack
      <4> HIDE DEF T, q
      <4>2. q \in Seq(T) /\ e \in T
        BY <4>1 DEF T, q
      <4>3. /\ Append(q, e) \in Seq(T) /\ Len(Append(q, e)) = Len(q) + 1
            /\ ToSet(Append(q, e)) = ToSet(q) \cup {e}
        BY <4>2, AppendFacts
      <4> QED BY <4>3 DEF T, q
    <3>5. \A i, j \in 1 .. Len(stack) : stack[i] = stack[j] => i = j
      <4>1. \A i \in 1 .. Len(t.stack) : stack[i] = t.stack[i] /\ t.stack[i] \in K
        BY <1>1 DEF ToSet
      <4>2. stack[Len(t.stack) + 1] = e
        BY <1>1
      <4>3. \A i, j \in 1 .. Len(t.stack) : t.stack[i] = t.stack[j] => i = j
        BY DEF WalkOK
      <4> HIDE DEF stack
      <4> QED BY <4>1, <4>2, <4>3, <3>4, <2>4, <1>5
    <3> HIDE DEF u, stack
    <3>6. u \in WalkState(x.S) /\ u.stack = stack /\ u.out = t.out /\ u.cycle = t.cycle
      BY <1>1, <3>2, <3>4 DEF WalkState
    <3>7. Cardinality(K \cup {e}) = Cardinality(K) + 1
      BY <1>2, <2>4, FS_AddElement
    <3>8. Cardinality(ToSet(stack)) = Len(stack) /\ ToSet(stack) \cap O = {}
      BY <3>3, <3>4, <3>7 DEF WalkOK
    <3>9. 2 * Len(t.out) + Len(stack) = k
      <4>1. Len(stack) = Len(t.stack) + 1
        BY <3>4
      <4> DEFINE a == Len(t.out)
                 b == Len(t.stack)
      <4>2. a \in Nat /\ b \in Nat /\ 2 * a + b = k - 1
        BY <2>1, <1>5
      <4> HIDE DEF a, b
      <4>3. 2 * a + (b + 1) = k
        BY <4>2
      <4> QED BY <4>1, <4>3 DEF a, b
    <3> QED BY <3>5, <3>6, <3>8, <3>9 DEF WalkOK, WalkStep, u, next
  <2> QED BY <2>2, <2>3, <2>4
<1> QED BY <1>6, <1>7

(* topoSort lists every entry, in order, unless it reports a cycle.        *)
LEMMA SortedAll ==
  ASSUME NEW S \in SUBSET Entry(Root), OneEach(S), NEW refs
  PROVE  LET t == topoSort(S, refs)
         IN /\ t.cycle \in BOOLEAN /\ t.out \in Seq(S) /\ (~t.cycle => ToSet(t.out) = S)
            /\ Laid(t.out, S, refs)
<1> DEFINE x == [S |-> S, refs |-> refs]
           m == 2 * Cardinality(S) + 1
           s == [stack |-> << >>, out |-> << >>, cycle |-> FALSE]
           t == topoSort(S, refs)
<1>1. IsFiniteSet(S) /\ Cardinality(S) \in Nat
  <2>1. IsFiniteSet(S)
    BY FiniteEntries, FS_Subset
  <2> QED BY <2>1, FS_CardinalityType
<1>2. m \in Nat
  BY <1>1
<1>3. x.S = S /\ x.refs = refs
  OBVIOUS
<1>4. WalkOK(s, 0, x)
  <2>1. ToSet(<< >>) = {} /\ Cardinality({}) = 0
    BY FS_EmptySet DEF ToSet
  <2>2. s \in WalkState(S)
    BY DEF WalkState
  <2>3. s.stack = << >> /\ s.out = << >> /\ Len(<< >>) = 0
    OBVIOUS
  <2>4. 2 * Len(s.out) + Len(s.stack) = 0
    BY <2>3
  <2> HIDE DEF s, x
  <2>5. \A i, j \in 1 .. Len(s.stack) : s.stack[i] = s.stack[j] => i = j
    BY <2>3
  <2>6. Laid(s.out, S, refs)
    BY <2>3 DEF Laid
  <2> QED BY <2>1, <2>2, <2>3, <2>4, <2>5, <2>6, <1>3 DEF WalkOK
<1> HIDE DEF x
<1>5. ASSUME NEW k \in 1 .. m, NEW u, WalkOK(u, k - 1, x) PROVE WalkOK(WalkStep(u, k, x), k, x)
  BY <1>1, <1>2, <1>3, <1>5, WalkStepOK
<1> HIDE DEF m, s
<1>6. WalkOK(LET after[k \in 0 .. m] == IF k = 0 THEN s ELSE WalkStep(after[k - 1], k, x)
             IN after[m], m, x)
  BY <1>2, <1>4, <1>5, Walk!LoopKeeps
<1>7. WalkOK(Iterate(LAMBDA u : visit(u, unvisited(u, S, refs)), s, m), m, x)
  BY <1>6, <1>3 DEF Iterate, WalkStep
<1>8. WalkOK(t, m, x)
  BY <1>7 DEF topoSort, s, m
<1> HIDE DEF t
<1>9. t.stack \in Seq(S) /\ t.out \in Seq(S) /\ t.cycle \in BOOLEAN
  BY <1>8, <1>3 DEF WalkOK, WalkState
<1>10. 2 * Len(t.out) + Len(t.stack) # m
  <2> DEFINE K == ToSet(t.stack)
             O == ToSet(t.out)
  <2>1. K \in SUBSET S /\ O \in SUBSET S
    BY <1>9, SetOfSeq
  <2>2. IsFiniteSet(K) /\ IsFiniteSet(O) /\ K \cap O = {}
    BY <2>1, <1>1, <1>8, FS_Subset DEF WalkOK
  <2>3. Cardinality(K \cup O) = Len(t.stack) + Len(t.out)
    <3>1. Cardinality(K \cap O) = 0
      BY <2>2, FS_EmptySet
    <3>2. Cardinality(K) = Len(t.stack) /\ Cardinality(O) = Len(t.out)
      BY <1>8 DEF WalkOK
    <3>3. Cardinality(K \cup O) = Cardinality(K) + Cardinality(O) - Cardinality(K \cap O)
      BY <2>2, FS_Union
    <3> QED BY <3>1, <3>2, <3>3, <1>9
  <2>4. Cardinality(K \cup O) <= Cardinality(S)
    <3>1. K \cup O \in SUBSET S
      BY <2>1
    <3> QED BY <3>1, <1>1, FS_Subset
  <2>5. Len(t.stack) \in Nat /\ Len(t.out) \in Nat
    BY <1>9
  <2> DEFINE a == Len(t.out)
             b == Len(t.stack)
             c == Cardinality(S)
  <2>6. a \in Nat /\ b \in Nat /\ c \in Nat /\ b + a <= c
    BY <2>3, <2>4, <2>5, <1>1
  <2>7. m = 2 * c + 1
    BY DEF m
  <2> HIDE DEF a, b, c, m
  <2>8. 2 * a + b # m
    BY <2>6, <2>7
  <2> QED BY <2>8 DEF a, b
<1>11. ~t.cycle => ToSet(t.out) = S
  BY <1>8, <1>10, <1>3 DEF WalkOK
<1>12. Laid(t.out, S, refs)
  BY <1>8, <1>3 DEF WalkOK
<1> QED BY <1>9, <1>11, <1>12 DEF t

-----------------------------------------------------------------------------
(* The plan. *)

(* What a resolution plans: operations of the roots it has been given.     *)
Named(op) == /\ op.to # None => op.to.name = op.name
             /\ op.kind # "install" => op.from \in Catalog

Planned(view) == {op \in Operation : op.root \in view /\ Named(op)}

(* The operation an entry gives is of a root the resolution has been       *)
(* given.                                                                  *)
LEMMA PlannedOps ==
  ASSUME NEW view \in SUBSET Root
  PROVE  \A e \in Entry(view) : removal(e) \in Planned(view) /\ forward(e) \in Planned(view)
<1> TAKE e \in Entry(view)
<1>1. /\ e.root \in view /\ e.root \in Root /\ e.pkg \in Catalog /\ e.pkg.name \in Name
      /\ e.was \in Catalog \cup {None} /\ e.pkg # None
  BY EntryNames, CommandsAssumption DEF Entry
<1>2. removal(e) \in Planned(view)
  BY <1>1 DEF removal, Planned, Operation, Named
<1>3. OpKind(e) \in {"install", "upgrade", "downgrade"} /\ (OpKind(e) # "install" => e.was # None)
  BY DEF OpKind
<1>4. forward(e) \in Planned(view)
  BY <1>1, <1>3 DEF forward, Planned, Operation, Named
<1> QED BY <1>2, <1>4

(* So are those of a list of entries.                                      *)
LEMMA MappedOps ==
  ASSUME NEW view \in SUBSET Root, NEW t \in Seq(Entry(view))
  PROVE  /\ Map(removal, t) \in Seq(Planned(view)) /\ ToSet(Map(removal, t)) = {removal(e) : e \in ToSet(t)}
         /\ Map(forward, t) \in Seq(Planned(view)) /\ ToSet(Map(forward, t)) = {forward(e) : e \in ToSet(t)}
<1>1. DOMAIN t = 1 .. Len(t) /\ Len(t) \in Nat /\ \A i \in 1 .. Len(t) : t[i] \in Entry(view)
  OBVIOUS
<1>2. /\ Map(removal, t) = [i \in 1 .. Len(t) |-> removal(t[i])]
      /\ Map(forward, t) = [i \in 1 .. Len(t) |-> forward(t[i])]
  BY <1>1 DEF Map
<1>3. /\ Map(removal, t) \in [1 .. Len(t) -> Planned(view)]
      /\ Map(forward, t) \in [1 .. Len(t) -> Planned(view)]
  BY <1>1, <1>2, PlannedOps
<1>4. Map(removal, t) \in Seq(Planned(view)) /\ Map(forward, t) \in Seq(Planned(view))
  BY <1>1, <1>3
<1>5. /\ ToSet(Map(removal, t)) = {removal(e) : e \in ToSet(t)}
      /\ ToSet(Map(forward, t)) = {forward(e) : e \in ToSet(t)}
  BY <1>1, <1>2 DEF ToSet
<1> QED BY <1>4, <1>5

(* The operations that turn what is installed into a world.                *)
Changes(world, inst) ==
  {removal(e) : e \in removedEntries(world, inst)} \cup {forward(e) : e \in forwardEntries(world)}

(* Removals come first, dependents before what they depend on, then the    *)
(* packages put in place, dependencies first.                              *)
Arranged(ops, world, inst, refs) ==
  LET R == removedEntries(world, inst)
      F == forwardEntries(world)
  IN \E gone \in Seq(R), come \in Seq(F) :
       /\ Laid(gone, R, refs) /\ Laid(come, F, refs)
       /\ ToSet(gone) = R /\ ToSet(come) = F
       /\ ops = Map(removal, Reverse(gone)) \o Map(forward, come)

PlanType(view) ==
  [reason : Reasons \cup {None, "alternate-upgrade"}, ops : Seq(Planned(view)), auths : SUBSET Authorization]

(* A plan that is not rejected has exactly the operations that turn what   *)
(* is installed into the world, in order (buildPlan).                      *)
LEMMA PlanOK ==
  ASSUME NEW inst, NEW view, Given(inst, view), NEW s, s \in State(view),
         WorldOK(s.world, inst, view), NEW refs
  PROVE  LET plan == buildPlan(s, inst, refs)
         IN /\ plan \in PlanType(view)
            /\ plan.reason = None => /\ Open(s) /\ ToSet(plan.ops) = Changes(s.world, inst)
                                     /\ Arranged(plan.ops, s.world, inst, refs)
<1> DEFINE plan == buildPlan(s, inst, refs)
           R == removedEntries(s.world, inst)
           F == forwardEntries(s.world)
           gone == topoSort(R, refs)
           come == topoSort(F, refs)
<1>1. view \in SUBSET Root /\ Entry(view) \in SUBSET Entry(Root)
  BY DEF Given, Entry
<1>2. s.reason \in Reasons \cup {None} /\ s.auths \in SUBSET Authorization
  BY DEF State
<1>3. ASSUME NEW why \in Reasons PROVE NoPlan(why) \in PlanType(view) /\ NoPlan(why).reason # None
  <2>1. why # None
    BY ResolverAssumption
  <2>2. << >> \in Seq(Planned(view))
    OBVIOUS
  <2> QED BY <2>1, <2>2 DEF NoPlan, PlanType
<1>4. R \in SUBSET Entry(view) /\ OneEach(R)
  <2>1. WorldOK(InstalledWorld(inst), inst, view)
    BY InstalledEntries
  <2>2. R \in SUBSET InstalledWorld(inst)
    BY DEF removedEntries
  <2> QED BY <2>1, <2>2 DEF WorldOK, OneEach
<1>5. F \in SUBSET Entry(view) /\ OneEach(F)
  BY DEF forwardEntries, WorldOK, OneEach
<1> HIDE DEF R, F
<1>6. /\ gone.cycle \in BOOLEAN /\ gone.out \in Seq(R) /\ (~gone.cycle => ToSet(gone.out) = R)
      /\ come.cycle \in BOOLEAN /\ come.out \in Seq(F) /\ (~come.cycle => ToSet(come.out) = F)
      /\ Laid(gone.out, R, refs) /\ Laid(come.out, F, refs)
  <2>1. R \in SUBSET Entry(Root) /\ F \in SUBSET Entry(Root)
    BY <1>1, <1>4, <1>5
  <2> QED BY <2>1, <1>4, <1>5, SortedAll
<1> HIDE DEF gone, come
<1>7. CASE ~Open(s)
  <2>1. plan = NoPlan(s.reason) /\ s.reason \in Reasons
    BY <1>2, <1>7 DEF buildPlan, Open
  <2> QED BY <2>1, <1>3
<1>8. CASE Open(s) /\ (gone.cycle \/ come.cycle)
  <2>1. plan = NoPlan("cycle")
    BY <1>8 DEF buildPlan, planOf, gone, come, R, F
  <2> QED BY <2>1, <1>3 DEF Reasons
<1>9. CASE Open(s) /\ ~gone.cycle /\ ~come.cycle
  <2> DEFINE out == Map(removal, Reverse(gone.out))
             in == Map(forward, come.out)
             auths == elevations(in, s.auths)
  <2>1. gone.out \in Seq(Entry(view)) /\ come.out \in Seq(Entry(view))
    BY <1>4, <1>5, <1>6
  <2>2. Reverse(gone.out) \in Seq(Entry(view)) /\ ToSet(Reverse(gone.out)) = R
    <3> DEFINE t == gone.out
    <3>1. t \in Seq(Entry(view)) /\ ToSet(t) = R
      BY <2>1, <1>6, <1>9
    <3> HIDE DEF t
    <3>2. Reverse(t) \in Seq(Entry(view)) /\ ToSet(Reverse(t)) = R
      BY <3>1, ReverseSet
    <3> QED BY <3>2 DEF t
  <2>3. /\ out \in Seq(Planned(view)) /\ ToSet(out) = {removal(e) : e \in R}
        /\ in \in Seq(Planned(view)) /\ ToSet(in) = {forward(e) : e \in F}
    <3> DEFINE t == come.out
               u == Reverse(gone.out)
    <3>1. t \in Seq(Entry(view)) /\ ToSet(t) = F /\ u \in Seq(Entry(view)) /\ ToSet(u) = R
      BY <2>1, <2>2, <1>6, <1>9
    <3> HIDE DEF t, u
    <3>2. /\ Map(removal, u) \in Seq(Planned(view)) /\ ToSet(Map(removal, u)) = {removal(e) : e \in ToSet(u)}
          /\ Map(forward, t) \in Seq(Planned(view)) /\ ToSet(Map(forward, t)) = {forward(e) : e \in ToSet(t)}
      BY <1>1, <3>1, MappedOps
    <3> QED BY <3>1, <3>2 DEF t, u
  <2>4. plan = [reason |-> None, ops |-> out \o in, auths |-> auths]
    BY <1>9 DEF buildPlan, planOf, gone, come, R, F
  <2>7. Arranged(out \o in, s.world, inst, refs)
    <3> DEFINE t == come.out
               u == gone.out
    <3>1. /\ u \in Seq(R) /\ t \in Seq(F) /\ ToSet(u) = R /\ ToSet(t) = F
          /\ Laid(u, R, refs) /\ Laid(t, F, refs)
          /\ out \o in = Map(removal, Reverse(u)) \o Map(forward, t)
      BY <1>6, <1>9
    <3> HIDE DEF t, u, out, in
    <3> QED BY <3>1 DEF Arranged, R, F
  <2> HIDE DEF out, in
  <2>5. out \o in \in Seq(Planned(view)) /\ ToSet(out \o in) = Changes(s.world, inst)
    <3>1. out \o in \in Seq(Planned(view)) /\ ToSet(out \o in) = ToSet(out) \cup ToSet(in)
      BY <2>3, JoinedSet
    <3> QED BY <3>1, <2>3 DEF Changes, R, F
  <2>6. auths \in SUBSET Authorization
    <3>1. \A op \in ToSet(in) : op.name \in Name
      BY <2>3 DEF ToSet, Planned, Operation
    <3>2. \A op \in ToSet(in) : [kind |-> "downgrade", name |-> op.name] \in Authorization
      BY <3>1 DEF Authorization
    <3> QED BY <3>2, <1>2 DEF elevations
  <2> HIDE DEF auths
  <2> QED BY <2>4, <2>5, <2>6, <2>7, <1>9 DEF PlanType
<1> QED BY <1>6, <1>7, <1>8, <1>9

-----------------------------------------------------------------------------
(* A resolution as a whole.                                                *)

(* The world a plan leads to: nothing in it is missing or in conflict.     *)
Achieves(ops, inst, view, refs) ==
  \E world \in SUBSET Entry(view) :
    /\ WorldOK(world, inst, view)
    /\ ~conflictIn(world) /\ ~unmetDependency(world, refs)
    /\ ToSet(ops) = Changes(world, inst) /\ Arranged(ops, world, inst, refs)

Resolution(plan, inst, view, refs) ==
  /\ plan \in PlanType(view)
  /\ plan.reason = None => plan.ops = << >> \/ Achieves(plan.ops, inst, view, refs)

(* What passes the checks has no conflict and no unmet dependency          *)
(* (checkConsistency).                                                     *)
LEMMA CheckedOK ==
  ASSUME NEW inst, NEW view \in SUBSET Root, NEW s, s \in State(view), WorldOK(s.world, inst, view),
         NEW refs, NEW opts, NEW allowed
  PROVE  LET t == checkConsistency(s, refs, opts, allowed)
         IN /\ t \in State(view) /\ WorldOK(t.world, inst, view)
            /\ Open(t) => ~conflictIn(t.world) /\ ~unmetDependency(t.world, refs)
<1> DEFINE t == checkConsistency(s, refs, opts, allowed)
<1>1. ASSUME NEW why \in Reasons
      PROVE  /\ Rejected(s, why) \in State(view) /\ Rejected(s, why).world = s.world
             /\ ~Open(Rejected(s, why))
  <2>1. why # None
    BY ResolverAssumption
  <2> QED BY <2>1 DEF Rejected, State, Open
<1>2. \/ t = s /\ (Open(s) => ~conflictIn(s.world) /\ ~unmetDependency(s.world, refs))
      \/ \E why \in Reasons : t = Rejected(s, why)
  BY DEF checkConsistency, Reasons
<1> HIDE DEF t
<1>3. CASE t = s /\ (Open(s) => ~conflictIn(s.world) /\ ~unmetDependency(s.world, refs))
  BY <1>3 DEF t
<1>4. CASE \E why \in Reasons : t = Rejected(s, why)
  BY <1>4, <1>1 DEF t
<1> QED BY <1>2, <1>3, <1>4

(* The keys of the removals asked for.                                     *)
LEMMA RemovalKeys ==
  ASSUME NEW T, NEW reqs \in Seq(T)
  PROVE  Keys(Asked(reqs, "remove")) \in Seq({<<q.root, q.name>> : q \in ToSet(reqs)})
<1> DEFINE R == {q \in ToSet(reqs) : q.kind = "remove"}
           a == Asked(reqs, "remove")
<1>1. a = Select(reqs, R)
  BY DEF Asked
<1> HIDE DEF R, a
<1>2. reqs \in Seq(ToSet(reqs))
  BY DEF ToSet
<1>3. Select(reqs, R) \in Seq(ToSet(reqs) \cap R)
  BY <1>2, SelectFacts
<1>4. a \in Seq(ToSet(reqs))
  BY <1>1, <1>3
<1>5. Len(a) \in Nat /\ DOMAIN a = 1 .. Len(a) /\ \A i \in 1 .. Len(a) : a[i] \in ToSet(reqs)
  BY <1>4
<1>6. Keys(a) \in [1 .. Len(a) -> {<<q.root, q.name>> : q \in ToSet(reqs)}]
  BY <1>5 DEF Keys, Map
<1>7. Keys(a) \in Seq({<<q.root, q.name>> : q \in ToSet(reqs)})
  BY <1>5, <1>6
<1> QED BY <1>7 DEF a

(* So a resolution is rejected, or achieves a world with neither.          *)
LEMMA ResolveOK ==
  ASSUME NEW inst, NEW view, Given(inst, view), NEW reqs \in Seq(Requests(view)),
         NEW available \in SUBSET Catalog,
         NEW refs, refs = None \/ refs \in SUBSET view, NEW conf, NEW opts
  PROVE  Resolution(Resolve(reqs, inst, available, refs, conf, opts), inst, view, refs)
<1> DEFINE s0 == Fresh(inst)
           keys == Keys(Asked(reqs, "remove"))
           s1 == applyRemovals(s0, keys, refs, opts.cascade)
           s2 == seedGoals(s1, reqs, available)
           s3 == resolveForward(s2, available, refs, conf)
           s4 == applyReplaces(s3, conf)
           allowed == ToSet(Keys(Asked(reqs, "downgrade")))
           s5 == checkConsistency(s4, refs, opts, allowed)
           plan == buildPlan(s5, inst, refs)
<1>1. view \in SUBSET Root
  BY DEF Given
<1>2. Sound(s0, inst, view, {}) /\ s0.work = << >>
  <2>1. WorldOK(InstalledWorld(inst), inst, view)
    BY InstalledEntries
  <2>2. s0 \in State(view)
    <3>1. InstalledWorld(inst) \in SUBSET Entry(view)
      BY <2>1 DEF WorldOK
    <3>2. << >> \in Seq(Root \X Name)
      OBVIOUS
    <3> QED BY <3>1, <3>2 DEF Fresh, State
  <2>3. s0.world = InstalledWorld(inst) /\ s0.work = << >>
    BY DEF Fresh
  <2> HIDE DEF s0
  <2> QED BY <2>1, <2>2, <2>3 DEF Sound, Reachable, Retains
<1>3. keys \in Seq({<<q.root, q.name>> : q \in ToSet(reqs)})
  BY RemovalKeys
<1> HIDE DEF s0, keys
<1>4. Sound(s1, inst, view, {})
  BY <1>1, <1>2, <1>3, RemovalsBare
<1> HIDE DEF s1
<1>5. Sound(s2, inst, view, {})
  BY <1>1, <1>4, GoalsSound
<1> HIDE DEF s2
<1>6. Sound(s3, inst, view, {})
  BY <1>1, <1>5, ForwardSound
<1> HIDE DEF s3
<1>7. s4 \in State(view) /\ WorldOK(s4.world, inst, view)
  BY <1>1, <1>6, ReplacesSound DEF Sound
<1> HIDE DEF s4, allowed
<1>8. /\ s5 \in State(view) /\ WorldOK(s5.world, inst, view)
      /\ Open(s5) => ~conflictIn(s5.world) /\ ~unmetDependency(s5.world, refs)
  BY <1>1, <1>7, CheckedOK
<1> HIDE DEF s5
<1>9. plan \in PlanType(view) /\ (plan.reason = None => /\ Open(s5) /\ ToSet(plan.ops) = Changes(s5.world, inst)
                                                        /\ Arranged(plan.ops, s5.world, inst, refs))
  BY <1>8, PlanOK
<1>10. plan = Resolve(reqs, inst, available, refs, conf, opts)
  BY DEF Resolve, s0, s1, s2, s3, s4, s5, keys, allowed
<1> HIDE DEF plan
<1>11. s5.world \in SUBSET Entry(view)
  BY <1>8 DEF WorldOK
<1>12. plan.reason = None => Achieves(plan.ops, inst, view, refs)
  BY <1>8, <1>9, <1>11 DEF Achieves
<1> QED BY <1>9, <1>10, <1>12 DEF Resolution

-----------------------------------------------------------------------------
(* Running a plan.  Its operations are of different packages, so what they *)
(* leave does not depend on their order.                                   *)

OneOpEach(S) == \A a, b \in S : a.root = b.root /\ a.name = b.name => a = b

Untouched(c, r, S) == \A op \in S : ~(op.root = r /\ op.name = c.name)

Effect(inst, S) ==
  [r \in Root |-> {c \in inst[r] : Untouched(c, r, S)}
                    \cup {op.to : op \in {o \in S : o.root = r /\ o.to # None}}]

RunStep(t, k, x) == runOp(t, x.ops[k])
Done(t, k, x) == t = Effect(x.inst, {x.ops[i] : i \in 1 .. k})

Execution == INSTANCE Loops WITH Step <- LAMBDA t, k, x : RunStep(t, k, x),
                                 Keeps <- LAMBDA t, k, x : Done(t, k, x)

(* One more operation.                                                     *)
LEMMA RunOpEffect ==
  ASSUME NEW inst \in [Root -> SUBSET Catalog], NEW S \in SUBSET Planned(Root),
         NEW op \in Planned(Root), OneOpEach(S \cup {op})
  PROVE  runOp(Effect(inst, S), op) = Effect(inst, S \cup {op})
<1> DEFINE E == Effect(inst, S)
           F == Effect(inst, S \cup {op})
           G == runOp(E, op)
<1>1. E = [r \in Root |-> E[r]] /\ F = [r \in Root |-> F[r]]
  BY DEF Effect
<1>2. \A r \in Root : \A c : c \in E[r] <=>
        \/ c \in inst[r] /\ Untouched(c, r, S)
        \/ \E o \in S : o.root = r /\ o.to # None /\ c = o.to
  BY DEF Effect
<1>3. \A r \in Root : \A c : c \in F[r] <=>
        \/ c \in inst[r] /\ Untouched(c, r, S \cup {op})
        \/ \E o \in S \cup {op} : o.root = r /\ o.to # None /\ c = o.to
  BY DEF Effect
<1> HIDE DEF E, F
<1>4. op.root \in Root /\ Named(op) /\ \A o \in S : o.root \in Root /\ Named(o)
  BY DEF Planned
<1>5. /\ G = [r \in Root |-> G[r]]
      /\ \A r \in Root : r # op.root => G[r] = E[r]
      /\ \A c : c \in G[op.root] <=> \/ c \in E[op.root] /\ c.name # op.name
                                     \/ op.to # None /\ c = op.to
  BY <1>1, <1>4 DEF runOp
<1> HIDE DEF G
<1>6. ASSUME NEW r \in Root, r # op.root PROVE G[r] = F[r]
  <2>1. \A c : c \in E[r] <=> c \in F[r]
    BY <1>2, <1>3, <1>6 DEF Untouched
  <2> QED BY <2>1, <1>5, <1>6
<1>7. G[op.root] = F[op.root]
  <2> DEFINE r == op.root
  <2>1. ASSUME NEW c, c \in E[r], c.name # op.name PROVE c \in F[r]
    BY <2>1, <1>2, <1>3, <1>4 DEF Untouched
  <2>2. op.to # None => op.to \in F[r]
    BY <1>3, <1>4
  <2>3. ASSUME NEW c \in inst[r], Untouched(c, r, S \cup {op}) PROVE c \in E[r] /\ c.name # op.name
    BY <2>3, <1>2, <1>4 DEF Untouched
  <2>4. ASSUME NEW o \in S, o.root = r, o.to # None, o # op PROVE o.to \in E[r] /\ o.to.name # op.name
    <3>1. o.to \in E[r]
      BY <2>4, <1>2, <1>4
    <3>2. o.to.name = o.name
      BY <2>4, <1>4 DEF Named
    <3>3. o.name # op.name
      BY <2>4 DEF OneOpEach
    <3> QED BY <3>1, <3>2, <3>3
  <2>5. ASSUME NEW c, c \in F[r] PROVE c \in G[r]
    <3>1. CASE c \in inst[r] /\ Untouched(c, r, S \cup {op})
      BY <3>1, <2>3, <1>5
    <3>2. CASE \E o \in S \cup {op} : o.root = r /\ o.to # None /\ c = o.to
      <4>1. PICK o \in S \cup {op} : o.root = r /\ o.to # None /\ c = o.to
        BY <3>2
      <4>2. CASE o = op
        BY <4>1, <4>2, <1>5
      <4>3. CASE o # op
        BY <4>1, <4>3, <2>4, <1>5
      <4> QED BY <4>2, <4>3
    <3>3. \/ c \in inst[r] /\ Untouched(c, r, S \cup {op})
          \/ \E o \in S \cup {op} : o.root = r /\ o.to # None /\ c = o.to
      <4>1. r \in Root
        BY <1>4
      <4> HIDE DEF r
      <4> QED BY <4>1, <2>5, <1>3
    <3> QED BY <3>1, <3>2, <3>3
  <2>6. \A c : c \in G[r] <=> c \in F[r]
    BY <2>1, <2>2, <2>5, <1>5
  <2> QED BY <2>6
<1>8. \A r \in Root : G[r] = F[r]
  BY <1>6, <1>7
<1>9. G = F
  BY <1>1, <1>5, <1>8
<1> QED BY <1>9 DEF E, F, G

(* All of them.                                                            *)
LEMMA RunEffect ==
  ASSUME NEW inst \in [Root -> SUBSET Catalog], NEW ops \in Seq(Planned(Root)), OneOpEach(ToSet(ops))
  PROVE  FoldLeft(runOp, inst, ops) = Effect(inst, ToSet(ops))
<1> DEFINE n == Len(ops)
           D == DOMAIN ops
           x == [ops |-> ops, inst |-> inst]
<1>1. n \in Nat /\ D = 1 .. n /\ \A k \in 1 .. n : ops[k] \in Planned(Root)
  OBVIOUS
<1>2. x.ops = ops /\ x.inst = inst
  OBVIOUS
<1>3. ToSet(ops) = {ops[i] : i \in 1 .. n}
  BY <1>1 DEF ToSet
<1> HIDE DEF x, D, n
<1>4. Done(inst, 0, x)
  <2>1. {ops[i] : i \in 1 .. 0} = {}
    OBVIOUS
  <2>2. inst = [r \in Root |-> inst[r]]
    OBVIOUS
  <2>3. Effect(inst, {}) = inst
    <3>1. \A r \in Root : Effect(inst, {})[r] = inst[r]
      BY DEF Effect, Untouched
    <3>2. Effect(inst, {}) = [r \in Root |-> Effect(inst, {})[r]]
      BY DEF Effect
    <3> QED BY <2>2, <3>1, <3>2
  <2> QED BY <2>1, <2>3, <1>2 DEF Done
<1>5. ASSUME NEW k \in 1 .. n, NEW t, Done(t, k - 1, x) PROVE Done(RunStep(t, k, x), k, x)
  <2> DEFINE S == {ops[i] : i \in 1 .. k - 1}
  <2>1. S \in SUBSET Planned(Root) /\ ops[k] \in Planned(Root) /\ S \cup {ops[k]} \in SUBSET ToSet(ops)
    BY <1>1, <1>3
  <2>2. {ops[i] : i \in 1 .. k} = S \cup {ops[k]}
    BY <1>1
  <2> HIDE DEF S
  <2>3. OneOpEach(S \cup {ops[k]})
    BY <2>1 DEF OneOpEach
  <2>4. runOp(Effect(inst, S), ops[k]) = Effect(inst, S \cup {ops[k]})
    BY <2>1, <2>3, RunOpEffect
  <2> QED BY <2>2, <2>4, <1>2, <1>5 DEF Done, RunStep, S
<1>6. Done(LET iter[K \in SUBSET (1 .. n)] ==
                IF K = {} THEN inst
                ELSE LET i == CHOOSE i \in K : \A j \in K : i >= j
                     IN RunStep(iter[K \ {i}], i, x)
          IN iter[1 .. n], n, x)
  BY <1>1, <1>4, <1>5, Execution!FoldKeeps
<1>7. Done(LET iter[K \in SUBSET D] ==
                IF K = {} THEN inst
                ELSE LET i == CHOOSE i \in K : \A j \in K : i >= j
                     IN runOp(iter[K \ {i}], ops[i])
          IN iter[D], n, x)
  BY <1>6, <1>1, <1>2 DEF RunStep
<1>8. Done(FoldLeft(runOp, inst, ops), n, x)
  BY <1>7 DEF FoldLeft, MapThenFoldSet, Max, D
<1> QED BY <1>8, <1>2, <1>3 DEF Done

-----------------------------------------------------------------------------
(* What running a plan leaves: in each root it is given, for each entry of *)
(* the world it leads to, the package that was there or the chosen one.    *)

Packages(inst) ==
  /\ inst \in [Root -> SUBSET Catalog]
  /\ \A r \in Root : \A c, d \in inst[r] : c.name = d.name => c = d

Seen(inst, view) == [r \in Root |-> IF r \in view THEN inst[r] ELSE {}]

Kept(e) == IF e.chosen /\ (e.was = None \/ e.pkg.ver # e.was.ver) THEN e.pkg ELSE e.was

(* What a resolution is given of what is installed.                        *)
LEMMA SeenGiven ==
  ASSUME NEW inst, Packages(inst), NEW view \in SUBSET Root
  PROVE  Given(Seen(inst, view), view)
<1>1. \A r \in Root : Seen(inst, view)[r] = IF r \in view THEN inst[r] ELSE {}
  BY DEF Seen
<1>2. Seen(inst, view) \in [Root -> SUBSET Catalog]
  BY DEF Seen, Packages
<1> QED BY <1>1, <1>2 DEF Given, Packages

(* The package kept has the name and version of the one in the world.      *)
LEMMA KeptSame ==
  ASSUME NEW inst, NEW view, Given(inst, view), NEW e \in Entry(view), Remembers(e, inst)
  PROVE  /\ Kept(e) \in Catalog /\ Kept(e).name = e.pkg.name /\ Kept(e).ver = e.pkg.ver
         /\ e \notin forwardEntries({e}) => Kept(e) \in inst[e.root]
<1>1. e.pkg \in Catalog /\ e.root \in Root /\ e.was \in Catalog \cup {None}
  BY DEF Entry, Given
<1>2. CASE e.chosen /\ (e.was = None \/ e.pkg.ver # e.was.ver)
  BY <1>1, <1>2 DEF Kept, forwardEntries
<1>3. CASE e.chosen /\ e.was # None /\ e.pkg.ver = e.was.ver
  BY <1>1, <1>3 DEF Kept, Remembers
<1>4. CASE ~e.chosen
  BY <1>1, <1>4 DEF Kept, Remembers
<1> QED BY <1>2, <1>3, <1>4

(* A plan has one operation for a package.                                 *)
LEMMA OneChangeEach ==
  ASSUME NEW inst, NEW view, Given(inst, view), NEW world, WorldOK(world, inst, view)
  PROVE  OneOpEach(Changes(world, inst))
<1> DEFINE W == InstalledWorld(inst)
           R == removedEntries(world, inst)
           F == forwardEntries(world)
<1>1. OneEach(W) /\ OneEach(world)
  BY InstalledEntries DEF WorldOK
<1>2. \A e \in R : e \in W /\ At(world, e.root, e.pkg.name) = {}
  BY DEF removedEntries
<1>3. \A e \in F : e \in world
  BY DEF forwardEntries
<1> HIDE DEF W, R, F
<1>4. \A e : /\ removal(e).root = e.root /\ removal(e).name = e.pkg.name
             /\ forward(e).root = e.root /\ forward(e).name = e.pkg.name
  BY DEF removal, forward
<1>5. \A e \in R, f \in F : ~(e.root = f.root /\ e.pkg.name = f.pkg.name)
  BY <1>2, <1>3 DEF At
<1>6. \A e, f \in R : e.root = f.root /\ e.pkg.name = f.pkg.name => e = f
  BY <1>1, <1>2 DEF OneEach
<1>7. \A e, f \in F : e.root = f.root /\ e.pkg.name = f.pkg.name => e = f
  BY <1>1, <1>3 DEF OneEach
<1> SUFFICES ASSUME NEW a \in Changes(world, inst), NEW b \in Changes(world, inst),
                    a.root = b.root, a.name = b.name
             PROVE  a = b
  BY DEF OneOpEach
<1>8. /\ (\E e \in R : a = removal(e)) \/ (\E e \in F : a = forward(e))
      /\ (\E e \in R : b = removal(e)) \/ (\E e \in F : b = forward(e))
  BY DEF Changes, R, F
<1>9. ASSUME NEW e \in R, a = removal(e) PROVE a = b
  <2>1. e.root = b.root /\ e.pkg.name = b.name
    BY <1>4, <1>9
  <2>2. ASSUME NEW f \in F, b = forward(f) PROVE FALSE
    <3>1. f.root = b.root /\ f.pkg.name = b.name
      BY <1>4, <2>2
    <3> QED BY <2>1, <3>1, <1>5, <1>9
  <2>3. PICK f \in R : b = removal(f)
    BY <1>8, <2>2
  <2>4. f.root = b.root /\ f.pkg.name = b.name
    BY <1>4, <2>3
  <2>5. e = f
    BY <1>6, <1>9, <2>1, <2>4
  <2> QED BY <1>9, <2>3, <2>5
<1>10. ASSUME NEW e \in F, a = forward(e) PROVE a = b
  <2>1. e.root = b.root /\ e.pkg.name = b.name
    BY <1>4, <1>10
  <2>2. ASSUME NEW f \in R, b = removal(f) PROVE FALSE
    <3>1. f.root = b.root /\ f.pkg.name = b.name
      BY <1>4, <2>2
    <3> QED BY <2>1, <3>1, <1>5, <1>10
  <2>3. PICK f \in F : b = forward(f)
    BY <1>8, <2>2
  <2>4. f.root = b.root /\ f.pkg.name = b.name
    BY <1>4, <2>3
  <2>5. e = f
    BY <1>7, <1>10, <2>1, <2>4
  <2> QED BY <1>10, <2>3, <2>5
<1> QED BY <1>8, <1>9, <1>10

(* Its operations are of the roots it has been given.                      *)
LEMMA ChangesPlanned ==
  ASSUME NEW inst, NEW view, Given(inst, view), NEW world, WorldOK(world, inst, view)
  PROVE  Changes(world, inst) \in SUBSET Planned(view)
<1>1. view \in SUBSET Root
  BY DEF Given
<1>2. removedEntries(world, inst) \in SUBSET Entry(view)
  BY InstalledEntries DEF removedEntries, WorldOK
<1>3. forwardEntries(world) \in SUBSET Entry(view)
  BY DEF forwardEntries, WorldOK
<1> QED BY <1>1, <1>2, <1>3, PlannedOps DEF Changes

(* What is there when the plan has run.                                    *)
LEMMA AchievedEffect ==
  ASSUME NEW inst, Packages(inst), NEW view \in SUBSET Root,
         NEW world, WorldOK(world, Seen(inst, view), view)
  PROVE  LET O == Effect(inst, Changes(world, Seen(inst, view)))
         IN /\ O \in [Root -> SUBSET Catalog]
            /\ \A r \in Root \ view : O[r] = inst[r]
            /\ \A r \in view : \A c : c \in O[r] <=> \E e \in world : e.root = r /\ c = Kept(e)
<1> DEFINE given == Seen(inst, view)
           S == Changes(world, given)
           O == Effect(inst, S)
<1>1. Given(given, view) /\ \A r \in view : given[r] = inst[r]
  <2>1. \A r \in view : given[r] = inst[r]
    BY DEF Seen
  <2> QED BY <2>1, SeenGiven
<1>2. world \in SUBSET Entry(view) /\ OneEach(world) /\ \A e \in world : Remembers(e, given)
  BY DEF WorldOK
<1> HIDE DEF given
<1>3. S \in SUBSET Planned(view)
  BY <1>1, ChangesPlanned DEF given
<1>4. \A r \in Root : \A c : c \in O[r] <=>
        \/ c \in inst[r] /\ Untouched(c, r, S)
        \/ \E o \in S : o.root = r /\ o.to # None /\ c = o.to
  BY DEF Effect
<1>5. \A o : o \in S <=> \/ \E e \in removedEntries(world, given) : o = removal(e)
                         \/ \E e \in forwardEntries(world) : o = forward(e)
  BY DEF Changes
<1>6. \A o \in S : o.root \in view /\ (o.to # None => o.to \in Catalog)
  BY <1>3 DEF Planned, Operation
<1>7. O = [r \in Root |-> O[r]]
  BY DEF Effect
<1> HIDE DEF S, O
<1>8. \A r \in Root : O[r] \in SUBSET Catalog
  <2>1. \A r \in Root : inst[r] \in SUBSET Catalog
    BY DEF Packages
  <2> QED BY <2>1, <1>4, <1>6
<1>9. O \in [Root -> SUBSET Catalog]
  BY <1>7, <1>8
<1>10. ASSUME NEW r \in Root \ view PROVE O[r] = inst[r]
  <2>1. \A c : c \in O[r] <=> c \in inst[r]
    BY <1>4, <1>6 DEF Untouched
  <2> QED BY <2>1, <1>8
<1>11. ASSUME NEW r \in view, NEW c, c \in O[r]
       PROVE  \E e \in world : e.root = r /\ c = Kept(e)
  <2>1. CASE c \in inst[r] /\ Untouched(c, r, S)
    <3> DEFINE g == [root |-> r, pkg |-> c, chosen |-> FALSE, was |-> c]
    <3>1. c \in given[r]
      BY <2>1, <1>1
    <3>2. g \in InstalledWorld(given)
      BY <3>1, <1>1, InstalledEntries
    <3>3. At(world, r, c.name) # {}
      <4>1. g.root = r /\ g.pkg = c /\ removal(g).root = r /\ removal(g).name = c.name
        BY DEF removal
      <4> HIDE DEF g
      <4>2. At(world, r, c.name) = {} => removal(g) \in S
        BY <3>2, <4>1, <1>5 DEF removedEntries
      <4> QED BY <4>1, <4>2, <2>1 DEF Untouched
    <3>4. PICK e \in world : e.root = r /\ e.pkg.name = c.name
      BY <3>3 DEF At
    <3>5. e \notin forwardEntries(world)
      <4>1. forward(e).root = r /\ forward(e).name = c.name
        BY <3>4 DEF forward
      <4> QED BY <4>1, <2>1, <1>5 DEF Untouched
    <3>6. Kept(e) \in given[r] /\ Kept(e).name = c.name
      <4>1. e \notin forwardEntries({e})
        BY <3>4, <3>5 DEF forwardEntries
      <4> QED BY <4>1, <3>4, <1>1, <1>2, KeptSame
    <3>7. Kept(e) = c
      BY <3>1, <3>6, <1>1 DEF Given
    <3> QED BY <3>4, <3>7
  <2>2. CASE \E o \in S : o.root = r /\ o.to # None /\ c = o.to
    <3>1. PICK o \in S : o.root = r /\ o.to # None /\ c = o.to
      BY <2>2
    <3>2. \A e : removal(e).to = None
      BY DEF removal
    <3>3. PICK e \in forwardEntries(world) : o = forward(e)
      BY <3>1, <3>2, <1>5
    <3>4. e \in world /\ Kept(e) = e.pkg
      BY <3>3 DEF forwardEntries, Kept
    <3>5. e.root = r /\ c = e.pkg
      BY <3>1, <3>3 DEF forward
    <3> QED BY <3>4, <3>5
  <2> QED BY <2>1, <2>2, <1>4, <1>11
<1>12. ASSUME NEW r \in view, NEW e \in world, e.root = r PROVE Kept(e) \in O[r]
  <2>1. e \in Entry(view) /\ Remembers(e, given)
    BY <1>2
  <2>2. CASE e \in forwardEntries(world)
    <3>1. Kept(e) = e.pkg /\ e.pkg # None
      BY <2>1, <2>2, CommandsAssumption DEF forwardEntries, Kept, Entry
    <3>2. forward(e) \in S /\ forward(e).root = r /\ forward(e).to = e.pkg
      BY <2>2, <1>5, <1>12 DEF forward
    <3> QED BY <3>1, <3>2, <1>4
  <2>3. CASE e \notin forwardEntries(world)
    <3>1. e \notin forwardEntries({e})
      BY <2>3, <1>12 DEF forwardEntries
    <3>2. Kept(e) \in inst[r] /\ Kept(e).name = e.pkg.name
      BY <3>1, <2>1, <1>1, <1>12, KeptSame
    <3>3. Untouched(Kept(e), r, S)
      <4> SUFFICES ASSUME NEW o \in S, o.root = r, o.name = e.pkg.name PROVE FALSE
        BY <3>2 DEF Untouched
      <4>1. ASSUME NEW f \in removedEntries(world, given), o = removal(f) PROVE FALSE
        <5>1. f.root = r /\ f.pkg.name = e.pkg.name /\ At(world, f.root, f.pkg.name) = {}
          BY <4>1 DEF removedEntries, removal
        <5>2. e \in At(world, r, e.pkg.name)
          BY <1>12 DEF At
        <5> QED BY <5>1, <5>2
      <4>2. ASSUME NEW f \in forwardEntries(world), o = forward(f) PROVE FALSE
        <5>1. f.root = r /\ f.pkg.name = e.pkg.name /\ f \in world
          BY <4>2 DEF forwardEntries, forward
        <5> QED BY <5>1, <4>2, <2>3, <1>2, <1>12 DEF OneEach
      <4> QED BY <4>1, <4>2, <1>5
    <3> QED BY <3>2, <3>3, <1>4
  <2> QED BY <2>2, <2>3
<1>13. \A r \in view : \A c : c \in O[r] <=> \E e \in world : e.root = r /\ c = Kept(e)
  BY <1>11, <1>12
<1> QED BY <1>9, <1>10, <1>13 DEF O, S, given

-----------------------------------------------------------------------------
(* Nothing missing and nothing in conflict, in the packages of every root. *)

Whole(inst) == LET W == InstalledWorld(inst) IN (\A e \in W : Meets(W, e)) /\ ~Clash(W)

Place(dep, r) == IF dep.in = Here THEN r ELSE dep.in

Served(inst, r, c) ==
  \A dep \in c.deps : Place(dep, r) \in Root /\ \E d \in inst[Place(dep, r)] : satisfies(d, dep, c.arch)

Peaceful(inst, r, c) == \A d \in inst[r] : d # c => \A k \in c.conflicts : ~satisfies(d, k, c.arch)

(* Whole, in terms of packages.                                            *)
LEMMA WholeMeans ==
  ASSUME NEW inst, inst \in [Root -> SUBSET Catalog]
  PROVE  Whole(inst) <=> \A r \in Root : \A c \in inst[r] : Served(inst, r, c) /\ Peaceful(inst, r, c)
<1> DEFINE W == InstalledWorld(inst)
           at(r, c) == [root |-> r, pkg |-> c, chosen |-> FALSE, was |-> c]
<1>1. \A e : e \in W <=> \E r \in Root : \E c \in inst[r] : e = at(r, c)
  BY DEF InstalledWorld
<1>2. \A r, c : at(r, c).root = r /\ at(r, c).pkg = c
  OBVIOUS
<1>3. \A r, q, c, d : at(r, c) = at(q, d) <=> r = q /\ c = d
  OBVIOUS
<1> HIDE DEF W, at
<1>4. ASSUME NEW r \in Root, NEW c \in inst[r] PROVE Meets(W, at(r, c)) <=> Served(inst, r, c)
  <2>1. ASSUME NEW dep
        PROVE  (\E f \in W : f.root = Place(dep, r) /\ satisfies(f.pkg, dep, c.arch))
               <=> (Place(dep, r) \in Root /\ \E d \in inst[Place(dep, r)] : satisfies(d, dep, c.arch))
    BY <1>1, <1>2
  <2> QED BY <2>1, <1>2 DEF Meets, Served, Place
<1>5. (\A e \in W : Meets(W, e)) <=> \A r \in Root : \A c \in inst[r] : Served(inst, r, c)
  BY <1>1, <1>4
<1>6. ASSUME Clash(W) PROVE \E r \in Root : \E c \in inst[r] : ~Peaceful(inst, r, c)
  <2>1. PICK e \in W, f \in W : e # f /\ e.root = f.root
                               /\ \E k \in e.pkg.conflicts : satisfies(f.pkg, k, e.pkg.arch)
    BY <1>6 DEF Clash
  <2>2. PICK r \in Root : \E c \in inst[r] : e = at(r, c)
    BY <1>1
  <2>3. PICK c \in inst[r] : e = at(r, c)
    BY <2>2
  <2>4. PICK q \in Root : \E d \in inst[q] : f = at(q, d)
    BY <1>1
  <2>5. PICK d \in inst[q] : f = at(q, d)
    BY <2>4
  <2>6. q = r /\ d # c /\ e.pkg = c /\ f.pkg = d
    BY <2>1, <2>3, <2>5, <1>2, <1>3
  <2> QED BY <2>1, <2>6 DEF Peaceful
<1>7. ASSUME NEW r \in Root, NEW c \in inst[r], ~Peaceful(inst, r, c) PROVE Clash(W)
  <2>1. PICK d \in inst[r] : d # c /\ \E k \in c.conflicts : satisfies(d, k, c.arch)
    BY <1>7 DEF Peaceful
  <2>2. at(r, c) \in W /\ at(r, d) \in W /\ at(r, c) # at(r, d)
    BY <2>1, <1>1, <1>3
  <2> QED BY <2>1, <2>2, <1>2 DEF Clash
<1> QED BY <1>5, <1>6, <1>7 DEF Whole, W

(* Two builds of one version of a package are alike in what matters here.  *)
OneBuildPerVersion ==
  \A c, d \in Catalog : c.name = d.name /\ c.ver = d.ver =>
    c.arch = d.arch /\ c.deps = d.deps /\ c.provides = d.provides /\ c.conflicts = d.conflicts

DepsStayHere == \A c \in Catalog : \A dep \in c.deps : dep.in = Here

(* The package kept serves and conflicts as the one in the world.          *)
LEMMA KeptAlike ==
  ASSUME OneBuildPerVersion, NEW c \in Catalog, NEW d \in Catalog, c.name = d.name, c.ver = d.ver
  PROVE  /\ c.arch = d.arch /\ c.deps = d.deps /\ c.conflicts = d.conflicts
         /\ \A dep, arch : satisfies(c, dep, arch) <=> satisfies(d, dep, arch)
BY DEF OneBuildPerVersion, satisfies

(* When the world has nothing unmet and no conflict, neither has what is   *)
(* there afterwards.                                                       *)
LEMMA WholeAfter ==
  ASSUME OneBuildPerVersion, NEW inst, Packages(inst), Whole(inst), NEW view \in SUBSET Root,
         NEW refs, refs = None \/ refs \in SUBSET view,
         DepsStayHere \/ (view = Root /\ refs # None),
         NEW world, WorldOK(world, Seen(inst, view), view),
         ~conflictIn(world), ~unmetDependency(world, refs)
  PROVE  Whole(Effect(inst, Changes(world, Seen(inst, view))))
<1> DEFINE O == Effect(inst, Changes(world, Seen(inst, view)))
<1>1. O \in [Root -> SUBSET Catalog] /\ \A r \in Root \ view : O[r] = inst[r]
  BY AchievedEffect
<1>2. \A r \in view : \A c : c \in O[r] <=> \E e \in world : e.root = r /\ c = Kept(e)
  BY AchievedEffect
<1> HIDE DEF O
<1>3. world \in SUBSET Entry(view) /\ \A e \in world : Remembers(e, Seen(inst, view))
  BY DEF WorldOK
<1>4. \A e \in world : /\ e.root \in view /\ e.pkg \in Catalog /\ Kept(e) \in Catalog
                       /\ Kept(e).name = e.pkg.name /\ Kept(e).ver = e.pkg.ver
  <2>1. Given(Seen(inst, view), view)
    BY SeenGiven
  <2> TAKE e \in world
  <2>2. e.root \in view /\ e.pkg \in Catalog
    BY <1>3 DEF Entry
  <2>3. e \in Entry(view) /\ Remembers(e, Seen(inst, view))
    BY <1>3
  <2> QED BY <2>1, <2>2, <2>3, KeptSame
<1>5. \A r \in Root : \A c \in inst[r] : Served(inst, r, c) /\ Peaceful(inst, r, c)
  BY WholeMeans DEF Packages
<1>6. None \notin Root
  BY ResolverAssumption
<1>7. ASSUME NEW r \in view, NEW c \in O[r] PROVE Served(O, r, c) /\ Peaceful(O, r, c)
  <2>1. PICK e \in world : e.root = r /\ c = Kept(e)
    BY <1>2
  <2>2. c.arch = e.pkg.arch /\ c.deps = e.pkg.deps /\ c.conflicts = e.pkg.conflicts
    <3>1. c \in Catalog /\ e.pkg \in Catalog /\ c.name = e.pkg.name /\ c.ver = e.pkg.ver
      BY <2>1, <1>4
    <3> QED BY <3>1, KeptAlike
  <2>3. ASSUME NEW dep \in c.deps
        PROVE  Place(dep, r) \in Root /\ \E d \in O[Place(dep, r)] : satisfies(d, dep, c.arch)
    <3>1. Satisfied(world, e, dep, refs)
      BY <2>2, <2>1, <2>3 DEF unmetDependency
    <3>2. PICK f \in world : f.root = routeRoot(dep, r, refs) /\ satisfies(f.pkg, dep, c.arch)
      BY <3>1, <2>1, <2>2 DEF Satisfied, worldSatisfiesInRoot
    <3>3. f.root \in view /\ f.root \in Root
      BY <1>4
    <3>4. f.root = Place(dep, r)
      <4>1. CASE DepsStayHere
        <5>1. c \in Catalog
          BY <2>1, <1>4
        <5>2. dep.in = Here
          BY <4>1, <5>1, <2>3 DEF DepsStayHere
        <5> QED BY <5>2, <3>2 DEF routeRoot, Place
      <4>2. CASE refs # None
        <5>1. routeRoot(dep, r, refs) \in {Place(dep, r), None}
          BY <4>2 DEF routeRoot, Place
        <5> QED BY <5>1, <3>2, <3>3, <1>6
      <4> QED BY <4>1, <4>2
    <3>5. Kept(f) \in O[f.root]
      BY <3>3, <1>2
    <3>6. satisfies(Kept(f), dep, c.arch)
      <4>1. Kept(f) \in Catalog /\ f.pkg \in Catalog /\ Kept(f).name = f.pkg.name /\ Kept(f).ver = f.pkg.ver
        BY <1>4
      <4> QED BY <4>1, <3>2, KeptAlike
    <3> QED BY <3>3, <3>4, <3>5, <3>6
  <2>4. ASSUME NEW d \in O[r], d # c, NEW k \in c.conflicts, satisfies(d, k, c.arch) PROVE FALSE
    <3>1. PICK f \in world : f.root = r /\ d = Kept(f)
      BY <1>2
    <3>2. e # f
      BY <2>1, <2>4, <3>1
    <3>3. satisfies(f.pkg, k, e.pkg.arch)
      <4>1. d \in Catalog /\ f.pkg \in Catalog /\ d.name = f.pkg.name /\ d.ver = f.pkg.ver
        BY <3>1, <1>4
      <4> QED BY <4>1, <2>2, <2>4, KeptAlike
    <3> QED BY <3>1, <3>2, <3>3, <2>1, <2>2, <2>4 DEF conflictIn
  <2>5. Peaceful(O, r, c)
    BY <2>4 DEF Peaceful
  <2> QED BY <2>3, <2>5 DEF Served
<1>8. ASSUME NEW r \in Root \ view, NEW c \in O[r] PROVE Served(O, r, c) /\ Peaceful(O, r, c)
  <2>1. c \in inst[r] /\ O[r] = inst[r] /\ DepsStayHere
    BY <1>1, <1>8
  <2>2. c \in Catalog
    BY <1>1
  <2>3. \A dep \in c.deps : Place(dep, r) = r
    BY <2>1, <2>2 DEF DepsStayHere, Place
  <2>4. Served(inst, r, c) /\ Peaceful(inst, r, c)
    BY <2>1, <1>5
  <2>5. Served(O, r, c)
    BY <2>1, <2>3, <2>4 DEF Served
  <2>6. Peaceful(O, r, c)
    BY <2>1, <2>4 DEF Peaceful
  <2> QED BY <2>5, <2>6
<1>9. \A r \in Root : \A c \in O[r] : Served(O, r, c) /\ Peaceful(O, r, c)
  BY <1>7, <1>8
<1>10. Whole(O)
  BY <1>1, <1>9, WholeMeans
<1> QED BY <1>10 DEF O

(* A plan that achieves a world leaves the roots whole.                    *)
LEMMA AchievedWhole ==
  ASSUME OneBuildPerVersion, NEW inst, Packages(inst), Whole(inst), NEW view \in SUBSET Root,
         NEW refs, refs = None \/ refs \in SUBSET view,
         DepsStayHere \/ (view = Root /\ refs # None),
         NEW ops \in Seq(Planned(Root)), Achieves(ops, Seen(inst, view), view, refs)
  PROVE  Whole(FoldLeft(runOp, inst, ops))
<1>1. PICK world \in SUBSET Entry(view) :
        /\ WorldOK(world, Seen(inst, view), view)
        /\ ~conflictIn(world) /\ ~unmetDependency(world, refs)
        /\ ToSet(ops) = Changes(world, Seen(inst, view))
  BY DEF Achieves
<1>2. Given(Seen(inst, view), view)
  BY SeenGiven
<1>3. OneOpEach(ToSet(ops))
  BY <1>1, <1>2, OneChangeEach
<1>4. FoldLeft(runOp, inst, ops) = Effect(inst, Changes(world, Seen(inst, view)))
  BY <1>1, <1>3, RunEffect DEF Packages
<1>5. Whole(Effect(inst, Changes(world, Seen(inst, view))))
  BY <1>1, WholeAfter
<1> QED BY <1>4, <1>5

-----------------------------------------------------------------------------
(* What the commands ask for.                                              *)

JoinStep(t, k, x) == t \o x.seqs[k]

Join == INSTANCE Loops WITH Step <- LAMBDA t, k, x : JoinStep(t, k, x),
                            Keeps <- LAMBDA t, k, x : t \in Seq(x.of)

(* Concat puts sequences together.                                         *)
LEMMA ConcatType ==
  ASSUME NEW T, NEW seqs \in Seq(Seq(T))
  PROVE  Concat(seqs) \in Seq(T)
<1> DEFINE n == Len(seqs)
           D == DOMAIN seqs
           x == [seqs |-> seqs, of |-> T]
<1>1. n \in Nat /\ D = 1 .. n /\ \A k \in 1 .. n : seqs[k] \in Seq(T)
  OBVIOUS
<1>2. x.seqs = seqs /\ x.of = T
  OBVIOUS
<1> HIDE DEF x, D, n
<1>3. << >> \in Seq(x.of)
  OBVIOUS
<1>4. ASSUME NEW k \in 1 .. n, NEW t, t \in Seq(x.of) PROVE JoinStep(t, k, x) \in Seq(x.of)
  <2>1. t \in Seq(T) /\ seqs[k] \in Seq(T)
    BY <1>1, <1>2, <1>4
  <2>2. t \o seqs[k] \in Seq(T)
    BY <2>1
  <2> QED BY <2>2, <1>2 DEF JoinStep
<1>5. (LET iter[K \in SUBSET (1 .. n)] ==
             IF K = {} THEN << >>
             ELSE LET i == CHOOSE i \in K : \A j \in K : i >= j
                  IN JoinStep(iter[K \ {i}], i, x)
       IN iter[1 .. n]) \in Seq(x.of)
  BY <1>1, <1>3, <1>4, Join!FoldKeeps
<1>6. (LET iter[K \in SUBSET D] ==
             IF K = {} THEN << >>
             ELSE LET i == CHOOSE i \in K : \A j \in K : i >= j
                  IN iter[K \ {i}] \o seqs[i]
       IN iter[D]) \in Seq(T)
  BY <1>5, <1>1, <1>2 DEF JoinStep
<1> QED BY <1>6 DEF Concat, FoldLeft, MapThenFoldSet, Max, D

(* Requests of one kind.                                                   *)
Wanting(view, kind) == {q \in Requests(view) : q.kind = kind}

(* They are requests.                                                      *)
LEMMA WantingRequests ==
  ASSUME NEW view, NEW kind, NEW reqs \in Seq(Wanting(view, kind))
  PROVE  reqs \in Seq(Requests(view)) /\ \A q \in ToSet(reqs) : q.kind = kind
<1> DEFINE P == Wanting(view, kind)
           Q == Requests(view)
<1>1. P \in SUBSET Q /\ \A q \in P : q.kind = kind
  BY DEF Wanting
<1> HIDE DEF P, Q
<1>2. reqs \in Seq(P)
  BY DEF P
<1>3. reqs \in Seq(Q) /\ ToSet(reqs) \in SUBSET P
  BY <1>1, <1>2, SetOfSeq
<1> QED BY <1>1, <1>3 DEF Q

(* A request for a root the resolution is given.                           *)
LEMMA RequestType ==
  ASSUME NEW view, NEW root \in view, NEW name \in Name \cup {None},
         NEW kind \in {"install", "upgrade", "downgrade", "remove"}
  PROVE  /\ Request(kind, root, name) \in Requests(view)
         /\ Request(kind, root, name) \in Wanting(view, kind)
         /\ \A v \in Nat : [Request(kind, root, name) EXCEPT !.ver = v] \in Requests(view)
BY DEF Request, Requests, Wanting

View(at, here) == IF here THEN {at} ELSE Reach(at)

(* An upgrade asks for roots it looks at (routeRequest).                   *)
LEMMA UpgradeRequestsType ==
  ASSUME NEW at \in Root, NEW args \in Seq(Name), NEW noRecurse \in BOOLEAN
  PROVE  UpgradeRequests(at, args, noRecurse) \in Seq(Wanting(View(at, noRecurse), "upgrade"))
<1>1. at \in View(at, noRecurse)
  BY DEF View, Reach
<1>2. Len(args) \in Nat /\ DOMAIN args = 1 .. Len(args) /\ \A i \in 1 .. Len(args) : args[i] \in Name
  OBVIOUS
<1>3. CASE args = << >>
  <2>1. Request("upgrade", at, None) \in Wanting(View(at, noRecurse), "upgrade")
    BY <1>1, RequestType
  <2>2. UpgradeRequests(at, args, noRecurse) = << Request("upgrade", at, None) >>
    BY <1>3 DEF UpgradeRequests
  <2> QED BY <2>1, <2>2
<1>4. CASE args # << >> /\ noRecurse
  <2> DEFINE m == [i \in 1 .. Len(args) |-> Request("upgrade", at, args[i])]
  <2>1. UpgradeRequests(at, args, noRecurse) = m
    BY <1>2, <1>4 DEF UpgradeRequests, Map
  <2>2. \A i \in 1 .. Len(args) : Request("upgrade", at, args[i]) \in Wanting(View(at, noRecurse), "upgrade")
    BY <1>1, <1>2, RequestType
  <2>3. m \in [1 .. Len(args) -> Wanting(View(at, noRecurse), "upgrade")]
    BY <2>2
  <2> QED BY <1>2, <2>1, <2>3
<1>5. CASE args # << >> /\ ~noRecurse
  <2>1. View(at, noRecurse) = Reach(at)
    BY <1>5 DEF View
  <2>2. ASSUME NEW name \in Name PROVE routeRequest(at, name) \in Seq(Wanting(Reach(at), "upgrade"))
    <3> DEFINE holders == {r \in Reach(at) : \E c \in installed[r] : c.name = name}
               roots == Select(RootSeq, holders)
    <3>1. \A r \in Reach(at) : Request("upgrade", r, name) \in Wanting(Reach(at), "upgrade")
      BY RequestType
    <3>2. RootSeq \in Seq(Root)
      BY ResolverAssumption
    <3>3. holders \in SUBSET Reach(at) /\ at \in Reach(at)
      BY DEF Reach
    <3> HIDE DEF holders
    <3>4. Select(RootSeq, holders) \in Seq(Root \cap holders)
      BY <3>2, SelectFacts
    <3>5. roots \in Seq(Reach(at))
      BY <3>3, <3>4
    <3> HIDE DEF roots
    <3>6. Len(roots) \in Nat /\ DOMAIN roots = 1 .. Len(roots) /\ \A i \in 1 .. Len(roots) : roots[i] \in Reach(at)
      BY <3>5
    <3> DEFINE m == [i \in 1 .. Len(roots) |-> Request("upgrade", roots[i], name)]
    <3>7. routeRequest(at, name) = IF holders = {} THEN << Request("upgrade", at, name) >> ELSE m
      BY <3>6 DEF routeRequest, Map, holders, roots
    <3>8. m \in [1 .. Len(roots) -> Wanting(Reach(at), "upgrade")]
      BY <3>1, <3>6
    <3>9. m \in Seq(Wanting(Reach(at), "upgrade"))
      BY <3>6, <3>8
    <3>10. << Request("upgrade", at, name) >> \in Seq(Wanting(Reach(at), "upgrade"))
      BY <3>1, <3>3
    <3> QED BY <3>7, <3>9, <3>10
  <2> DEFINE m == [i \in 1 .. Len(args) |-> routeRequest(at, args[i])]
  <2>3. UpgradeRequests(at, args, noRecurse) = Concat(m)
    BY <1>2, <1>5 DEF UpgradeRequests, Map
  <2>4. m \in [1 .. Len(args) -> Seq(Wanting(Reach(at), "upgrade"))]
    BY <1>2, <2>2
  <2>5. m \in Seq(Seq(Wanting(Reach(at), "upgrade")))
    BY <1>2, <2>4
  <2> HIDE DEF m
  <2>6. Concat(m) \in Seq(Wanting(Reach(at), "upgrade"))
    BY <2>5, ConcatType
  <2> QED BY <2>1, <2>3, <2>6
<1> QED BY <1>3, <1>4, <1>5

NamedOps == {op \in Operation : Named(op)}

(* So does an undo.                                                        *)
LEMMA UndoRequestsType ==
  ASSUME NEW at \in Root, Reach(at) \in SUBSET Root, last[at].ops \in Seq(NamedOps), NEW roots \in SetToSeqs(Reach(at))
  PROVE  UndoRequests(at, roots) \in Seq(Requests(Reach(at)))
<1> DEFINE ops == last[at].ops
           P == Planned(Reach(at))
           in(r) == Select(ops, {op \in ToSet(ops) : op.root = r})
<1>1. roots \in Seq(Reach(at)) /\ Len(roots) \in Nat /\ DOMAIN roots = 1 .. Len(roots)
      /\ \A i \in 1 .. Len(roots) : roots[i] \in Reach(at)
  <2>1. Cardinality(Reach(at)) \in Nat
    BY FiniteRoots, FS_Subset, FS_CardinalityType
  <2>2. roots \in [1 .. Cardinality(Reach(at)) -> Reach(at)]
    BY DEF SetToSeqs
  <2> QED BY <2>1, <2>2
<1>2. ASSUME NEW r \in Reach(at) PROVE in(r) \in Seq(P)
  <2> DEFINE T == {op \in ToSet(ops) : op.root = r}
  <2>1. Select(ops, T) \in Seq(NamedOps \cap T)
    BY SelectFacts
  <2>2. NamedOps \cap T \in SUBSET P
    BY <1>2 DEF Planned, NamedOps
  <2> HIDE DEF T, P
  <2>3. Select(ops, T) \in Seq(P)
    BY <2>1, <2>2
  <2> QED BY <2>3 DEF T
<1> DEFINE m == [i \in 1 .. Len(roots) |-> in(roots[i])]
           done == Concat(m)
<1>3. done \in Seq(P)
  <2> HIDE DEF in, P, ops
  <2>1. m \in [1 .. Len(roots) -> Seq(P)]
    BY <1>1, <1>2
  <2>2. m \in Seq(Seq(P))
    BY <1>1, <2>1
  <2> HIDE DEF m
  <2> QED BY <2>2, ConcatType
<1>4. UndoRequests(at, roots) = Map(inverseRequest, done)
  BY <1>1 DEF UndoRequests, Map
<1> HIDE DEF done, in, ops
<1>5. ASSUME NEW op \in P PROVE inverseRequest(op) \in Requests(Reach(at))
  <2>1. op.root \in Reach(at) /\ op.name \in Name
    BY DEF Planned, Operation
  <2>2. op.kind # "install" => op.from.ver \in Nat
    BY CommandsAssumption DEF Planned, Named
  <2> QED BY <2>1, <2>2, RequestType DEF inverseRequest
<1>6. Map(inverseRequest, done) \in Seq(Requests(Reach(at)))
  <2>1. Len(done) \in Nat /\ DOMAIN done = 1 .. Len(done) /\ \A i \in 1 .. Len(done) : done[i] \in P
    BY <1>3
  <2>2. Map(inverseRequest, done) \in [1 .. Len(done) -> Requests(Reach(at))]
    BY <2>1, <1>5 DEF Map
  <2> QED BY <2>1, <2>2
<1> QED BY <1>4, <1>6

-----------------------------------------------------------------------------
(* Every plan a command shows is a resolution of what is installed in the  *)
(* roots it looks at.                                                      *)

Refs(at, here) == IF here THEN None ELSE Below[at]

Valid(plan, at, here) ==
  Resolution(plan, Seen(installed, View(at, here)), View(at, here), Refs(at, here))

IInv ==
  /\ TypeOK
  /\ \A r \in Root : last[r] # None => last[r].ops \in Seq(NamedOps)
  /\ \A p \in Process : job[p] # None => job[p].ops \in Seq(NamedOps)

(* The roots a command looks at.                                           *)
LEMMA InView ==
  ASSUME TypeOK, NEW at \in Root, NEW here \in BOOLEAN
  PROVE  /\ View(at, here) \in SUBSET Root /\ at \in View(at, here) /\ View(at, here) \in SUBSET Reach(at)
         /\ Refs(at, here) = None \/ Refs(at, here) \in SUBSET View(at, here)
         /\ Packages(installed) /\ Given(Seen(installed, View(at, here)), View(at, here))
<1>1. Below[at] \in SUBSET Root
  BY CommandsAssumption
<1>2. View(at, here) \in SUBSET Root /\ at \in View(at, here) /\ View(at, here) \in SUBSET Reach(at)
  BY <1>1 DEF View, Reach
<1>3. Refs(at, here) = None \/ Refs(at, here) \in SUBSET View(at, here)
  BY DEF Refs, View, Reach
<1>4. Packages(installed)
  BY DEF TypeOK, Packages
<1> QED BY <1>2, <1>3, <1>4, SeenGiven

(* What resolveCrossRoot plans is a resolution of every root it looks at,  *)
LEMMA CrossValid ==
  ASSUME TypeOK, NEW at \in Root, NEW reqs \in Seq(Requests(Reach(at))),
         NEW available \in SUBSET Catalog, NEW opts
  PROVE  Valid(resolveCrossRoot(at, reqs, available, opts), at, FALSE)
<1>1. gatherInstalledByRoot(at) = Seen(installed, Reach(at))
  BY DEF gatherInstalledByRoot, Seen
<1>2. View(at, FALSE) = Reach(at) /\ Refs(at, FALSE) = Below[at]
  BY DEF View, Refs
<1>3. Given(Seen(installed, Reach(at)), Reach(at)) /\ Below[at] \in SUBSET Reach(at)
  BY <1>2, InView DEF Reach
<1>4. Resolution(Resolve(reqs, Seen(installed, Reach(at)), available, Below[at], configured[at], opts),
                 Seen(installed, Reach(at)), Reach(at), Below[at])
  BY <1>3, ResolveOK
<1> QED BY <1>1, <1>2, <1>4 DEF resolveCrossRoot, Valid

(* and what resolveSingleRoot plans, of one.                               *)
LEMMA SingleValid ==
  ASSUME TypeOK, NEW at \in Root, NEW reqs \in Seq(Requests({at})),
         NEW available \in SUBSET Catalog, NEW opts
  PROVE  Valid(resolveSingleRoot(at, reqs, available, opts), at, TRUE)
<1>1. [r \in Root |-> IF r = at THEN installed[at] ELSE {}] = Seen(installed, {at})
  BY DEF Seen
<1>2. View(at, TRUE) = {at} /\ Refs(at, TRUE) = None
  BY DEF View, Refs
<1>3. Given(Seen(installed, {at}), {at})
  BY <1>2, InView
<1>4. Resolution(Resolve(reqs, Seen(installed, {at}), available, None, configured[at], opts),
                 Seen(installed, {at}), {at}, None)
  BY <1>3, ResolveOK
<1> QED BY <1>1, <1>2, <1>4 DEF resolveSingleRoot, Valid

(* The candidates are packages of the catalog.                             *)
LEMMA Candidates ==
  ASSUME TypeOK, NEW at
  PROVE  /\ availableSet(at) \in SUBSET Catalog /\ archiveCandidates(at) \in SUBSET Catalog
         /\ \A files \in FileChoices : files \in SUBSET Catalog
<1>1. published \in SUBSET Catalog
  BY DEF TypeOK
<1>2. availableSet(at) \in SUBSET Catalog /\ archiveCandidates(at) \in SUBSET Catalog
  BY <1>1 DEF availableSet, archiveCandidates, deriveActive
<1>3. \A files \in FileChoices : files \in SUBSET Catalog
  BY DEF FileChoices, Catalog
<1> QED BY <1>2, <1>3

(* An upgrade is one or the other.                                         *)
LEMMA UpgradeValid ==
  ASSUME TypeOK, NEW at \in Root, NEW here \in BOOLEAN, NEW reqs \in Seq(Requests(View(at, here)))
  PROVE  Valid(resolve(at, reqs, here), at, here)
<1>1. availableSet(at) \in SUBSET Catalog
  BY Candidates
<1>2. CASE here
  BY <1>1, <1>2, SingleValid DEF resolve, View
<1>3. CASE ~here
  BY <1>1, <1>3, CrossValid DEF resolve, View
<1> QED BY <1>2, <1>3

(* An empty plan is valid.                                                 *)
LEMMA NothingValid ==
  ASSUME NEW at, NEW here, NEW why \in {None, "alternate-upgrade"}
  PROVE  Valid(NoPlan(why), at, here)
<1> DEFINE view == View(at, here)
<1>1. << >> \in Seq(Planned(view))
  OBVIOUS
<1>2. NoPlan(why) \in PlanType(view) /\ NoPlan(why).ops = << >>
  BY <1>1 DEF NoPlan, PlanType
<1> QED BY <1>2 DEF Valid, Resolution

(* A refused plan is valid.                                                *)
LEMMA RefuseValid ==
  ASSUME NEW at, NEW here, NEW plan, Valid(plan, at, here)
  PROVE  Valid(refuseAlternateUpgrade(plan), at, here)
BY NothingValid DEF refuseAlternateUpgrade

(* A plan narrowed around held-back packages is one for an upgrade of      *)
(* those that are left.                                                    *)
LEMMA HeldBack ==
  ASSUME NEW at \in Root, NEW here \in BOOLEAN, NEW plan, Valid(plan, at, here)
  PROVE  \E reqs \in Seq(Wanting(View(at, here), "upgrade")) :
           holdBack(plan, at, here) \in
             {plan, NoPlan(None), refuseAlternateUpgrade(resolve(at, reqs, here))}
<1> DEFINE view == View(at, here)
           held == {op.name : op \in alternateUpgradeOps(plan)}
           T == {op \in ToSet(plan.ops) : op.kind = "upgrade" /\ op.name \notin held}
           rest == Select(plan.ops, T)
           m == [i \in 1 .. Len(rest) |-> Request("upgrade", rest[i].root, rest[i].name)]
<1>1. plan.ops \in Seq(Planned(view))
  BY DEF Valid, Resolution, PlanType
<1> HIDE DEF T
<1>2. rest \in Seq(Planned(view))
  <2>1. Select(plan.ops, T) \in Seq(Planned(view) \cap T)
    BY <1>1, SelectFacts
  <2> QED BY <2>1
<1> HIDE DEF rest
<1>3. Len(rest) \in Nat /\ DOMAIN rest = 1 .. Len(rest) /\ \A i \in 1 .. Len(rest) : rest[i] \in Planned(view)
  BY <1>2
<1>4. \A op \in Planned(view) : Request("upgrade", op.root, op.name) \in Wanting(view, "upgrade")
  BY RequestType DEF Planned, Operation
<1>5. m \in Seq(Wanting(view, "upgrade"))
  <2>1. m \in [1 .. Len(rest) -> Wanting(view, "upgrade")]
    BY <1>3, <1>4
  <2> QED BY <1>3, <2>1
<1>6. holdBack(plan, at, here) =
        IF held = {} THEN plan
        ELSE IF rest = << >> THEN NoPlan(None) ELSE refuseAlternateUpgrade(resolve(at, m, here))
  BY <1>3 DEF holdBack, Map, rest, T
<1> HIDE DEF m, held
<1> QED BY <1>5, <1>6

(* So it is a resolution of its own.                                       *)
LEMMA HoldValid ==
  ASSUME TypeOK, NEW at \in Root, NEW here \in BOOLEAN, NEW plan, Valid(plan, at, here)
  PROVE  Valid(holdBack(plan, at, here), at, here)
<1>1. PICK reqs \in Seq(Wanting(View(at, here), "upgrade")) :
        holdBack(plan, at, here) \in
          {plan, NoPlan(None), refuseAlternateUpgrade(resolve(at, reqs, here))}
  BY HeldBack
<1>2. Valid(refuseAlternateUpgrade(resolve(at, reqs, here)), at, here)
  <2>1. reqs \in Seq(Requests(View(at, here)))
    BY WantingRequests
  <2> QED BY <2>1, UpgradeValid, RefuseValid
<1>3. Valid(NoPlan(None), at, here)
  BY NothingValid
<1> QED BY <1>1, <1>2, <1>3

-----------------------------------------------------------------------------
(* The commands.                                                           *)

Verbs == {"install", "upgrade", "upgrade here", "uninstall", "downgrade", "undo"}

Shows(p) ==
  \E verb \in Verbs, at \in Root, asked \in Seq(Name), separate \in BOOLEAN : \E plan :
    Valid(plan, at, verb = "upgrade here") /\ Show(p, verb, at, asked, plan, separate)

(* The requests for what the operator typed.                               *)
LEMMA ArgumentRequests ==
  ASSUME NEW view, NEW root \in view, NEW args \in Seq(Name), NEW kind \in {"install", "remove"}
  PROVE  [i \in DOMAIN args |-> Request(kind, root, args[i])] \in Seq(Requests(view))
<1>1. Len(args) \in Nat /\ DOMAIN args = 1 .. Len(args) /\ \A i \in 1 .. Len(args) : args[i] \in Name
  OBVIOUS
<1> DEFINE m == [i \in 1 .. Len(args) |-> Request(kind, root, args[i])]
<1>2. m \in [1 .. Len(args) -> Requests(view)]
  BY <1>1, RequestType
<1>3. m \in Seq(Requests(view))
  BY <1>1, <1>2
<1> QED BY <1>1, <1>3

(* install                                                                 *)
LEMMA InstallShows ==
  ASSUME IInv, NEW p \in Process, NEW at \in Stand, NEW args \in Arguments, NEW files \in FileChoices,
         cmdInstall(p, at, args, files)
  PROVE  Shows(p)
<1>1. at \in Root /\ args \in Seq(Name) /\ TypeOK
  BY CommandsAssumption DEF IInv
<1> DEFINE reqs(target) == [i \in DOMAIN args |-> Request("install", target, args[i])]
           plan(target) == resolveCrossRoot(target, reqs(target), availableSet(target) \cup files, Options)
<1>2. PICK target \in topLevelTargetRoots(at, args, files), bypass \in BOOLEAN :
        Show(p, "install", target, args,
             IF bypass THEN plan(target) ELSE refuseAlternateUpgrade(plan(target)), FALSE)
  BY DEF cmdInstall, Map
<1>3. target \in Root
  <2>1. topLevelTargetRoots(at, args, files) \in SUBSET ({at} \cup Below[at])
    BY DEF topLevelTargetRoots
  <2> QED BY <1>1, <2>1, CommandsAssumption
<1>4. reqs(target) \in Seq(Requests(Reach(target)))
  <2>1. target \in Reach(target)
    BY DEF Reach
  <2> QED BY <1>1, <2>1, ArgumentRequests
<1>5. availableSet(target) \cup files \in SUBSET Catalog
  BY <1>1, Candidates
<1>6. Valid(plan(target), target, FALSE) /\ Valid(refuseAlternateUpgrade(plan(target)), target, FALSE)
  <2>1. Valid(plan(target), target, FALSE)
    BY <1>1, <1>3, <1>4, <1>5, CrossValid
  <2> HIDE DEF plan
  <2> QED BY <2>1, RefuseValid
<1> HIDE DEF plan
<1> QED BY <1>1, <1>2, <1>3, <1>6 DEF Shows, Verbs

(* upgrade                                                                 *)
LEMMA UpgradeShows ==
  ASSUME IInv, NEW p \in Process, NEW at \in Stand, NEW args \in Arguments, NEW here \in BOOLEAN,
         cmdUpgrade(p, at, args, here)
  PROVE  Shows(p)
<1>1. at \in Root /\ args \in Seq(Name) /\ TypeOK
  BY CommandsAssumption DEF IInv
<1> DEFINE plan == resolve(at, UpgradeRequests(at, args, here), here)
           screened == IF args = << >> THEN holdBack(plan, at, here) ELSE refuseAlternateUpgrade(plan)
           verb == IF here THEN "upgrade here" ELSE "upgrade"
<1>2. PICK bypass \in BOOLEAN : Show(p, verb, at, args, IF bypass THEN plan ELSE screened, FALSE)
  BY DEF cmdUpgrade
<1>3. Valid(plan, at, here)
  <2>1. UpgradeRequests(at, args, here) \in Seq(Requests(View(at, here)))
    BY <1>1, UpgradeRequestsType, WantingRequests
  <2> QED BY <1>1, <2>1, UpgradeValid
<1> HIDE DEF plan
<1>4. Valid(screened, at, here)
  BY <1>1, <1>3, HoldValid, RefuseValid
<1>5. verb \in Verbs /\ (verb = "upgrade here" <=> here)
  BY DEF Verbs
<1> HIDE DEF screened, verb
<1>6. Valid(IF bypass THEN plan ELSE screened, at, verb = "upgrade here")
  <2>1. (verb = "upgrade here") = here
    BY <1>5
  <2> QED BY <1>3, <1>4, <2>1
<1> QED BY <1>1, <1>2, <1>5, <1>6 DEF Shows

(* uninstall                                                               *)
LEMMA UninstallShows ==
  ASSUME IInv, NEW p \in Process, NEW at \in Stand, NEW args \in Arguments, cmdUninstall(p, at, args)
  PROVE  Shows(p)
<1>1. at \in Root /\ args \in Seq(Name) /\ TypeOK
  BY CommandsAssumption DEF IInv
<1> DEFINE reqs == [i \in DOMAIN args |-> Request("remove", at, args[i])]
           plan(c) == resolveCrossRoot(at, reqs, availableSet(at), [Options EXCEPT !.cascade = c])
<1>2. PICK cascade \in BOOLEAN : Show(p, "uninstall", at, args, plan(cascade), FALSE)
  BY DEF cmdUninstall, Map
<1>3. reqs \in Seq(Requests(Reach(at)))
  <2>1. at \in Reach(at)
    BY DEF Reach
  <2> QED BY <1>1, <2>1, ArgumentRequests
<1>4. Valid(plan(cascade), at, FALSE)
  BY <1>1, <1>3, Candidates, CrossValid
<1> HIDE DEF plan
<1> QED BY <1>1, <1>2, <1>4 DEF Shows, Verbs

(* downgrade                                                               *)
LEMMA DowngradeShows ==
  ASSUME IInv, NEW p \in Process, NEW at \in Stand, NEW c \in archiveCandidates(at),
         cmdDowngrade(p, at, c.name, c.ver)
  PROVE  Shows(p)
<1>1. at \in Root /\ TypeOK
  BY CommandsAssumption DEF IInv
<1>2. c.name \in Name /\ c.ver \in Nat
  BY <1>1, Candidates, CommandsAssumption
<1> DEFINE req == [Request("downgrade", at, c.name) EXCEPT !.ver = c.ver]
           plan == resolveCrossRoot(at, << req >>, availableSet(at) \cup archiveCandidates(at), Backward)
<1>3. Show(p, "downgrade", at, << c.name >>, refuseAlternateUpgrade(plan), FALSE)
  BY DEF cmdDowngrade
<1>4. << req >> \in Seq(Requests(Reach(at))) /\ << c.name >> \in Seq(Name)
  <2>1. req \in Requests(Reach(at))
    BY <1>2, RequestType DEF Reach
  <2> HIDE DEF req
  <2> QED BY <1>2, <2>1
<1>5. availableSet(at) \cup archiveCandidates(at) \in SUBSET Catalog
  BY <1>1, Candidates
<1>6. Valid(plan, at, FALSE)
  BY <1>1, <1>4, <1>5, CrossValid
<1> HIDE DEF plan
<1>7. Valid(refuseAlternateUpgrade(plan), at, FALSE)
  BY <1>6, RefuseValid
<1> QED BY <1>1, <1>3, <1>4, <1>7 DEF Shows, Verbs

(* undo                                                                    *)
LEMMA UndoShows ==
  ASSUME IInv, NEW p \in Process, NEW at \in Stand, cmdUndo(p, at)
  PROVE  Shows(p)
<1>1. at \in Root /\ TypeOK /\ Reach(at) \in SUBSET Root
  BY CommandsAssumption DEF IInv, Reach
<1>2. last[at].ops \in Seq(NamedOps) /\ last[at].cross \in BOOLEAN
  <2>1. last[at] # None
    BY DEF cmdUndo
  <2> QED BY <1>1, <2>1 DEF IInv, TypeOK
<1>3. PICK roots \in SetToSeqs(Reach(at)) :
        Show(p, "undo", at, << >>, UndoPlan(at, roots), last[at].cross)
  BY DEF cmdUndo
<1> DEFINE plan == resolveCrossRoot(at, UndoRequests(at, roots),
                                    availableSet(at) \cup archiveCandidates(at), Backward)
<1>4. UndoRequests(at, roots) \in Seq(Requests(Reach(at)))
  BY <1>1, <1>2, UndoRequestsType
<1>5. availableSet(at) \cup archiveCandidates(at) \in SUBSET Catalog
  BY <1>1, Candidates
<1>6. Valid(plan, at, FALSE)
  BY <1>1, <1>4, <1>5, CrossValid
<1>7. UndoPlan(at, roots) = IF last[at].cross THEN plan ELSE refuseAlternateUpgrade(plan)
  BY DEF UndoPlan
<1> HIDE DEF plan
<1>8. Valid(UndoPlan(at, roots), at, FALSE)
  BY <1>6, <1>7, RefuseValid
<1>9. << >> \in Seq(Name)
  OBVIOUS
<1> QED BY <1>1, <1>2, <1>3, <1>8, <1>9 DEF Shows, Verbs

-----------------------------------------------------------------------------
(* Running a plan keeps what is installed well formed.                     *)

HoldsPackages(t, x) == Packages(t)

RunsStep(t, k, x) == runOp(t, x.ops[k])

Runs == INSTANCE Loops WITH Step <- LAMBDA t, k, x : RunsStep(t, k, x),
                            Keeps <- LAMBDA t, k, x : HoldsPackages(t, x)

(* An operation leaves one package of a name in a root,                    *)
LEMMA RunOpPackages ==
  ASSUME NEW inst, Packages(inst), NEW op \in NamedOps
  PROVE  Packages(runOp(inst, op))
<1> DEFINE G == runOp(inst, op)
           new == IF op.to = None THEN {} ELSE {op.to}
<1>1. /\ op.root \in Root /\ new \in SUBSET Catalog /\ \A c \in new : c.name = op.name
      /\ \A c, d \in new : c = d
  BY DEF NamedOps, Operation, Named
<1>2. G = [inst EXCEPT ![op.root] = {c \in @ : c.name # op.name} \cup new]
  BY DEF runOp
<1> HIDE DEF G, new
<1>3. G \in [Root -> SUBSET Catalog]
  BY <1>1, <1>2 DEF Packages
<1>4. /\ \A r \in Root : r # op.root => G[r] = inst[r]
      /\ G[op.root] = {c \in inst[op.root] : c.name # op.name} \cup new
  BY <1>1, <1>2 DEF Packages
<1>5. ASSUME NEW r \in Root, NEW c \in G[r], NEW d \in G[r], c.name = d.name PROVE c = d
  <2>1. CASE r # op.root
    BY <2>1, <1>4, <1>5 DEF Packages
  <2>2. CASE r = op.root
    BY <2>2, <1>1, <1>4, <1>5 DEF Packages
  <2> QED BY <2>1, <2>2
<1>6. Packages(G)
  BY <1>3, <1>5 DEF Packages
<1> QED BY <1>6 DEF G

(* and so does a plan.                                                     *)
LEMMA RunPackages ==
  ASSUME NEW inst, Packages(inst), NEW ops \in Seq(NamedOps)
  PROVE  Packages(FoldLeft(runOp, inst, ops))
<1> DEFINE n == Len(ops)
           D == DOMAIN ops
           x == [ops |-> ops]
<1>1. n \in Nat /\ D = 1 .. n /\ \A k \in 1 .. n : ops[k] \in NamedOps
  OBVIOUS
<1>2. x.ops = ops
  OBVIOUS
<1> HIDE DEF x, D, n
<1>3. ASSUME NEW k \in 1 .. n, NEW t, HoldsPackages(t, x) PROVE HoldsPackages(RunsStep(t, k, x), x)
  BY <1>1, <1>2, <1>3, RunOpPackages DEF RunsStep, HoldsPackages
<1>4. HoldsPackages(inst, x)
  BY DEF HoldsPackages
<1>5. HoldsPackages(LET iter[K \in SUBSET (1 .. n)] ==
                     IF K = {} THEN inst
                     ELSE LET i == CHOOSE i \in K : \A j \in K : i >= j
                          IN RunsStep(iter[K \ {i}], i, x)
               IN iter[1 .. n], x)
  BY <1>1, <1>3, <1>4, Runs!FoldKeeps
<1>6. HoldsPackages(LET iter[K \in SUBSET D] ==
                     IF K = {} THEN inst
                     ELSE LET i == CHOOSE i \in K : \A j \in K : i >= j
                          IN runOp(iter[K \ {i}], ops[i])
               IN iter[D], x)
  BY <1>5, <1>1, <1>2 DEF RunsStep
<1> QED BY <1>6 DEF HoldsPackages, FoldLeft, MapThenFoldSet, Max, D

(* What Execute runs is well formed, wherever it runs it.                  *)
LEMMA RanOps ==
  ASSUME IInv, NEW p \in Process, job[p] # None
  PROVE  Ran(job[p]) \in Seq(NamedOps) /\ CrossRootPlan(job[p]) \in BOOLEAN
<1> DEFINE j == job[p]
           ops == j.ops
           m == [i \in 1 .. Len(ops) |-> [ops[i] EXCEPT !.root = j.at]]
<1>1. ops \in Seq(NamedOps) /\ j.at \in Root
  BY DEF IInv, TypeOK, Shown
<1>2. Len(ops) \in Nat /\ DOMAIN ops = 1 .. Len(ops) /\ \A i \in 1 .. Len(ops) : ops[i] \in NamedOps
  BY <1>1
<1>3. Ran(j) = IF CrossRootPlan(j) THEN ops ELSE m
  BY <1>2 DEF Ran, Map
<1>4. m \in Seq(NamedOps)
  <2>1. \A op \in NamedOps : [op EXCEPT !.root = j.at] \in NamedOps
    BY <1>1 DEF NamedOps, Operation, Named
  <2>2. m \in [1 .. Len(ops) -> NamedOps]
    BY <1>2, <2>1
  <2> QED BY <1>2, <2>2
<1>5. CrossRootPlan(j) \in BOOLEAN
  BY DEF CrossRootPlan, IInv, TypeOK, Shown
<1> QED BY <1>1, <1>3, <1>4, <1>5

-----------------------------------------------------------------------------
(* A step of the system shows a plan, runs or drops one, or is one of the  *)
(* repositories'.                                                          *)
LEMMA NextShows ==
  ASSUME IInv, Next
  PROVE  \/ \E p \in Process : Shows(p) \/ Execute(p) \/ Abandon(p)
         \/ \E c \in upcoming : Publish(c)
         \/ \E at \in Stand, repo \in Repo : removeRepository(at, repo) \/ addRepository(at, repo)
<1>1. CASE \E p \in Process, at \in Stand :
             \/ \E args \in Arguments, files \in FileChoices : cmdInstall(p, at, args, files)
             \/ \E args \in Arguments, noRecurse \in BOOLEAN : cmdUpgrade(p, at, args, noRecurse)
             \/ \E args \in Arguments : cmdUninstall(p, at, args)
             \/ \E c \in archiveCandidates(at) : cmdDowngrade(p, at, c.name, c.ver)
             \/ cmdUndo(p, at)
  BY <1>1, InstallShows, UpgradeShows, UninstallShows, DowngradeShows, UndoShows
<1> QED BY <1>1 DEF Next

(* A plan shown is well typed.                                             *)
LEMMA ShownType ==
  ASSUME IInv, NEW p \in Process, Shows(p)
  PROVE  IInv'
<1>1. PICK verb \in Verbs, at \in Root, asked \in Seq(Name), separate \in BOOLEAN :
        \E plan : Valid(plan, at, verb = "upgrade here") /\ Show(p, verb, at, asked, plan, separate)
  BY DEF Shows
<1>2. PICK plan : Valid(plan, at, verb = "upgrade here") /\ Show(p, verb, at, asked, plan, separate)
  BY <1>1
<1> DEFINE here == verb = "upgrade here"
           j == [verb |-> verb, at |-> at, asked |-> asked, ops |-> plan.ops,
                 auths |-> plan.auths, separate |-> separate]
<1>3. View(at, here) \in SUBSET Reach(at)
  BY InView DEF IInv
<1>4. plan.ops \in Seq(Planned(View(at, here))) /\ plan.auths \in SUBSET Authorization
  BY <1>2 DEF Valid, Resolution, PlanType
<1>5. plan.ops \in Seq(Operation) /\ plan.ops \in Seq(NamedOps)
      /\ \A op \in ToSet(plan.ops) : op.root \in Reach(at)
  <2>1. \A op \in Planned(View(at, here)) : op \in Operation /\ op \in NamedOps /\ op.root \in Reach(at)
    BY <1>3 DEF Planned, NamedOps
  <2>2. Planned(View(at, here)) \in SUBSET Operation /\ Planned(View(at, here)) \in SUBSET NamedOps
    BY <2>1
  <2> DEFINE P == Planned(View(at, here))
             ops == plan.ops
  <2>3. ops \in Seq(P) /\ P \in SUBSET Operation /\ P \in SUBSET NamedOps
    BY <1>4, <2>2
  <2>4. \A op \in P : op.root \in Reach(at)
    BY <2>1
  <2> HIDE DEF P, ops
  <2>5. ToSet(ops) \in SUBSET P
    BY <2>3, SetOfSeq
  <2>6. ops \in Seq(Operation) /\ ops \in Seq(NamedOps) /\ \A op \in ToSet(ops) : op.root \in Reach(at)
    BY <2>3, <2>4, <2>5
  <2> QED BY <2>6 DEF ops
<1>6. j \in Shown
  BY <1>4, <1>5 DEF Shown, Verbs
<1>7. job' = [job EXCEPT ![p] = j] /\ UNCHANGED <<installed, published, upcoming, configured, last>>
  BY <1>2 DEF Show
<1>8. j.ops = plan.ops /\ j.at = at
  OBVIOUS
<1> HIDE DEF j
<1>9. job \in [Process -> {None} \cup Shown]
  BY DEF IInv, TypeOK
<1>10. job'[p] = j /\ \A q \in Process : q # p => job'[q] = job[q]
  BY <1>7, <1>9
<1>11. job' \in [Process -> {None} \cup Shown]
  BY <1>6, <1>7, <1>9
<1>12. \A q \in Process : job'[q] # None =>
         /\ \A op \in ToSet(job'[q].ops) : op.root \in {job'[q].at} \cup Below[job'[q].at]
         /\ job'[q].ops \in Seq(NamedOps)
  BY <1>5, <1>8, <1>10 DEF IInv, TypeOK, Reach
<1> QED BY <1>7, <1>11, <1>12 DEF IInv, TypeOK

(* So is what an execution leaves and records.                             *)
LEMMA ExecuteType ==
  ASSUME IInv, NEW p \in Process, Execute(p)
  PROVE  IInv'
<1> DEFINE ops == Ran(job[p])
           entry == [cross |-> CrossRootPlan(job[p]), ops |-> ops]
<1>1. job[p] # None
  BY DEF Execute
<1>2. ops \in Seq(NamedOps) /\ CrossRootPlan(job[p]) \in BOOLEAN
  BY <1>1, RanOps
<1>3. ops \in Seq(Operation)
  <2>1. NamedOps \in SUBSET Operation
    BY DEF NamedOps
  <2> HIDE DEF ops
  <2> QED BY <1>2, <2>1
<1>4. Packages(FoldLeft(runOp, installed, ops))
  BY <1>2, RunPackages DEF IInv, TypeOK, Packages
<1>5. /\ installed' = FoldLeft(runOp, installed, ops)
      /\ last' = [r \in Root |-> IF r \in planRoots(ops) THEN entry ELSE last[r]]
      /\ job' = [job EXCEPT ![p] = None] /\ UNCHANGED <<published, upcoming, configured>>
  BY DEF Execute
<1>6. entry \in [cross : BOOLEAN, ops : Seq(Operation)] /\ entry.ops = ops
  BY <1>2, <1>3
<1> HIDE DEF ops, entry
<1>7. \A r \in Root : \/ last'[r] = entry /\ \E op \in ToSet(ops) : op.root = r
                      \/ last'[r] = last[r]
  BY <1>5 DEF planRoots
<1>8. last' \in [Root -> {None} \cup [cross : BOOLEAN, ops : Seq(Operation)]]
  BY <1>5, <1>6 DEF IInv, TypeOK
<1>9. \A r \in Root : last'[r] # None =>
        (\E op \in ToSet(last'[r].ops) : op.root = r) /\ last'[r].ops \in Seq(NamedOps)
  BY <1>2, <1>6, <1>7 DEF IInv, TypeOK
<1>10. \A q \in Process : job'[q] \in {None, job[q]}
  BY <1>5 DEF IInv, TypeOK
<1>11. job' \in [Process -> {None} \cup Shown]
  BY <1>5 DEF IInv, TypeOK
<1>12. \A q \in Process : job'[q] # None =>
         /\ \A op \in ToSet(job'[q].ops) : op.root \in {job'[q].at} \cup Below[job'[q].at]
         /\ job'[q].ops \in Seq(NamedOps)
  BY <1>10 DEF IInv, TypeOK
<1> QED BY <1>4, <1>5, <1>8, <1>9, <1>11, <1>12 DEF IInv, TypeOK, Packages

(* IInv holds at the start                                                 *)
LEMMA IInvInit == Init => IInv
<1> SUFFICES ASSUME Init PROVE IInv
  OBVIOUS
<1>1. /\ installed = [r \in Root |-> {}] /\ last = [r \in Root |-> None] /\ job = [p \in Process |-> None]
      /\ configured = [r \in Root |-> IF r \in Stand THEN Repo ELSE {}]
  BY DEF Init
<1>2. PICK u \in Upstreams : published = u.now /\ upcoming = u.later
  BY DEF Init
<1>3. /\ u.now \in SUBSET Catalog /\ u.later \in SUBSET Catalog
      /\ u.now \cap u.later = {} /\ (u.now \cup u.later) \cap Files = {}
  BY CommandsAssumption DEF Catalog
<1>4. published \subseteq Catalog \ Files /\ upcoming \subseteq Catalog \ (published \cup Files)
  BY <1>2, <1>3
<1> QED BY <1>1, <1>4 DEF IInv, TypeOK

(* and is kept by every step.                                              *)
LEMMA IInvNext == IInv /\ [Next]_vars => IInv'
<1> SUFFICES ASSUME IInv, [Next]_vars PROVE IInv'
  OBVIOUS
<1>1. ASSUME NEW p \in Process, Shows(p) PROVE IInv'
  BY <1>1, ShownType
<1>2. ASSUME NEW p \in Process, Execute(p) PROVE IInv'
  BY <1>2, ExecuteType
<1>3. ASSUME NEW p \in Process, Abandon(p) PROVE IInv'
  <2>1. job' = [job EXCEPT ![p] = None] /\ UNCHANGED <<installed, published, upcoming, configured, last>>
    BY <1>3 DEF Abandon
  <2>2. job' \in [Process -> {None} \cup Shown] /\ \A q \in Process : job'[q] \in {None, job[q]}
    BY <2>1 DEF IInv, TypeOK
  <2> QED BY <2>1, <2>2 DEF IInv, TypeOK
<1>4. ASSUME NEW c \in upcoming, Publish(c) PROVE IInv'
  <2>1. /\ published' = published \cup {c} /\ upcoming' = upcoming \ {c}
        /\ UNCHANGED <<installed, configured, last, job>>
    BY <1>4 DEF Publish
  <2>2. published' \subseteq Catalog \ Files /\ upcoming' \subseteq Catalog \ (published' \cup Files)
    BY <2>1 DEF IInv, TypeOK
  <2> QED BY <2>1, <2>2 DEF IInv, TypeOK
<1>5. ASSUME NEW at \in Stand, NEW repo \in Repo,
             removeRepository(at, repo) \/ addRepository(at, repo)
      PROVE  IInv'
  <2>1. /\ \E S \in SUBSET Repo : configured' = [configured EXCEPT ![at] = S]
        /\ UNCHANGED <<installed, published, upcoming, last, job>>
    <3>1. configured[at] \in SUBSET Repo
      BY CommandsAssumption DEF IInv, TypeOK
    <3>2. configured[at] \ {repo} \in SUBSET Repo /\ configured[at] \cup {repo} \in SUBSET Repo
      BY <3>1
    <3> QED BY <1>5, <3>2 DEF removeRepository, addRepository
  <2>2. configured' \in [Root -> SUBSET Repo]
    BY <2>1 DEF IInv, TypeOK
  <2> QED BY <2>1, <2>2 DEF IInv, TypeOK
<1>6. CASE UNCHANGED vars
  BY <1>6 DEF vars, IInv, TypeOK
<1> QED BY <1>1, <1>2, <1>3, <1>4, <1>5, <1>6, NextShows

(* The state is well typed in every reachable state: what is installed is  *)
(* one package of a name in each root, plans and journal entries name      *)
(* operations of roots the command could reach (lifecycle.go, resolve.go). *)
THEOREM TypeCorrect == Spec => []TypeOK
<1>1. IInv => TypeOK
  BY DEF IInv
<1> QED BY IInvInit, IInvNext, <1>1, PTL DEF Spec

-----------------------------------------------------------------------------
(* Nothing is left broken.                                                 *)

(* One plan at a time waits for the operator.                              *)
Alone == \A p, q \in Process : job[p] # None /\ job[q] # None => p = q

(* A plan runs in the roots it was shown for (see RunsWhereShown).         *)
InPlace == \A p \in Process : job[p] # None => Ran(job[p]) = job[p].ops

(* Dependencies stay in one root, or whoever resolves sees every root.     *)
Sighted ==
  DepsStayHere \/ \A p \in Process : job[p] # None =>
                    Reach(job[p].at) = Root /\ job[p].verb # "upgrade here"

WholeInv ==
  /\ IInv /\ Whole(installed)
  /\ \A p \in Process : job[p] # None => Whole(FoldLeft(runOp, installed, job[p].ops))

(* Nothing installed is whole.                                             *)
LEMMA EmptyWhole == Init => Whole(installed)
<1> SUFFICES ASSUME Init PROVE Whole(installed)
  OBVIOUS
<1>1. installed = [r \in Root |-> {}]
  BY DEF Init
<1>2. installed \in [Root -> SUBSET Catalog] /\ \A r \in Root : installed[r] = {}
  BY <1>1
<1> QED BY <1>2, WholeMeans

(* Running the plan that is shown would leave everything whole,            *)
LEMMA ShownWhole ==
  ASSUME OneBuildPerVersion, WholeInv, NEW p \in Process, Shows(p), IInv', Sighted'
  PROVE  WholeInv'
<1>1. PICK verb \in Verbs, at \in Root, asked \in Seq(Name), separate \in BOOLEAN :
        \E plan : Valid(plan, at, verb = "upgrade here") /\ Show(p, verb, at, asked, plan, separate)
  BY DEF Shows
<1>2. PICK plan : Valid(plan, at, verb = "upgrade here") /\ Show(p, verb, at, asked, plan, separate)
  BY <1>1
<1> DEFINE here == verb = "upgrade here"
           view == View(at, here)
           refs == Refs(at, here)
           j == [verb |-> verb, at |-> at, asked |-> asked, ops |-> plan.ops,
                 auths |-> plan.auths, separate |-> separate]
<1>3. /\ view \in SUBSET Root /\ (refs = None \/ refs \in SUBSET view)
      /\ Packages(installed)
  BY InView DEF WholeInv, IInv
<1>4. /\ plan.reason = None /\ plan.ops # << >>
      /\ job' = [job EXCEPT ![p] = j] /\ installed' = installed
  BY <1>2 DEF Show
<1>5. j.ops = plan.ops /\ j.at = at /\ j.verb = verb
  OBVIOUS
<1> HIDE DEF j
<1>6. job'[p] = j /\ \A q \in Process : q # p => job'[q] = job[q]
  BY <1>4 DEF WholeInv, IInv, TypeOK
<1>7. CASE job'[p] = None
  BY <1>4, <1>6, <1>7 DEF WholeInv
<1>8. CASE job'[p] # None
  <2>1. DepsStayHere \/ (view = Root /\ refs # None)
    <3>1. CASE ~DepsStayHere
      <4>1. Reach(at) = Root /\ verb # "upgrade here"
        BY <3>1, <1>5, <1>6, <1>8 DEF Sighted
      <4>2. view = Root /\ refs = Below[at]
        BY <4>1 DEF View, Refs
      <4>3. Below[at] # None
        BY ResolverAssumption, CommandsAssumption
      <4> QED BY <4>2, <4>3
    <3> QED BY <3>1
  <2>2. plan.ops \in Seq(Planned(view)) /\ Achieves(plan.ops, Seen(installed, view), view, refs)
    BY <1>2, <1>4 DEF Valid, Resolution, PlanType
  <2>3. plan.ops \in Seq(Planned(Root))
    <3>1. Planned(view) \in SUBSET Planned(Root)
      BY <1>3 DEF Planned
    <3> DEFINE ops == plan.ops
               P == Planned(view)
               Q == Planned(Root)
    <3>2. ops \in Seq(P) /\ P \in SUBSET Q
      BY <2>2, <3>1
    <3> HIDE DEF ops, P, Q
    <3>3. ops \in Seq(Q)
      BY <3>2
    <3> QED BY <3>3 DEF ops, Q
  <2>4. Whole(FoldLeft(runOp, installed, plan.ops))
    <3> HIDE DEF view, refs
    <3> QED BY <1>3, <2>1, <2>2, <2>3, AchievedWhole DEF WholeInv
  <2>5. \A q \in Process : job'[q] # None => Whole(FoldLeft(runOp, installed, job'[q].ops))
    BY <1>5, <1>6, <2>4 DEF WholeInv
  <2> QED BY <1>4, <2>5 DEF WholeInv
<1> QED BY <1>7, <1>8

(* and nothing else has changed what is installed when it runs.            *)
LEMMA ExecutedWhole ==
  ASSUME WholeInv, Alone, InPlace, NEW p \in Process, Execute(p), IInv'
  PROVE  WholeInv'
<1>1. /\ job[p] # None /\ installed' = FoldLeft(runOp, installed, Ran(job[p]))
      /\ job' = [job EXCEPT ![p] = None]
  BY DEF Execute
<1>2. installed' = FoldLeft(runOp, installed, job[p].ops)
  BY <1>1 DEF InPlace
<1>3. Whole(installed')
  BY <1>1, <1>2 DEF WholeInv
<1>4. \A q \in Process : job'[q] = None
  BY <1>1 DEF Alone, WholeInv, IInv, TypeOK
<1> QED BY <1>3, <1>4 DEF WholeInv

(* So every step keeps WholeInv.                                           *)
LEMMA WholeStep ==
  ASSUME OneBuildPerVersion, WholeInv, [Next]_vars, Alone, InPlace, Sighted'
  PROVE  WholeInv'
<1>1. IInv'
  BY IInvNext DEF WholeInv
<1>2. ASSUME NEW p \in Process, Shows(p) PROVE WholeInv'
  BY <1>1, <1>2, ShownWhole
<1>3. ASSUME NEW p \in Process, Execute(p) PROVE WholeInv'
  BY <1>1, <1>3, ExecutedWhole
<1>4. ASSUME installed' = installed, \A p \in Process : job'[p] \in {None, job[p]} PROVE WholeInv'
  BY <1>1, <1>4 DEF WholeInv
<1>5. ASSUME NEW p \in Process, Abandon(p) PROVE WholeInv'
  BY <1>4, <1>5 DEF Abandon, WholeInv, IInv, TypeOK
<1>6. ASSUME NEW c \in upcoming, Publish(c) PROVE WholeInv'
  BY <1>4, <1>6 DEF Publish
<1>7. ASSUME NEW at \in Stand, NEW repo \in Repo,
             removeRepository(at, repo) \/ addRepository(at, repo)
      PROVE  WholeInv'
  BY <1>4, <1>7 DEF removeRepository, addRepository
<1>8. CASE UNCHANGED vars
  BY <1>4, <1>8 DEF vars
<1> QED BY <1>2, <1>3, <1>5, <1>6, <1>7, <1>8, NextShows DEF WholeInv

(* InstalledWhole: no sequence of commands leaves a package without its    *)
(* dependencies or with a conflict, while one plan at a time waits for the *)
(* operator, plans run in the roots they were shown for, whoever resolves  *)
(* sees every root a dependency may name, and two builds of one version of *)
(* a package declare the same relations (Resolve, transact in              *)
(* lifecycle.go).                                                          *)
THEOREM StaysWhole ==
  ASSUME OneBuildPerVersion
  PROVE  Spec /\ [](Alone /\ InPlace /\ Sighted) => []InstalledWhole
<1>1. Init => WholeInv
  <2> SUFFICES ASSUME Init PROVE WholeInv
    OBVIOUS
  <2>1. \A p \in Process : job[p] = None
    BY DEF Init
  <2> QED BY <2>1, IInvInit, EmptyWhole DEF WholeInv
<1>2. WholeInv /\ [Next]_vars /\ (Alone /\ InPlace /\ Sighted) /\ (Alone /\ InPlace /\ Sighted)' => WholeInv'
  BY WholeStep
<1>3. WholeInv => InstalledWhole
  BY DEF WholeInv, Whole, InstalledWhole
<1> QED BY <1>1, <1>2, <1>3, PTL DEF Spec

(* On a system with one root the last two hypotheses always hold.          *)
LEMMA PlainRun ==
  ASSUME IInv, \A r \in Root : Below[r] = {}
  PROVE  InPlace
<1> SUFFICES ASSUME NEW p \in Process, job[p] # None PROVE Ran(job[p]) = job[p].ops
  BY DEF InPlace
<1> DEFINE j == job[p]
           ops == j.ops
           m == [i \in 1 .. Len(ops) |-> [ops[i] EXCEPT !.root = j.at]]
<1>1. ops \in Seq(Operation) /\ j.at \in Root /\ \A op \in ToSet(ops) : op.root \in {j.at} \cup Below[j.at]
  BY DEF IInv, TypeOK, Shown
<1>2. Len(ops) \in Nat /\ DOMAIN ops = 1 .. Len(ops) /\ ops = [i \in 1 .. Len(ops) |-> ops[i]]
      /\ \A i \in 1 .. Len(ops) : ops[i] \in Operation
  BY <1>1
<1>3. \A i \in 1 .. Len(ops) : ops[i].root = j.at
  BY <1>1, <1>2 DEF ToSet
<1>4. \A op \in Operation : op.root = j.at => [op EXCEPT !.root = j.at] = op
  BY DEF Operation
<1>5. \A i \in 1 .. Len(ops) : [ops[i] EXCEPT !.root = j.at] = ops[i]
  BY <1>2, <1>3, <1>4
<1>6. m = ops
  BY <1>2, <1>5
<1>7. Ran(j) = IF CrossRootPlan(j) THEN ops ELSE m
  BY <1>2 DEF Ran, Map
<1> QED BY <1>6, <1>7

(* The same with no hypothesis on the behaviour, for a system with one     *)
(* root and one operator (resolve.go, lifecycle.go).                       *)
THEOREM OneRootStaysWhole ==
  ASSUME OneBuildPerVersion, DepsStayHere, \A p, q \in Process : p = q, \A r \in Root : Below[r] = {}
  PROVE  Spec => []InstalledWhole
<1>1. IInv => Alone /\ InPlace /\ Sighted
  BY PlainRun DEF Alone, Sighted
<1> QED BY <1>1, IInvInit, IInvNext, StaysWhole, PTL DEF Spec

-----------------------------------------------------------------------------
(* The choice between candidates for a name, when nobody depends on it.    *)

Wins(a, b, name) == morePreferred(a, b, name, NoDepender)

(* What the selection rules compare.                                       *)
Grade(c, name) ==
  [trust |-> PriorityOfCandidate(c), role |-> roleVersion(c, name), ver |-> c.ver,
   native |-> Native(c), name |-> Position(NameSeq, c.name), repo |-> Position(RepoSeq, c.repo)]

(* The rules for two revisions of one package, and for two packages.       *)
BetterRevision(g, h) ==
  \/ g.trust < h.trust
  \/ g.trust = h.trust /\ g.role > h.role
  \/ g.trust = h.trust /\ g.role = h.role /\ g.ver > h.ver
  \/ g.trust = h.trust /\ g.role = h.role /\ g.ver = h.ver /\ g.native > h.native
  \/ /\ g.trust = h.trust /\ g.role = h.role /\ g.ver = h.ver /\ g.native = h.native
     /\ g.repo < h.repo

BetterPackage(g, h) ==
  \/ g.native > h.native
  \/ g.native = h.native /\ g.trust < h.trust
  \/ g.native = h.native /\ g.trust = h.trust /\ g.role > h.role
  \/ g.native = h.native /\ g.trust = h.trust /\ g.role = h.role /\ g.name < h.name

Grades == [trust : Int, role : Int, ver : Int, native : Int, name : Int, repo : Int]

(* Candidates that can be told apart.                                      *)
Comparable(M, name) ==
  /\ M \in SUBSET Catalog
  /\ \A c \in M : installableArch(c.arch) /\ c.repo \in Repo /\ Grade(c, name) \in Grades
  /\ \A c, d \in M : c.name = d.name /\ c.ver = d.ver /\ c.arch = d.arch /\ c.repo = d.repo => c = d

(* The first number that is not zero is positive.                          *)
LEMMA FirstPositive ==
  ASSUME NEW t, DOMAIN t = 1 .. 8
  PROVE  (\E i \in DOMAIN t : t[i] > 0 /\ \A j \in 1 .. i - 1 : t[j] = 0)
         <=> \/ t[1] > 0
             \/ t[1] = 0 /\ t[2] > 0
             \/ t[1] = 0 /\ t[2] = 0 /\ t[3] > 0
             \/ t[1] = 0 /\ t[2] = 0 /\ t[3] = 0 /\ t[4] > 0
             \/ t[1] = 0 /\ t[2] = 0 /\ t[3] = 0 /\ t[4] = 0 /\ t[5] > 0
             \/ t[1] = 0 /\ t[2] = 0 /\ t[3] = 0 /\ t[4] = 0 /\ t[5] = 0 /\ t[6] > 0
             \/ /\ t[1] = 0 /\ t[2] = 0 /\ t[3] = 0 /\ t[4] = 0 /\ t[5] = 0 /\ t[6] = 0
                /\ t[7] > 0
             \/ /\ t[1] = 0 /\ t[2] = 0 /\ t[3] = 0 /\ t[4] = 0 /\ t[5] = 0 /\ t[6] = 0
                /\ t[7] = 0 /\ t[8] > 0
<1> DEFINE Leads(i) == t[i] > 0 /\ \A j \in 1 .. i - 1 : t[j] = 0
<1>1. \A j : j \in 1 .. 8 <=> j \in {1, 2, 3, 4, 5, 6, 7, 8}
  OBVIOUS
<1>2. Leads(1) <=> t[1] > 0
  OBVIOUS
<1>3. Leads(2) <=> t[1] = 0 /\ t[2] > 0
  <2>1. 1 .. 2 - 1 = {1}
    OBVIOUS
  <2> QED BY <2>1
<1>4. Leads(3) <=> t[1] = 0 /\ t[2] = 0 /\ t[3] > 0
  <2>1. 1 .. 3 - 1 = {1, 2}
    OBVIOUS
  <2> QED BY <2>1
<1>5. Leads(4) <=> t[1] = 0 /\ t[2] = 0 /\ t[3] = 0 /\ t[4] > 0
  <2>1. 1 .. 4 - 1 = {1, 2, 3}
    OBVIOUS
  <2> QED BY <2>1
<1>6. Leads(5) <=> t[1] = 0 /\ t[2] = 0 /\ t[3] = 0 /\ t[4] = 0 /\ t[5] > 0
  <2>1. 1 .. 5 - 1 = {1, 2, 3, 4}
    OBVIOUS
  <2> QED BY <2>1
<1>7. Leads(6) <=> t[1] = 0 /\ t[2] = 0 /\ t[3] = 0 /\ t[4] = 0 /\ t[5] = 0 /\ t[6] > 0
  <2>1. 1 .. 6 - 1 = {1, 2, 3, 4, 5}
    OBVIOUS
  <2> QED BY <2>1
<1>8. Leads(7) <=> t[1] = 0 /\ t[2] = 0 /\ t[3] = 0 /\ t[4] = 0 /\ t[5] = 0 /\ t[6] = 0 /\ t[7] > 0
  <2>1. 1 .. 7 - 1 = {1, 2, 3, 4, 5, 6}
    OBVIOUS
  <2> QED BY <2>1
<1>9. Leads(8) <=> t[1] = 0 /\ t[2] = 0 /\ t[3] = 0 /\ t[4] = 0 /\ t[5] = 0 /\ t[6] = 0 /\ t[7] = 0 /\ t[8] > 0
  <2>1. 1 .. 8 - 1 = {1, 2, 3, 4, 5, 6, 7}
    OBVIOUS
  <2> QED BY <2>1
<1>10. (\E i \in DOMAIN t : Leads(i)) <=> \/ Leads(1) \/ Leads(2) \/ Leads(3) \/ Leads(4)
                                           \/ Leads(5) \/ Leads(6) \/ Leads(7) \/ Leads(8)
  <2> HIDE DEF Leads
  <2> QED BY <1>1
<1> HIDE DEF Leads
<1> QED BY <1>2, <1>3, <1>4, <1>5, <1>6, <1>7, <1>8, <1>9, <1>10 DEF Leads

(* Which of two candidates wins.                                           *)
LEMMA WinsMeans ==
  ASSUME NEW name, NEW M, Comparable(M, name), NEW a \in M, NEW b \in M
  PROVE  Wins(a, b, name) <=>
           IF a.name = b.name THEN BetterRevision(Grade(a, name), Grade(b, name))
           ELSE BetterPackage(Grade(a, name), Grade(b, name))
<1> DEFINE g == Grade(a, name)
           h == Grade(b, name)
<1>1. g \in Grades /\ h \in Grades
  BY DEF Comparable
<1>2. ~KeepsRepository(a, b, NoDepender) /\ ~KeepsRepository(b, a, NoDepender)
  BY DEF KeepsRepository, NoDepender
<1>3. SelectionRules(a, b, name, NoDepender) =
        << IF a.name = b.name THEN 0 ELSE g.native - h.native, 0, h.trust - g.trust,
           g.role - h.role, IF a.name = b.name THEN g.ver - h.ver ELSE 0,
           IF a.name = b.name THEN g.native - h.native ELSE 0, h.name - g.name, h.repo - g.repo >>
  <2>1. /\ g.trust = PriorityOfCandidate(a) /\ g.role = roleVersion(a, name) /\ g.ver = a.ver
        /\ g.native = Native(a) /\ g.name = Position(NameSeq, a.name) /\ g.repo = Position(RepoSeq, a.repo)
        /\ h.trust = PriorityOfCandidate(b) /\ h.role = roleVersion(b, name) /\ h.ver = b.ver
        /\ h.native = Native(b) /\ h.name = Position(NameSeq, b.name) /\ h.repo = Position(RepoSeq, b.repo)
    BY DEF Grade
  <2>2. Score(KeepsRepository(a, b, NoDepender)) - Score(KeepsRepository(b, a, NoDepender)) = 0
    <3>1. Score(KeepsRepository(a, b, NoDepender)) = 0 /\ Score(KeepsRepository(b, a, NoDepender)) = 0
      BY <1>2 DEF Score
    <3> QED BY <3>1
  <2> HIDE DEF g, h
  <2> QED BY <2>1, <2>2, Zenon DEF SelectionRules
<1>4. a.name = b.name => g.name = h.name
  BY DEF Grade
<1>5. a.name # b.name => g.name # h.name
  <2>1. a.name \in ToSet(NameSeq) /\ b.name \in ToSet(NameSeq) /\ NameSeq \in Seq(Name)
    BY CommandsAssumption, ResolverAssumption DEF Comparable, Name
  <2>2. NameSeq[Position(NameSeq, a.name)] = a.name /\ NameSeq[Position(NameSeq, b.name)] = b.name
    BY <2>1, PositionFacts
  <2> QED BY <2>2 DEF Grade
<1>6. /\ g.trust \in Int /\ g.role \in Int /\ g.ver \in Int /\ g.native \in Int /\ g.name \in Int /\ g.repo \in Int
      /\ h.trust \in Int /\ h.role \in Int /\ h.ver \in Int /\ h.native \in Int /\ h.name \in Int /\ h.repo \in Int
  BY <1>1 DEF Grades
<1> HIDE DEF g, h
<1> DEFINE rules == SelectionRules(a, b, name, NoDepender)
<1>7. Wins(a, b, name) <=> \E i \in DOMAIN rules : rules[i] > 0 /\ \A j \in 1 .. i - 1 : rules[j] = 0
  BY DEF Wins, morePreferred
<1>8. CASE a.name = b.name
  <2>1. rules = << 0, 0, h.trust - g.trust, g.role - h.role, g.ver - h.ver, g.native - h.native,
                   h.name - g.name, h.repo - g.repo >>
    BY <1>3, <1>8
  <2> DEFINE r3 == h.trust - g.trust
             r4 == g.role - h.role
             r5 == g.ver - h.ver
             r6 == g.native - h.native
             r7 == h.name - g.name
             r8 == h.repo - g.repo
  <2>2. r3 \in Int /\ r4 \in Int /\ r5 \in Int /\ r6 \in Int /\ r7 \in Int /\ r8 \in Int
    BY <1>6
  <2>3. r7 = 0
    BY <1>4, <1>6, <1>8
  <2> HIDE DEF rules, r3, r4, r5, r6, r7, r8
  <2>4. rules = << 0, 0, r3, r4, r5, r6, r7, r8 >>
    BY <2>1 DEF r3, r4, r5, r6, r7, r8
  <2>5. Wins(a, b, name) <=>
          \/ r3 > 0
          \/ r3 = 0 /\ r4 > 0
          \/ r3 = 0 /\ r4 = 0 /\ r5 > 0
          \/ r3 = 0 /\ r4 = 0 /\ r5 = 0 /\ r6 > 0
          \/ r3 = 0 /\ r4 = 0 /\ r5 = 0 /\ r6 = 0 /\ r8 > 0
    <3>1. DOMAIN rules = 1 .. 8 /\ rules[1] = 0 /\ rules[2] = 0 /\ rules[3] = r3 /\ rules[4] = r4
          /\ rules[5] = r5 /\ rules[6] = r6 /\ rules[7] = r7 /\ rules[8] = r8
      BY <2>4
    <3>2. Wins(a, b, name) <=> \E i \in DOMAIN rules : rules[i] > 0 /\ \A j \in 1 .. i - 1 : rules[j] = 0
      BY <1>7 DEF rules
    <3>3. ~(0 > 0)
      OBVIOUS
    <3> QED BY <2>3, <3>1, <3>2, <3>3, FirstPositive
  <2>6. (r3 > 0 <=> g.trust < h.trust) /\ (r3 = 0 <=> g.trust = h.trust)
    BY <1>6 DEF r3
  <2>7. (r4 > 0 <=> g.role > h.role) /\ (r4 = 0 <=> g.role = h.role)
    BY <1>6 DEF r4
  <2>8. (r5 > 0 <=> g.ver > h.ver) /\ (r5 = 0 <=> g.ver = h.ver)
    BY <1>6 DEF r5
  <2>9. (r6 > 0 <=> g.native > h.native) /\ (r6 = 0 <=> g.native = h.native)
    BY <1>6 DEF r6
  <2>10. r8 > 0 <=> g.repo < h.repo
    BY <1>6 DEF r8
  <2>11. BetterRevision(g, h) <=> Wins(a, b, name)
    BY <2>5, <2>6, <2>7, <2>8, <2>9, <2>10 DEF BetterRevision
  <2> QED BY <2>11, <1>8 DEF g, h
<1>9. CASE a.name # b.name
  <2>1. rules = << g.native - h.native, 0, h.trust - g.trust, g.role - h.role, 0, 0,
                   h.name - g.name, h.repo - g.repo >>
    BY <1>3, <1>9
  <2> DEFINE r1 == g.native - h.native
             r3 == h.trust - g.trust
             r4 == g.role - h.role
             r7 == h.name - g.name
             r8 == h.repo - g.repo
  <2>2. r1 \in Int /\ r3 \in Int /\ r4 \in Int /\ r7 \in Int /\ r8 \in Int
    BY <1>6
  <2>3. r7 # 0
    BY <1>5, <1>6, <1>9
  <2> HIDE DEF rules, r1, r3, r4, r7, r8
  <2>4. rules = << r1, 0, r3, r4, 0, 0, r7, r8 >>
    BY <2>1 DEF r1, r3, r4, r7, r8
  <2>5. Wins(a, b, name) <=>
          \/ r1 > 0
          \/ r1 = 0 /\ r3 > 0
          \/ r1 = 0 /\ r3 = 0 /\ r4 > 0
          \/ r1 = 0 /\ r3 = 0 /\ r4 = 0 /\ r7 > 0
    <3>1. DOMAIN rules = 1 .. 8 /\ rules[1] = r1 /\ rules[2] = 0 /\ rules[3] = r3 /\ rules[4] = r4
          /\ rules[5] = 0 /\ rules[6] = 0 /\ rules[7] = r7 /\ rules[8] = r8
      BY <2>4
    <3>2. Wins(a, b, name) <=> \E i \in DOMAIN rules : rules[i] > 0 /\ \A j \in 1 .. i - 1 : rules[j] = 0
      BY <1>7 DEF rules
    <3>3. ~(0 > 0)
      OBVIOUS
    <3> QED BY <2>3, <3>1, <3>2, <3>3, FirstPositive
  <2>6. (r1 > 0 <=> g.native > h.native) /\ (r1 = 0 <=> g.native = h.native)
    BY <1>6 DEF r1
  <2>7. (r3 > 0 <=> g.trust < h.trust) /\ (r3 = 0 <=> g.trust = h.trust)
    BY <1>6 DEF r3
  <2>8. (r4 > 0 <=> g.role > h.role) /\ (r4 = 0 <=> g.role = h.role)
    BY <1>6 DEF r4
  <2>9. r7 > 0 <=> g.name < h.name
    BY <1>6 DEF r7
  <2>10. BetterPackage(g, h) <=> Wins(a, b, name)
    BY <2>5, <2>6, <2>7, <2>8, <2>9 DEF BetterPackage
  <2> QED BY <2>10, <1>9 DEF g, h
<1> QED BY <1>8, <1>9

(* Winning is asymmetric, and decides between any two candidates.          *)
LEMMA WinsOnce ==
  ASSUME NEW name, NEW M, Comparable(M, name), NEW a \in M, NEW b \in M
  PROVE  /\ ~(Wins(a, b, name) /\ Wins(b, a, name))
         /\ a # b => Wins(a, b, name) \/ Wins(b, a, name)
<1> DEFINE g == Grade(a, name)
           h == Grade(b, name)
<1>1. g \in Grades /\ h \in Grades
  BY DEF Comparable
<1>2. \A u, v \in Grades : /\ ~(BetterRevision(u, v) /\ BetterRevision(v, u))
                           /\ ~(BetterPackage(u, v) /\ BetterPackage(v, u))
  BY DEF Grades, BetterRevision, BetterPackage
<1>3. \A u, v \in Grades :
        /\ BetterRevision(u, v) \/ BetterRevision(v, u) \/ (u.ver = v.ver /\ u.native = v.native /\ u.repo = v.repo)
        /\ BetterPackage(u, v) \/ BetterPackage(v, u) \/ u.name = v.name
  BY DEF Grades, BetterRevision, BetterPackage
<1>4. g.ver = h.ver /\ g.native = h.native /\ g.repo = h.repo /\ a.name = b.name => a = b
  <2> SUFFICES ASSUME g.ver = h.ver, g.native = h.native, g.repo = h.repo, a.name = b.name PROVE a = b
    OBVIOUS
  <2>1. a.ver = b.ver
    BY DEF Grade
  <2>2. a.arch = b.arch
    <3>1. Native(a) = Native(b)
      BY DEF Grade
    <3>2. a.arch \in {PrimaryArch, NoArch} /\ b.arch \in {PrimaryArch, NoArch}
      BY DEF Comparable, installableArch
    <3> QED BY <3>1, <3>2 DEF Native, Score
  <2>3. a.repo = b.repo
    <3>1. a.repo \in ToSet(RepoSeq) /\ b.repo \in ToSet(RepoSeq) /\ RepoSeq \in Seq(Repo)
      BY ResolverAssumption DEF Comparable, Repo
    <3>2. RepoSeq[Position(RepoSeq, a.repo)] = a.repo /\ RepoSeq[Position(RepoSeq, b.repo)] = b.repo
      BY <3>1, PositionFacts
    <3> QED BY <3>2 DEF Grade
  <2> QED BY <2>1, <2>2, <2>3 DEF Comparable
<1>5. a.name # b.name => g.name # h.name
  <2>1. a.name \in ToSet(NameSeq) /\ b.name \in ToSet(NameSeq) /\ NameSeq \in Seq(Name)
    BY CommandsAssumption, ResolverAssumption DEF Comparable, Name
  <2>2. NameSeq[Position(NameSeq, a.name)] = a.name /\ NameSeq[Position(NameSeq, b.name)] = b.name
    BY <2>1, PositionFacts
  <2> QED BY <2>2 DEF Grade
<1>6. /\ Wins(a, b, name) <=> IF a.name = b.name THEN BetterRevision(g, h) ELSE BetterPackage(g, h)
      /\ Wins(b, a, name) <=> IF b.name = a.name THEN BetterRevision(h, g) ELSE BetterPackage(h, g)
  BY WinsMeans
<1> HIDE DEF g, h
<1>7. CASE a.name = b.name
  BY <1>1, <1>2, <1>3, <1>4, <1>6, <1>7
<1>8. CASE a.name # b.name
  BY <1>1, <1>2, <1>3, <1>5, <1>6, <1>8
<1> QED BY <1>7, <1>8

(* Among revisions of one package, and among different packages, it is     *)
(* transitive; a mixture need not be, which is why pickBest has two        *)
(* rounds.                                                                 *)
Ranked(D, name) ==
  /\ \A a, b \in D : a # b => Wins(a, b, name) \/ Wins(b, a, name)
  /\ \A a, b, c \in D : Wins(a, b, name) /\ Wins(b, c, name) => Wins(a, c, name)

(* Both kinds of candidates are ranked.                                    *)
LEMMA Ranks ==
  ASSUME NEW name, NEW M, Comparable(M, name), NEW D \in SUBSET M,
         \/ \A a, b \in D : a.name = b.name
         \/ \A a, b \in D : a.name = b.name => a = b
  PROVE  Ranked(D, name)
<1>1. \A a, b \in D : a # b => Wins(a, b, name) \/ Wins(b, a, name)
  BY WinsOnce
<1>2. \A a \in D : Grade(a, name) \in Grades
  BY DEF Comparable
<1>3. \A u, v, w \in Grades :
        /\ BetterRevision(u, v) /\ BetterRevision(v, w) => BetterRevision(u, w)
        /\ BetterPackage(u, v) /\ BetterPackage(v, w) => BetterPackage(u, w)
  <2> TAKE u, v, w \in Grades
  <2>1. /\ u.trust \in Int /\ u.role \in Int /\ u.ver \in Int /\ u.native \in Int /\ u.name \in Int /\ u.repo \in Int
        /\ v.trust \in Int /\ v.role \in Int /\ v.ver \in Int /\ v.native \in Int /\ v.name \in Int /\ v.repo \in Int
        /\ w.trust \in Int /\ w.role \in Int /\ w.ver \in Int /\ w.native \in Int /\ w.name \in Int /\ w.repo \in Int
    BY DEF Grades
  <2>2. BetterRevision(u, v) /\ BetterRevision(v, w) => BetterRevision(u, w)
    BY <2>1 DEF BetterRevision
  <2>3. BetterPackage(u, v) /\ BetterPackage(v, w) => BetterPackage(u, w)
    BY <2>1 DEF BetterPackage
  <2> QED BY <2>2, <2>3
<1>4. ASSUME NEW a \in D, NEW b \in D, NEW c \in D, Wins(a, b, name), Wins(b, c, name)
      PROVE  Wins(a, c, name)
  <2>1. /\ Wins(a, b, name) <=> IF a.name = b.name THEN BetterRevision(Grade(a, name), Grade(b, name))
                                 ELSE BetterPackage(Grade(a, name), Grade(b, name))
        /\ Wins(b, c, name) <=> IF b.name = c.name THEN BetterRevision(Grade(b, name), Grade(c, name))
                                 ELSE BetterPackage(Grade(b, name), Grade(c, name))
        /\ Wins(a, c, name) <=> IF a.name = c.name THEN BetterRevision(Grade(a, name), Grade(c, name))
                                 ELSE BetterPackage(Grade(a, name), Grade(c, name))
    BY WinsMeans
  <2>2. CASE a.name = b.name /\ b.name = c.name
    BY <1>2, <1>3, <1>4, <2>1, <2>2
  <2>3. CASE a.name # b.name /\ b.name # c.name /\ a.name # c.name
    BY <1>2, <1>3, <1>4, <2>1, <2>3
  <2>4. CASE a = b \/ b = c \/ a = c
    BY <1>4, <2>4, WinsOnce
  <2> QED BY <2>2, <2>3, <2>4
<1> QED BY <1>1, <1>4 DEF Ranked

(* A scan of candidates that are ranked finds the one that wins over all   *)
(* others.                                                                 *)
ScanStep(t, k, x) ==
  IF morePreferred(x.rest[k], t, x.name, NoDepender) THEN x.rest[k] ELSE t

Leading(t, k, x) ==
  /\ \E j \in 1 .. k + 1 : t = x.seq[j]
  /\ \A j \in 1 .. k + 1 : x.seq[j] = t \/ Wins(t, x.seq[j], x.name)

Scan == INSTANCE Loops WITH Step <- LAMBDA t, k, x : ScanStep(t, k, x),
                            Keeps <- LAMBDA t, k, x : Leading(t, k, x)

(* preferredOf returns the candidate that wins over all others.            *)
LEMMA PreferredWins ==
  ASSUME NEW name, NEW D, Ranked(D, name), NEW seq \in Seq(D), seq # << >>
  PROVE  LET best == preferredOf(seq, name, NoDepender)
         IN best \in ToSet(seq) /\ \A c \in ToSet(seq) : c = best \/ Wins(best, c, name)
<1> DEFINE rest == Tail(seq)
           n == Len(rest)
           x == [seq |-> seq, rest |-> rest, name |-> name]
           best == preferredOf(seq, name, NoDepender)
<1>1. /\ n \in Nat /\ DOMAIN rest = 1 .. n /\ Head(seq) = seq[1] /\ Len(seq) = n + 1
      /\ DOMAIN seq = 1 .. n + 1 /\ \A k \in 1 .. n : rest[k] = seq[k + 1]
  OBVIOUS
<1>2. x.seq = seq /\ x.rest = rest /\ x.name = name
  OBVIOUS
<1>3. \A j \in 1 .. n + 1 : seq[j] \in D
  BY <1>1
<1> HIDE DEF x, n, rest
<1>4. Leading(Head(seq), 0, x)
  BY <1>1, <1>2 DEF Leading
<1>5. ASSUME NEW k \in 1 .. n, NEW t, Leading(t, k - 1, x) PROVE Leading(ScanStep(t, k, x), k, x)
  <2> DEFINE c == seq[k + 1]
  <2>1. (k - 1) + 1 = k /\ 1 .. k + 1 = (1 .. k) \cup {k + 1} /\ k + 1 \in 1 .. n + 1 /\ 1 .. k \subseteq 1 .. n + 1
    BY <1>1
  <2>2. /\ \E j \in 1 .. k : t = seq[j]
        /\ \A j \in 1 .. k : seq[j] = t \/ Wins(t, seq[j], name)
    BY <1>2, <1>5, <2>1 DEF Leading
  <2>3. t \in D /\ c \in D
    BY <1>3, <2>1, <2>2
  <2>4. CASE Wins(c, t, name)
    <3>1. ScanStep(t, k, x) = c
      BY <1>1, <1>2, <2>4 DEF ScanStep, Wins
    <3>2. \A j \in 1 .. k : Wins(c, seq[j], name)
      BY <1>3, <2>1, <2>2, <2>3, <2>4 DEF Ranked
    <3> QED BY <1>2, <2>1, <3>1, <3>2 DEF Leading
  <2>5. CASE ~Wins(c, t, name)
    <3>1. ScanStep(t, k, x) = t
      BY <1>1, <1>2, <2>5 DEF ScanStep, Wins
    <3>2. c = t \/ Wins(t, c, name)
      BY <2>3, <2>5 DEF Ranked
    <3> QED BY <1>2, <2>1, <2>2, <3>1, <3>2 DEF Leading
  <2> QED BY <2>4, <2>5
<1> DEFINE s == Head(seq)
<1> HIDE DEF s
<1>6. Leading(LET iter[K \in SUBSET (1 .. n)] ==
                    IF K = {} THEN s
                    ELSE LET i == CHOOSE i \in K : \A j \in K : i >= j
                         IN ScanStep(iter[K \ {i}], i, x)
              IN iter[1 .. n], n, x)
  <2>1. n \in Nat /\ Leading(s, 0, x)
    BY <1>1, <1>4 DEF s
  <2>2. \A k \in 1 .. n : \A t : Leading(t, k - 1, x) => Leading(ScanStep(t, k, x), k, x)
    BY <1>5
  <2> QED BY <2>1, <2>2, Scan!FoldKeeps
<1> DEFINE E == DOMAIN rest
<1>7. Leading(LET iter[K \in SUBSET E] ==
                    IF K = {} THEN s
                    ELSE LET i == CHOOSE i \in K : \A j \in K : i >= j
                         IN IF morePreferred(rest[i], iter[K \ {i}], name, NoDepender) THEN rest[i]
                            ELSE iter[K \ {i}]
              IN iter[E], n, x)
  <2>1. E = 1 .. n
    BY <1>1
  <2> HIDE DEF E
  <2> QED BY <1>6, <1>2, <2>1 DEF ScanStep
<1>8. Leading(best, n, x)
  BY <1>7 DEF preferredOf, FoldLeft, MapThenFoldSet, Max, rest, s
<1> HIDE DEF best
<1> QED BY <1>1, <1>2, <1>8 DEF Leading, ToSet, best

(* The candidates that lead the revisions of their package, and the one    *)
(* that wins over all leaders.                                             *)
Leader(c, M, name) == c \in M /\ \A d \in M : d.name = c.name => d = c \/ Wins(c, d, name)

Winner(c, M, name) == Leader(c, M, name) /\ \A d \in M : Leader(d, M, name) => d = c \/ Wins(c, d, name)

(* pickBest returns the winner.                                            *)
LEMMA PickBestWins ==
  ASSUME NEW name, NEW M, Comparable(M, name), NEW matches \in Seq(M), ToSet(matches) = M,
         matches # << >>
  PROVE  Winner(pickBest(matches, name, NoDepender), M, name)
<1> DEFINE G(c) == {d \in M : d.name = c.name}
           lead(c) == preferredOf(revisions(matches, c), name, NoDepender)
           T == {c \in M : Head(revisions(matches, c)) = c}
           first == firstRevisions(matches)
           bests == Map(LAMBDA c : preferredOf(revisions(matches, c), name, NoDepender), first)
           B == ToSet(bests)
<1>1. ASSUME NEW c \in M
      PROVE  /\ revisions(matches, c) \in Seq(G(c)) /\ ToSet(revisions(matches, c)) = G(c)
             /\ revisions(matches, c) # << >> /\ c \in G(c)
  <2>1. revisions(matches, c) = Select(matches, G(c))
    BY DEF revisions
  <2>2. Select(matches, G(c)) \in Seq(M \cap G(c)) /\ ToSet(Select(matches, G(c))) = M \cap G(c)
    <3> DEFINE K == G(c)
    <3> HIDE DEF K
    <3>1. Select(matches, K) \in Seq(M \cap K) /\ ToSet(Select(matches, K)) = M \cap K
      BY SelectFacts
    <3> QED BY <3>1 DEF K
  <2>3. M \cap G(c) = G(c) /\ c \in G(c)
    OBVIOUS
  <2>4. ToSet(<< >>) = {}
    BY DEF ToSet
  <2> QED BY <2>1, <2>2, <2>3, <2>4
<1>2. ASSUME NEW c \in M PROVE Leader(lead(c), M, name) /\ lead(c).name = c.name
  <2> DEFINE r == revisions(matches, c)
             K == G(c)
  <2>1. r \in Seq(K) /\ ToSet(r) = K /\ r # << >> /\ K \in SUBSET M /\ \A a, b \in K : a.name = b.name
    BY <1>1
  <2>2. \A d : d \in K <=> d \in M /\ d.name = c.name
    OBVIOUS
  <2> HIDE DEF r, K
  <2>3. Ranked(K, name)
    BY <2>1, Ranks
  <2>4. /\ preferredOf(r, name, NoDepender) \in ToSet(r)
        /\ \A d \in ToSet(r) : d = preferredOf(r, name, NoDepender) \/ Wins(preferredOf(r, name, NoDepender), d, name)
    BY <2>1, <2>3, PreferredWins
  <2>5. lead(c) = preferredOf(r, name, NoDepender)
    BY DEF r
  <2> HIDE DEF lead
  <2> QED BY <2>1, <2>2, <2>4, <2>5 DEF Leader
<1>3. \A c \in M : \E h \in T : h.name = c.name
  <2> TAKE c \in M
  <2> DEFINE h == Head(revisions(matches, c))
  <2>1. h \in G(c)
    <3> DEFINE r == revisions(matches, c)
               K == G(c)
    <3>1. r \in Seq(K) /\ r # << >>
      BY <1>1
    <3> HIDE DEF r, K
    <3>2. Head(r) \in K
      BY <3>1
    <3> QED BY <3>2 DEF r, K
  <2>2. h \in M /\ h.name = c.name
    BY <2>1
  <2>3. revisions(matches, h) = revisions(matches, c)
    <3> HIDE DEF h
    <3> QED BY <2>2 DEF revisions
  <2>4. h \in T
    BY <2>2, <2>3
  <2> QED BY <2>2, <2>4
<1>4. first \in Seq(M) /\ ToSet(first) = T
  <2>1. first = Select(matches, T)
    BY DEF firstRevisions
  <2>2. T \in SUBSET M
    OBVIOUS
  <2> HIDE DEF T, first
  <2>3. Select(matches, T) \in Seq(M \cap T) /\ ToSet(Select(matches, T)) = M \cap T
    BY SelectFacts
  <2>4. M \cap T = T
    BY <2>2
  <2>5. first \in Seq(T)
    BY <2>1, <2>3, <2>4
  <2> QED BY <2>1, <2>2, <2>3, <2>4, <2>5
<1>5. bests = [i \in 1 .. Len(first) |-> lead(first[i])] /\ Len(first) \in Nat /\ DOMAIN first = 1 .. Len(first)
  <2>1. Len(first) \in Nat /\ DOMAIN first = 1 .. Len(first)
    BY <1>4
  <2> QED BY <2>1 DEF Map
<1>6. \A d : d \in B <=> \E c \in T : d = lead(c)
  <2>1. \A c : c \in T <=> \E i \in 1 .. Len(first) : c = first[i]
    BY <1>4, <1>5 DEF ToSet
  <2>2. DOMAIN bests = 1 .. Len(first) /\ \A i \in 1 .. Len(first) : bests[i] = lead(first[i])
    BY <1>5
  <2> HIDE DEF bests, lead, T, first
  <2> QED BY <2>1, <2>2 DEF ToSet
<1>7. \A c \in T : c \in M
  OBVIOUS
<1>8. bests \in Seq(B) /\ bests # << >>
  <2>1. bests \in [1 .. Len(first) -> B]
    <3>1. DOMAIN bests = 1 .. Len(first) /\ bests = [i \in 1 .. Len(first) |-> bests[i]]
      BY <1>5
    <3> HIDE DEF bests
    <3> QED BY <3>1 DEF ToSet
  <2>2. B # {}
    <3>1. matches[1] \in M
      OBVIOUS
    <3> HIDE DEF B, T
    <3> QED BY <3>1, <1>3, <1>6
  <2>3. ToSet(<< >>) = {}
    BY DEF ToSet
  <2> HIDE DEF bests
  <2>4. bests \in Seq(B)
    BY <2>1, <1>5
  <2> QED BY <2>2, <2>3, <2>4
<1> HIDE DEF lead, T, first
<1>9. \A d : d \in B <=> Leader(d, M, name)
  <2>1. ASSUME NEW d, Leader(d, M, name) PROVE d \in B
    <3>1. d \in M
      BY <2>1 DEF Leader
    <3>2. PICK h \in T : h.name = d.name
      BY <3>1, <1>3
    <3>3. Leader(lead(h), M, name) /\ lead(h).name = d.name
      BY <3>2, <1>2, <1>7
    <3>4. lead(h) = d
      BY <2>1, <3>3, WinsOnce DEF Leader
    <3> QED BY <3>2, <3>4, <1>6
  <2> QED BY <2>1, <1>2, <1>6, <1>7
<1> HIDE DEF bests, B
<1>10. Ranked(B, name)
  <2>1. B \in SUBSET M
    BY <1>9 DEF Leader
  <2>2. \A a, b \in B : a.name = b.name => a = b
    BY <1>9, WinsOnce DEF Leader
  <2> QED BY <2>1, <2>2, Ranks
<1>11. LET best == preferredOf(bests, name, NoDepender)
       IN best \in B /\ \A d \in B : d = best \/ Wins(best, d, name)
  <2>1. B = ToSet(bests)
    BY DEF B
  <2> QED BY <1>8, <1>10, <2>1, PreferredWins
<1>12. pickBest(matches, name, NoDepender) = preferredOf(bests, name, NoDepender)
  BY DEF pickBest, bests, first
<1> QED BY <1>9, <1>11, <1>12 DEF Winner

(* Two builds a repository holds at first differ in version or             *)
(* architecture; Publish adds only versions it does not have.              *)
OneBuildPerRepository ==
  \A u \in Upstreams : \A c, d \in u.now :
    c.repo = d.repo /\ c.name = d.name /\ c.ver = d.ver /\ c.arch = d.arch => c = d

Distinct ==
  \A c, d \in published :
    c.repo = d.repo /\ c.name = d.name /\ c.ver = d.ver /\ c.arch = d.arch => c = d

(* The candidates for a goal can be told apart.                            *)
LEMMA GoalsComparable ==
  ASSUME TypeOK, Distinct, NEW at \in Stand, NEW name
  PROVE  Comparable(GoalMatches(availableSet(at) \cup archiveCandidates(at), name), name)
<1> DEFINE M == GoalMatches(availableSet(at) \cup archiveCandidates(at), name)
<1>1. \A c \in M : /\ c \in published /\ c.repo \in configured[at] /\ installableArch(c.arch)
                   /\ c.name = name \/ \E p \in c.provides : p.name = name
  BY DEF GoalMatches, availableSet, archiveCandidates, deriveActive
<1>2. published \in SUBSET Catalog /\ configured[at] \in SUBSET Repo
  BY CommandsAssumption DEF TypeOK
<1>3. ASSUME NEW c \in M PROVE Grade(c, name) \in Grades
  <2>1. c \in Catalog /\ c.repo \in Repo
    BY <1>1, <1>2
  <2>2. PriorityOfCandidate(c) \in Int
    BY <2>1, ResolverAssumption DEF PriorityOfCandidate
  <2>3. c.ver \in Int
    BY <2>1, CommandsAssumption
  <2>4. roleVersion(c, name) \in Int
    <3>1. c.name # name => (CHOOSE p \in c.provides : p.name = name) \in c.provides
      BY <1>1
    <3> QED BY <2>1, <2>3, <3>1, CommandsAssumption DEF roleVersion
  <2>5. Native(c) \in Int
    BY DEF Native, Score
  <2>6. Position(NameSeq, c.name) \in Int /\ Position(RepoSeq, c.repo) \in Int
    <3>1. c.name \in ToSet(NameSeq) /\ c.repo \in ToSet(RepoSeq)
      BY <2>1, CommandsAssumption DEF Name, Repo
    <3>2. NameSeq \in Seq(Name) /\ RepoSeq \in Seq(Repo)
      BY ResolverAssumption
    <3>3. Position(NameSeq, c.name) \in 1 .. Len(NameSeq) /\ Position(RepoSeq, c.repo) \in 1 .. Len(RepoSeq)
      BY <3>1, <3>2, PositionFacts
    <3> QED BY <3>3
  <2> QED BY <2>2, <2>3, <2>4, <2>5, <2>6 DEF Grade, Grades
<1> HIDE DEF M
<1>4. M \in SUBSET Catalog
  BY <1>1, <1>2
<1>5. \A c, d \in M : c.name = d.name /\ c.ver = d.ver /\ c.arch = d.arch /\ c.repo = d.repo => c = d
  BY <1>1 DEF Distinct
<1>6. \A c \in M : c.repo \in Repo
  BY <1>1, <1>2
<1>7. Comparable(M, name)
  BY <1>1, <1>3, <1>4, <1>5, <1>6 DEF Comparable
<1> QED BY <1>7 DEF M

(* A listing of a finite set has its elements.                             *)
LEMMA ListingAll ==
  ASSUME NEW M, IsFiniteSet(M), NEW s \in SetToSeqs(M)
  PROVE  s \in Seq(M) /\ ToSet(s) = M
<1> DEFINE D == 1 .. Cardinality(M)
<1>1. Cardinality(M) \in Nat
  BY FS_CardinalityType
<1>2. s \in [D -> M] /\ \A i, j \in D : i # j => s[i] # s[j]
  BY DEF SetToSeqs
<1> HIDE DEF D
<1>3. s \in Injection(D, M)
  BY <1>2 DEF Injection, IsInjective
<1>4. IsFiniteSet(D) /\ Cardinality(D) = Cardinality(M)
  <2>1. 1 \in Int /\ Cardinality(M) \in Int
    BY <1>1
  <2> QED BY <1>1, <2>1, FS_Interval DEF D
<1>5. s \in Surjection(D, M)
  BY <1>3, <1>4, FS_Injection
<1>6. \A c \in M : \E i \in D : s[i] = c
  BY <1>5 DEF Surjection
<1>7. ToSet(s) = M
  BY <1>2, <1>6 DEF ToSet
<1> QED BY <1>1, <1>2, <1>7 DEF D

(* SelectionOrderIndependent: which package fills a name does not depend   *)
(* on the order the candidates are listed in, for any packages a           *)
(* repository may hold at one time (pickBest, morePreferred).              *)
THEOREM OrderIrrelevant ==
  ASSUME OneBuildPerRepository
  PROVE  Spec => []SelectionOrderIndependent
<1>1. Init => IInv /\ Distinct
  <2> SUFFICES ASSUME Init PROVE IInv /\ Distinct
    OBVIOUS
  <2>1. \E u \in Upstreams : published = u.now
    BY DEF Init
  <2> QED BY <2>1, IInvInit DEF OneBuildPerRepository, Distinct
<1>2. IInv /\ Distinct /\ [Next]_vars => (IInv /\ Distinct)'
  <2> SUFFICES ASSUME IInv, Distinct, [Next]_vars PROVE Distinct'
    BY IInvNext
  <2>1. ASSUME NEW c, Publish(c) PROVE Distinct'
    BY <2>1 DEF Publish, Distinct
  <2>2. ASSUME published' = published PROVE Distinct'
    BY <2>2 DEF Distinct
  <2>3. ASSUME NEW p \in Process, Shows(p) \/ Execute(p) \/ Abandon(p) PROVE Distinct'
    <3>1. published' = published
      BY <2>3 DEF Shows, Show, Execute, Abandon
    <3> QED BY <3>1, <2>2
  <2>4. ASSUME NEW at \in Stand, NEW repo \in Repo, removeRepository(at, repo) \/ addRepository(at, repo)
        PROVE  Distinct'
    BY <2>2, <2>4 DEF removeRepository, addRepository
  <2>5. CASE UNCHANGED vars
    BY <2>2, <2>5 DEF vars
  <2> QED BY <2>1, <2>3, <2>4, <2>5, NextShows
<1>3. IInv /\ Distinct => SelectionOrderIndependent
  <2> SUFFICES ASSUME IInv, Distinct, NEW at \in Stand, NEW name \in Name
               PROVE  LET M == GoalMatches(availableSet(at) \cup archiveCandidates(at), name)
                      IN \A s, t \in SetToSeqs(M) : pickBest(s, name, NoDepender) = pickBest(t, name, NoDepender)
    BY DEF SelectionOrderIndependent
  <2> DEFINE M == GoalMatches(availableSet(at) \cup archiveCandidates(at), name)
  <2>1. Comparable(M, name)
    BY GoalsComparable DEF IInv
  <2> HIDE DEF M
  <2>2. M \in SUBSET Catalog
    BY <2>1 DEF Comparable
  <2>3. IsFiniteSet(M)
    BY <2>2, CommandsAssumption, FS_Subset
  <2>4. ASSUME NEW s \in SetToSeqs(M), NEW t \in SetToSeqs(M)
        PROVE  pickBest(s, name, NoDepender) = pickBest(t, name, NoDepender)
    <3>1. s \in Seq(M) /\ t \in Seq(M) /\ ToSet(s) = M /\ ToSet(t) = M
      BY <2>3, ListingAll
    <3>2. CASE M = {}
      <4>1. s = << >> /\ t = << >>
        BY <3>1, <3>2, SetOfSeq
      <4> QED BY <4>1
    <3>3. CASE M # {}
      <4>1. s # << >> /\ t # << >>
        BY <3>1, <3>3, SetOfSeq
      <4>2. Winner(pickBest(s, name, NoDepender), M, name) /\ Winner(pickBest(t, name, NoDepender), M, name)
        BY <2>1, <3>1, <4>1, PickBestWins
      <4> QED BY <2>1, <4>2, WinsOnce DEF Winner, Leader
    <3> QED BY <3>2, <3>3
  <2> QED BY <2>4 DEF M
<1> QED BY <1>1, <1>2, <1>3, PTL DEF Spec

-----------------------------------------------------------------------------
(* What an uninstall takes.  Packages that need nothing of what goes stay. *)

SelfMet(V, refs) ==
  \A e \in V : \A dep \in e.pkg.deps :
    routeRoot(dep, e.root, refs) # None => Satisfied(V, e, dep, refs)

Spared(V, seq) == \A i \in DOMAIN seq : At(V, seq[i][1], seq[i][2]) = {}

Cut(t, k, x) ==
  /\ Bare(t, x) /\ t.world \in SUBSET x.start /\ x.V \in SUBSET t.world
  /\ Open(t) => \A i \in 1 .. k : At(t.world, x.seq[i][1], x.seq[i][2]) = {}

CutTargets == INSTANCE Loops WITH Step <- LAMBDA t, k, x : TargetStep(t, k, x),
                                  Keeps <- LAMBDA t, k, x : Cut(t, k, x)
CutBroken == INSTANCE Loops WITH Step <- LAMBDA t, k, x : BrokenStep(t, k, x),
                                 Keeps <- LAMBDA t, k, x : Cut(t, Len(x.seq), x)

(* A smaller world that still has what is spared.                          *)
LEMMA CutShrinks ==
  ASSUME NEW x, x.view \in SUBSET Root, NEW k, NEW t, Cut(t, k, x), NEW w \in SUBSET t.world,
         x.V \in SUBSET w
  PROVE  Cut([t EXCEPT !.world = w], k, x)
<1> DEFINE u == [t EXCEPT !.world = w]
<1>1. u.world = w /\ (Open(u) <=> Open(t))
  BY DEF Cut, Bare, Sound, State, Open
<1>2. Bare(u, x)
  BY ShrunkBare DEF Cut
<1> HIDE DEF u
<1> QED BY <1>1, <1>2 DEF Cut, At, u

(* So does a rejection.                                                    *)
LEMMA CutRejected ==
  ASSUME NEW x, x.view \in SUBSET Root, NEW k, NEW j, NEW t, Cut(t, j, x), NEW why \in Reasons
  PROVE  Cut(Rejected(t, why), k, x)
<1> DEFINE u == Rejected(t, why)
<1>1. why # None
  BY ResolverAssumption
<1>2. u.world = t.world /\ ~Open(u)
  BY <1>1 DEF Cut, Bare, Sound, State, Rejected, Open
<1>3. Bare(u, x)
  BY RejectedBare DEF Cut
<1> HIDE DEF u
<1> QED BY <1>2, <1>3 DEF Cut, u

(* The removals take what was asked for, and nothing of a set of packages  *)
(* that have what they need among themselves (applyRemovals).              *)
LEMMA RemovalsExact ==
  ASSUME NEW inst, NEW view \in SUBSET Root, NEW s, Sound(s, inst, view, {}), s.work = << >>,
         NEW T, NEW targets \in Seq(T), NEW refs, NEW cascade,
         NEW V \in SUBSET s.world, SelfMet(V, refs), Spared(V, targets)
  PROVE  LET t == applyRemovals(s, targets, refs, cascade)
         IN /\ t.work = << >> /\ t.world \in SUBSET s.world /\ V \in SUBSET t.world
            /\ Open(t) => Spared(t.world, targets)
<1> DEFINE n == Len(targets)
           x == [seq |-> targets, refs |-> refs, cascade |-> cascade, inst |-> inst, view |-> view,
                 start |-> s.world, V |-> V]
           m == Cardinality(s.world) + 1
           gone == FoldLeft(removeTarget, s, targets)
<1>1. n \in Nat /\ DOMAIN targets = 1 .. n
  OBVIOUS
<1>2. /\ x.seq = targets /\ x.refs = refs /\ x.cascade = cascade
      /\ x.inst = inst /\ x.view = view /\ x.start = s.world /\ x.V = V
  OBVIOUS
<1>3. m \in Nat
  <2>1. s.world \in SUBSET Entry(Root)
    <3>1. Entry(view) \in SUBSET Entry(Root)
      BY DEF Entry
    <3> QED BY <3>1 DEF Sound, WorldOK
  <2>2. IsFiniteSet(s.world)
    BY <2>1, FiniteEntries, FS_Subset
  <2> QED BY <2>2, FS_CardinalityType
<1> HIDE DEF x, m
<1>4. Cut(s, 0, x)
  BY <1>2 DEF Cut, Bare
<1>5. ASSUME NEW k \in 1 .. n, NEW t, Cut(t, k - 1, x) PROVE Cut(TargetStep(t, k, x), k, x)
  <2> DEFINE key == x.seq[k]
             w == t.world \ At(t.world, key[1], key[2])
             u == [t EXCEPT !.world = w]
  <2>1. At(V, key[1], key[2]) = {}
    BY <1>1, <1>2 DEF Spared
  <2>2. V \in SUBSET w /\ At(w, key[1], key[2]) = {}
    BY <2>1, <1>2, <1>5 DEF Cut, At
  <2>3. u.world = w /\ (Open(u) <=> Open(t))
    BY <1>5 DEF Cut, Bare, Sound, State, Open
  <2>5. Cut(Rejected(t, "removal-blocked"), k, x)
    BY <1>2, <1>5, CutRejected DEF Reasons
  <2> HIDE DEF key, w
  <2>6. Cut(u, k - 1, x)
    <3>1. w \in SUBSET t.world
      BY DEF w
    <3> QED BY <2>2, <3>1, <1>2, <1>5, CutShrinks
  <2> HIDE DEF u
  <2>7. Cut(u, k, x)
    <3>1. \A i \in 1 .. k : i = k \/ i \in 1 .. k - 1
      OBVIOUS
    <3> QED BY <2>2, <2>3, <2>6, <3>1 DEF Cut, key
  <2>8. ~Open(t) => Cut(t, k, x)
    BY <1>5 DEF Cut
  <2>9. Open(t) => TargetStep(t, k, x) \in {u, Rejected(t, "removal-blocked")}
    BY DEF TargetStep, removeTarget, u, w, key
  <2>10. ~Open(t) => TargetStep(t, k, x) = t
    BY DEF TargetStep, removeTarget
  <2> QED BY <2>5, <2>7, <2>8, <2>9, <2>10
<1>6. ASSUME NEW k, NEW t, Cut(t, n, x) PROVE Cut(BrokenStep(t, k, x), n, x)
  <2> DEFINE B == broken(t.world, refs)
             w == t.world \ {FirstOf(B)}
  <2>1. ASSUME B # {} PROVE FirstOf(B) \notin V
    <3>1. B \in SUBSET t.world /\ t.world \in SUBSET Entry(view) /\ OneEach(t.world)
      BY <1>2, <1>6 DEF broken, Cut, Bare, Sound, WorldOK
    <3>2. B \in SUBSET Entry(Root) /\ OneEach(B)
      BY <3>1 DEF Entry, OneEach
    <3>3. FirstOf(B) \in B
      <4> HIDE DEF B
      <4> QED BY <2>1, <3>2, FirstIn
    <3>4. PICK dep \in FirstOf(B).pkg.deps :
             LET e == FirstOf(B) IN routeRoot(dep, e.root, refs) # None /\ ~Satisfied(t.world, e, dep, refs)
      BY <3>3 DEF broken
    <3>5. V \in SUBSET t.world
      BY <1>2, <1>6 DEF Cut
    <3> DEFINE e == FirstOf(B)
    <3> HIDE DEF B
    <3>6. Satisfied(V, e, dep, refs) => Satisfied(t.world, e, dep, refs)
      BY <3>5 DEF Satisfied, worldSatisfiesInRoot
    <3> QED BY <3>4, <3>6 DEF SelfMet
  <2>2. B # {} => Cut([t EXCEPT !.world = w], n, x)
    <3>1. w \in SUBSET t.world /\ (B # {} => V \in SUBSET w)
      BY <2>1, <1>2, <1>6 DEF Cut
    <3> HIDE DEF w, B
    <3> QED BY <3>1, <1>2, <1>6, CutShrinks
  <2>3. Cut(Rejected(t, "removal-blocked"), n, x)
    BY <1>2, <1>6, CutRejected DEF Reasons
  <2>4. dropFirst(t, B, cascade) \in {t, Rejected(t, "removal-blocked")}
        \/ (B # {} /\ dropFirst(t, B, cascade) = [t EXCEPT !.world = w])
    <3> HIDE DEF B
    <3> QED BY DEF dropFirst
  <2>5. BrokenStep(t, k, x) \in {t, dropFirst(t, B, cascade)}
    BY <1>2 DEF BrokenStep, removeBroken
  <2> HIDE DEF B, w
  <2> QED BY <1>6, <2>2, <2>3, <2>4, <2>5
<1>7. Cut(gone, n, x)
  <2>1. Cut(LET iter[K \in SUBSET (1 .. n)] ==
                  IF K = {} THEN s
                  ELSE LET i == CHOOSE i \in K : \A j \in K : i >= j
                       IN TargetStep(iter[K \ {i}], i, x)
            IN iter[1 .. n], n, x)
    BY <1>1, <1>4, <1>5, CutTargets!FoldKeeps
  <2> DEFINE D == DOMAIN targets
  <2>2. Cut(LET iter[K \in SUBSET D] ==
                  IF K = {} THEN s
                  ELSE LET i == CHOOSE i \in K : \A j \in K : i >= j
                       IN removeTarget(iter[K \ {i}], targets[i])
            IN iter[D], n, x)
    <3>1. D = 1 .. n
      BY <1>1
    <3> HIDE DEF D, n
    <3> QED BY <2>1, <3>1, <1>2 DEF TargetStep
  <2> QED BY <2>2 DEF FoldLeft, MapThenFoldSet, Max
<1> HIDE DEF gone
<1>8. Cut(Iterate(LAMBDA t : removeBroken(t, refs, cascade), gone, m), n, x)
  <2>1. Len(x.seq) = n
    BY <1>2
  <2>2. Cut(LET after[k \in 0 .. m] == IF k = 0 THEN gone ELSE BrokenStep(after[k - 1], k, x)
            IN after[m], Len(x.seq), x)
    BY <1>3, <1>6, <1>7, <2>1, CutBroken!LoopKeeps
  <2> QED BY <2>1, <2>2, <1>2 DEF Iterate, BrokenStep
<1>9. Cut(applyRemovals(s, targets, refs, cascade), n, x)
  <2>1. CASE targets = << >>
    <3>1. n = 0
      BY <2>1
    <3> QED BY <2>1, <3>1, <1>4 DEF applyRemovals
  <2>2. CASE targets # << >>
    BY <2>2, <1>8 DEF applyRemovals, m, gone
  <2> QED BY <2>1, <2>2
<1> DEFINE t == applyRemovals(s, targets, refs, cascade)
<1> HIDE DEF t
<1>10. Cut(t, n, x)
  BY <1>9 DEF t
<1>11. /\ t.work = << >> /\ t.world \in SUBSET s.world /\ V \in SUBSET t.world
       /\ Open(t) => Spared(t.world, targets)
  BY <1>1, <1>2, <1>10 DEF Cut, Bare, Spared
<1> QED BY <1>11 DEF t

(* Phases that have nothing to do.                                         *)
Same(t, x) == t = x.start

IdleGoals == INSTANCE Loops WITH Step <- LAMBDA t, k, x : GoalStep(t, k, x),
                                 Keeps <- LAMBDA t, k, x : Same(t, x)
IdleWork == INSTANCE Loops WITH Step <- LAMBDA t, k, x : ForwardStep(t, k, x),
                                Keeps <- LAMBDA t, k, x : Same(t, x)

(* A request to remove sets no goal (seedGoals).                           *)
LEMMA RemoveSetsNoGoal ==
  ASSUME NEW T, NEW reqs \in Seq(T), \A i \in DOMAIN reqs : reqs[i].kind = "remove", NEW s, NEW available
  PROVE  seedGoals(s, reqs, available) = s
<1> DEFINE n == Len(reqs)
           D == DOMAIN reqs
           x == [seq |-> reqs, available |-> available, start |-> s]
<1>1. n \in Nat /\ D = 1 .. n
  OBVIOUS
<1>2. x.seq = reqs /\ x.available = available /\ x.start = s
  OBVIOUS
<1>3. \A k \in 1 .. n : reqs[k].kind = "remove"
  BY <1>1
<1> HIDE DEF x, D, n
<1>4. Same(s, x)
  BY <1>2 DEF Same
<1>5. ASSUME NEW k \in 1 .. n, NEW t, Same(t, x) PROVE Same(GoalStep(t, k, x), x)
  <2> DEFINE req == x.seq[k]
  <2>1. req.kind = "remove"
    BY <1>2, <1>3
  <2> HIDE DEF req
  <2>2. applyGoal(t, req, available) = t
    BY <2>1, Zenon DEF applyGoal
  <2> QED BY <2>2, <1>2, <1>5 DEF GoalStep, req
<1>6. Same(LET iter[K \in SUBSET (1 .. n)] ==
                 IF K = {} THEN s
                 ELSE LET i == CHOOSE i \in K : \A j \in K : i >= j
                      IN GoalStep(iter[K \ {i}], i, x)
           IN iter[1 .. n], x)
  BY <1>1, <1>4, <1>5, IdleGoals!FoldKeeps
<1>7. Same(LET iter[K \in SUBSET D] ==
                 IF K = {} THEN s
                 ELSE LET i == CHOOSE i \in K : \A j \in K : i >= j
                      IN applyGoal(iter[K \ {i}], reqs[i], available)
           IN iter[D], x)
  BY <1>6, <1>1, <1>2 DEF GoalStep
<1>8. Same(seedGoals(s, reqs, available), x)
  BY <1>7 DEF seedGoals, FoldLeft, MapThenFoldSet, Max, D
<1> QED BY <1>8, <1>2 DEF Same

(* Without a goal there is no work, and none after a rejection             *)
(* (resolveForward).                                                       *)
LEMMA NoGoalNoWork ==
  ASSUME NEW s, s.work = << >> \/ ~Open(s), NEW available, NEW refs, NEW conf
  PROVE  resolveForward(s, available, refs, conf) = s
<1> DEFINE m == MaxResolveSteps + 1
           x == [available |-> available, refs |-> refs, conf |-> conf, start |-> s]
<1>1. m \in Nat
  BY ResolverAssumption
<1>2. x.available = available /\ x.refs = refs /\ x.conf = conf /\ x.start = s
  OBVIOUS
<1> HIDE DEF x, m
<1>3. Same(s, x)
  BY <1>2 DEF Same
<1>4. ASSUME NEW k, NEW t, Same(t, x) PROVE Same(ForwardStep(t, k, x), x)
  BY <1>2, <1>4 DEF Same, ForwardStep, resolveNext
<1>5. Same(LET after[k \in 0 .. m] == IF k = 0 THEN s ELSE ForwardStep(after[k - 1], k, x)
           IN after[m], x)
  BY <1>1, <1>3, <1>4, IdleWork!LoopKeeps
<1>6. Same(Iterate(LAMBDA t : resolveNext(t, available, refs, conf), s, m), x)
  BY <1>5, <1>2 DEF Iterate, ForwardStep
<1> QED BY <1>6, <1>2 DEF Same, resolveForward, m

(* Nothing chosen supersedes nothing (applyReplaces).                      *)
LEMMA NothingSuperseded ==
  ASSUME NEW view, NEW s \in State(view), \A e \in s.world : ~e.chosen, NEW conf
  PROVE  LET t == applyReplaces(s, conf) IN t.world = s.world /\ (Open(t) <=> Open(s))
<1>1. takeovers(s.world) = {}
  BY DEF takeovers, replacesIn
<1> QED BY <1>1 DEF applyReplaces, State, Open

(* What passes the checks is what was checked (checkConsistency).          *)
LEMMA CheckedWorld ==
  ASSUME NEW view, NEW s \in State(view), NEW refs, NEW opts, NEW allowed
  PROVE  LET t == checkConsistency(s, refs, opts, allowed)
         IN t.world = s.world /\ (Open(t) => Open(s))
<1>1. \A why \in Reasons : Rejected(s, why).world = s.world /\ ~Open(Rejected(s, why))
  BY ResolverAssumption DEF Rejected, State, Open
<1> QED BY <1>1 DEF checkConsistency, Reasons

Untargeted(V, reqs) == \A q \in ToSet(reqs) : At(V, q.root, q.name) = {}

(* The keys of the removals asked for, when nothing else is.               *)
LEMMA AskedKeys ==
  ASSUME NEW T, NEW reqs \in Seq(T), \A q \in ToSet(reqs) : q.kind = "remove"
  PROVE  LET keys == Keys(Asked(reqs, "remove"))
         IN /\ keys \in Seq({<<q.root, q.name>> : q \in ToSet(reqs)})
            /\ \A V : Spared(V, keys) <=> Untargeted(V, reqs)
<1> DEFINE R == {q \in ToSet(reqs) : q.kind = "remove"}
           a == Asked(reqs, "remove")
           keys == Keys(a)
<1>1. a = Select(reqs, R) /\ R = ToSet(reqs)
  BY DEF Asked
<1>2. reqs \in Seq(ToSet(reqs))
  BY DEF ToSet
<1> HIDE DEF R, a
<1>3. Select(reqs, R) \in Seq(ToSet(reqs) \cap R) /\ ToSet(Select(reqs, R)) = ToSet(reqs) \cap R
  BY <1>2, SelectFacts
<1>4. a \in Seq(ToSet(reqs)) /\ ToSet(a) = ToSet(reqs)
  BY <1>1, <1>3
<1>5. Len(a) \in Nat /\ DOMAIN a = 1 .. Len(a) /\ \A i \in 1 .. Len(a) : a[i] \in ToSet(reqs)
  BY <1>4
<1>6. keys \in [1 .. Len(a) -> {<<q.root, q.name>> : q \in ToSet(reqs)}]
      /\ \A i \in 1 .. Len(a) : keys[i] = <<a[i].root, a[i].name>>
  BY <1>5 DEF Keys, Map
<1> HIDE DEF keys
<1>7. keys \in Seq({<<q.root, q.name>> : q \in ToSet(reqs)}) /\ DOMAIN keys = 1 .. Len(a)
  BY <1>5, <1>6
<1>8. \A q : q \in ToSet(reqs) <=> \E i \in 1 .. Len(a) : a[i] = q
  BY <1>4, <1>5 DEF ToSet
<1>9. ASSUME NEW V PROVE Spared(V, keys) <=> Untargeted(V, reqs)
  <2>1. Spared(V, keys) <=> \A i \in 1 .. Len(a) : At(V, a[i].root, a[i].name) = {}
    <3>1. \A i \in 1 .. Len(a) : keys[i][1] = a[i].root /\ keys[i][2] = a[i].name
      BY <1>6
    <3> QED BY <1>7, <3>1 DEF Spared
  <2> QED BY <2>1, <1>8 DEF Untargeted
<1> QED BY <1>7, <1>9 DEF keys, a

(* Asked only to remove, a resolution chooses nothing: it leaves the       *)
(* largest part of what is installed that has what it needs without what   *)
(* was named.                                                              *)
LEMMA RemovalPlan ==
  ASSUME NEW inst, NEW view, Given(inst, view), NEW reqs \in Seq(Requests(view)),
         \A q \in ToSet(reqs) : q.kind = "remove", NEW available,
         NEW refs, NEW conf, NEW opts
  PROVE  LET plan == Resolve(reqs, inst, available, refs, conf, opts)
             W == InstalledWorld(inst)
         IN plan.reason = None =>
              \E world \in SUBSET W :
                /\ WorldOK(world, inst, view) /\ ToSet(plan.ops) = Changes(world, inst)
                /\ Untargeted(world, reqs)
                /\ \A V \in SUBSET W : SelfMet(V, refs) /\ Untargeted(V, reqs) => V \in SUBSET world
<1> DEFINE W == InstalledWorld(inst)
           s0 == Fresh(inst)
           keys == Keys(Asked(reqs, "remove"))
           s1 == applyRemovals(s0, keys, refs, opts.cascade)
           s2 == seedGoals(s1, reqs, available)
           s3 == resolveForward(s2, available, refs, conf)
           s4 == applyReplaces(s3, conf)
           allowed == ToSet(Keys(Asked(reqs, "downgrade")))
           s5 == checkConsistency(s4, refs, opts, allowed)
           plan == buildPlan(s5, inst, refs)
<1>1. view \in SUBSET Root
  BY DEF Given
<1>2. Sound(s0, inst, view, {}) /\ s0.work = << >> /\ s0.world = W
  <2>1. WorldOK(InstalledWorld(inst), inst, view)
    BY InstalledEntries
  <2>2. s0 \in State(view)
    <3>1. InstalledWorld(inst) \in SUBSET Entry(view)
      BY <2>1 DEF WorldOK
    <3>2. << >> \in Seq(Root \X Name)
      OBVIOUS
    <3> QED BY <3>1, <3>2 DEF Fresh, State
  <2>3. s0.world = InstalledWorld(inst) /\ s0.work = << >>
    BY DEF Fresh
  <2> HIDE DEF s0
  <2> QED BY <2>1, <2>2, <2>3 DEF Sound, Reachable, Retains
<1>3. /\ keys \in Seq({<<q.root, q.name>> : q \in ToSet(reqs)})
      /\ \A V : Spared(V, keys) <=> Untargeted(V, reqs)
  BY AskedKeys
<1> HIDE DEF s0, keys, W
<1>4. Sound(s1, inst, view, {})
  BY <1>1, <1>2, <1>3, RemovalsBare
<1>5. ASSUME NEW V \in SUBSET W, SelfMet(V, refs), Untargeted(V, reqs)
      PROVE  s1.work = << >> /\ s1.world \in SUBSET W /\ V \in SUBSET s1.world
             /\ (Open(s1) => Spared(s1.world, keys))
  BY <1>1, <1>2, <1>3, <1>5, RemovalsExact
<1>6. s1.work = << >> /\ s1.world \in SUBSET W /\ (Open(s1) => Untargeted(s1.world, reqs))
  <2>1. {} \in SUBSET W /\ SelfMet({}, refs) /\ Untargeted({}, reqs)
    BY DEF SelfMet, Untargeted, At
  <2> QED BY <2>1, <1>3, <1>5
<1> HIDE DEF s1
<1>7. s2 = s1
  <2>1. \A i \in DOMAIN reqs : reqs[i].kind = "remove"
    BY DEF ToSet
  <2> QED BY <2>1, RemoveSetsNoGoal
<1> HIDE DEF s2
<1>8. s3 = s1
  BY <1>6, <1>7, NoGoalNoWork
<1> HIDE DEF s3
<1>9. s1 \in State(view) /\ WorldOK(s1.world, inst, view)
  BY <1>4 DEF Sound
<1>10. \A e \in s1.world : ~e.chosen
  BY <1>6 DEF W, InstalledWorld
<1>11. /\ s4 \in State(view) /\ WorldOK(s4.world, inst, view)
       /\ s4.world = s1.world /\ (Open(s4) <=> Open(s1))
  BY <1>1, <1>8, <1>9, <1>10, ReplacesSound, NothingSuperseded
<1> HIDE DEF s4, allowed
<1>12. s5 \in State(view) /\ s5.world = s4.world /\ (Open(s5) => Open(s4))
  <2>1. s5 = checkConsistency(s4, refs, opts, allowed)
    OBVIOUS
  <2> HIDE DEF s5
  <2>2. s5 \in State(view)
    BY <2>1, <1>1, <1>11, CheckedOK
  <2>3. s5.world = s4.world /\ (Open(s5) => Open(s4))
    BY <2>1, <1>11, CheckedWorld
  <2> QED BY <2>2, <2>3
<1> HIDE DEF s5
<1>13. plan.reason = None => Open(s5) /\ ToSet(plan.ops) = Changes(s5.world, inst)
  BY <1>11, <1>12, PlanOK
<1>14. plan = Resolve(reqs, inst, available, refs, conf, opts)
  BY DEF Resolve, s0, s1, s2, s3, s4, s5, keys, allowed
<1> HIDE DEF plan
<1>15. ASSUME plan.reason = None
       PROVE  /\ s1.world \in SUBSET W /\ WorldOK(s1.world, inst, view)
              /\ ToSet(plan.ops) = Changes(s1.world, inst) /\ Untargeted(s1.world, reqs)
              /\ \A V \in SUBSET W : SelfMet(V, refs) /\ Untargeted(V, reqs) => V \in SUBSET s1.world
  BY <1>5, <1>6, <1>9, <1>11, <1>12, <1>13, <1>15
<1> QED BY <1>14, <1>15 DEF W

-----------------------------------------------------------------------------
(* An uninstall as a whole.                                                *)

Exact(inst, at, args, ops) ==
  LET asked == {e \in InstalledWorld(inst) : e.root = at /\ e.pkg.name \in ToSet(args)}
      others == InstalledWorld(inst) \ asked
      whole == {S \in SUBSET others : \A e \in S : Meets(S, e)}
  IN InstalledWorld(FoldLeft(runOp, inst, ops)) = UNION whole

(* What is installed after the removals is what the resolver kept and what *)
(* it did not look at.                                                     *)
LEMMA RemovalLeaves ==
  ASSUME NEW inst, Packages(inst), NEW view \in SUBSET Root,
         NEW world \in SUBSET InstalledWorld(Seen(inst, view)), WorldOK(world, Seen(inst, view), view),
         NEW ops \in Seq(Planned(Root)), ToSet(ops) = Changes(world, Seen(inst, view))
  PROVE  InstalledWorld(FoldLeft(runOp, inst, ops))
         = world \cup {e \in InstalledWorld(inst) : e.root \notin view}
<1> DEFINE O == Effect(inst, Changes(world, Seen(inst, view)))
           at(r, c) == [root |-> r, pkg |-> c, chosen |-> FALSE, was |-> c]
<1>1. FoldLeft(runOp, inst, ops) = O
  <2>1. OneOpEach(ToSet(ops))
    BY SeenGiven, OneChangeEach
  <2> QED BY <2>1, RunEffect DEF Packages
<1>2. /\ \A r \in Root \ view : O[r] = inst[r]
      /\ \A r \in view : \A c : c \in O[r] <=> \E e \in world : e.root = r /\ c = Kept(e)
  BY AchievedEffect
<1> HIDE DEF O
<1>3. \A X, e : e \in InstalledWorld(X) <=> \E r \in Root : \E c \in X[r] : e = at(r, c)
  BY DEF InstalledWorld
<1>4. \A r, c : at(r, c).root = r /\ at(r, c).pkg = c /\ Kept(at(r, c)) = c
  BY DEF Kept
<1>5. \A e \in world : \E r \in view : \E c \in inst[r] : e = at(r, c)
  <2> TAKE e \in world
  <2>1. PICK r \in Root : \E c \in Seen(inst, view)[r] : e = at(r, c)
    BY <1>3
  <2>2. Seen(inst, view)[r] = IF r \in view THEN inst[r] ELSE {}
    BY DEF Seen
  <2> QED BY <2>1, <2>2
<1> HIDE DEF at
<1>6. \A e \in world : e.root \in view /\ e = at(e.root, Kept(e)) /\ Kept(e) = e.pkg
  BY <1>4, <1>5
<1>7. ASSUME NEW e \in InstalledWorld(O)
      PROVE  e \in world \/ (e \in InstalledWorld(inst) /\ e.root \notin view)
  <2>1. PICK r \in Root : \E c \in O[r] : e = at(r, c)
    BY <1>3, <1>7
  <2>2. PICK c \in O[r] : e = at(r, c)
    BY <2>1
  <2>3. CASE r \in view
    <3>1. PICK f \in world : f.root = r /\ c = Kept(f)
      BY <1>2, <2>2, <2>3
    <3> QED BY <3>1, <2>2, <1>6
  <2>4. CASE r \notin view
    BY <2>1, <2>2, <2>4, <1>2, <1>3, <1>4
  <2> QED BY <2>3, <2>4
<1>8. ASSUME NEW e \in world PROVE e \in InstalledWorld(O)
  <2>1. e.root \in Root /\ Kept(e) \in O[e.root] /\ e = at(e.root, Kept(e))
    BY <1>2, <1>6, <1>8
  <2> QED BY <2>1, <1>3
<1>9. ASSUME NEW e \in InstalledWorld(inst), e.root \notin view PROVE e \in InstalledWorld(O)
  <2>1. PICK r \in Root : \E c \in inst[r] : e = at(r, c)
    BY <1>3, <1>9
  <2>2. O[r] = inst[r]
    BY <2>1, <1>2, <1>4, <1>9
  <2> QED BY <2>1, <2>2, <1>3
<1> QED BY <1>1, <1>7, <1>8, <1>9

(* It is the largest set of the packages not named that is complete, when  *)
(* nothing in it is broken.                                                *)
LEMMA RemovalExact ==
  ASSUME NEW inst, Packages(inst), NEW view \in SUBSET Root, NEW at \in view,
         NEW refs \in SUBSET view, refs # None, NEW args \in Seq(Name), NEW T, NEW reqs \in Seq(T),
         \A i \in DOMAIN args : Request("remove", at, args[i]) \in ToSet(reqs),
         \A q \in ToSet(reqs) : q.root = at /\ q.name \in ToSet(args),
         NEW world \in SUBSET InstalledWorld(Seen(inst, view)),
         WorldOK(world, Seen(inst, view), view), Untargeted(world, reqs),
         \A V \in SUBSET InstalledWorld(Seen(inst, view)) :
           SelfMet(V, refs) /\ Untargeted(V, reqs) => V \in SUBSET world,
         NEW ops \in Seq(Planned(Root)), ToSet(ops) = Changes(world, Seen(inst, view)),
         Whole(FoldLeft(runOp, inst, ops))
  PROVE  Exact(inst, at, args, ops)
<1> DEFINE W == InstalledWorld(inst)
           after == InstalledWorld(FoldLeft(runOp, inst, ops))
           asked == {e \in W : e.root = at /\ e.pkg.name \in ToSet(args)}
           others == W \ asked
           whole == {S \in SUBSET others : \A e \in S : Meets(S, e)}
           G == InstalledWorld(Seen(inst, view))
<1>1. after = world \cup {e \in W : e.root \notin view}
  BY RemovalLeaves
<1>2. G = {e \in W : e.root \in view}
  <2>1. \A r \in Root : Seen(inst, view)[r] = IF r \in view THEN inst[r] ELSE {}
    BY DEF Seen
  <2>2. \A X, e : e \in InstalledWorld(X) <=> \E r \in Root : \E c \in X[r] :
                                      e = [root |-> r, pkg |-> c, chosen |-> FALSE, was |-> c]
    BY DEF InstalledWorld
  <2> DEFINE sees == Seen(inst, view)
  <2> HIDE DEF sees
  <2>3. \A e : e \in InstalledWorld(sees) <=> e \in InstalledWorld(inst) /\ e.root \in view
    <3> TAKE e
    <3>1. ASSUME e \in InstalledWorld(sees) PROVE e \in InstalledWorld(inst) /\ e.root \in view
      <4>1. PICK r \in Root : \E c \in sees[r] : e = [root |-> r, pkg |-> c, chosen |-> FALSE, was |-> c]
        BY <3>1, <2>2
      <4>2. e.root = r /\ r \in view /\ sees[r] = inst[r]
        BY <4>1, <2>1 DEF sees
      <4> QED BY <4>1, <4>2, <2>2
    <3>2. ASSUME e \in InstalledWorld(inst), e.root \in view PROVE e \in InstalledWorld(sees)
      <4>1. PICK r \in Root : \E c \in inst[r] : e = [root |-> r, pkg |-> c, chosen |-> FALSE, was |-> c]
        BY <3>2, <2>2
      <4>2. e.root = r /\ sees[r] = inst[r]
        BY <4>1, <2>1, <3>2 DEF sees
      <4> QED BY <4>1, <4>2, <2>2
    <3> QED BY <3>1, <3>2
  <2> QED BY <2>3 DEF sees
<1>3. \A V : Untargeted(V, reqs) <=> \A e \in V : ~(e.root = at /\ e.pkg.name \in ToSet(args))
  <2>1. \A name : name \in ToSet(args) <=> \E q \in ToSet(reqs) : q.name = name
    BY DEF ToSet, Request
  <2> QED BY <2>1 DEF Untargeted, At
<1> HIDE DEF W, G, after
<1>4. after \in whole
  <2>1. after \in SUBSET W
    BY <1>1, <1>2 DEF G
  <2>2. \A e \in after : e \notin asked
    BY <1>1, <1>3
  <2>3. \A e \in after : Meets(after, e)
    BY DEF Whole, after
  <2> QED BY <2>1, <2>2, <2>3
<1>5. ASSUME NEW S \in whole, NEW e \in S PROVE e \in after
  <2> DEFINE V == {f \in S : f.root \in view}
  <2>1. S \in SUBSET W /\ \A f \in S : f \notin asked /\ Meets(S, f)
    OBVIOUS
  <2>2. V \in SUBSET G /\ Untargeted(V, reqs)
    BY <2>1, <1>2, <1>3
  <2>3. ASSUME NEW f \in V, NEW dep \in f.pkg.deps, routeRoot(dep, f.root, refs) # None
        PROVE  Satisfied(V, f, dep, refs)
    <3>1. routeRoot(dep, f.root, refs) = (IF dep.in = Here THEN f.root ELSE dep.in)
          /\ routeRoot(dep, f.root, refs) \in view
      BY <2>3 DEF routeRoot
    <3>2. PICK g \in S : g.root = (IF dep.in = Here THEN f.root ELSE dep.in) /\ satisfies(g.pkg, dep, f.pkg.arch)
      BY <2>1 DEF Meets
    <3>3. g \in V /\ g.root = routeRoot(dep, f.root, refs)
      BY <3>1, <3>2
    <3> HIDE DEF V
    <3> QED BY <3>2, <3>3 DEF Satisfied, worldSatisfiesInRoot
  <2>4. V \in SUBSET world
    <3>1. SelfMet(V, refs)
      BY <2>3 DEF SelfMet
    <3> QED BY <2>2, <3>1 DEF G
  <2> QED BY <2>1, <2>4, <1>1
<1>6. after = UNION whole
  BY <1>4, <1>5
<1> QED BY <1>6 DEF Exact, W, after

(* What an uninstall shows is exact.                                       *)
LEMMA UninstallExact ==
  ASSUME IInv, NEW p \in Process, NEW at \in Stand, NEW args \in Arguments, cmdUninstall(p, at, args),
         Whole(FoldLeft(runOp, installed, job'[p].ops))
  PROVE  /\ job' = [job EXCEPT ![p] = job'[p]] /\ installed' = installed
         /\ Exact(installed, job'[p].at, job'[p].asked, job'[p].ops)
<1>1. at \in Root /\ args \in Seq(Name) /\ TypeOK /\ job \in [Process -> {None} \cup Shown]
  BY CommandsAssumption DEF IInv, TypeOK
<1> DEFINE reqs == [i \in DOMAIN args |-> Request("remove", at, args[i])]
           opts(c) == [Options EXCEPT !.cascade = c]
           plan(c) == resolveCrossRoot(at, reqs, availableSet(at), opts(c))
           view == Reach(at)
           given == Seen(installed, view)
<1>2. PICK cascade \in BOOLEAN : Show(p, "uninstall", at, args, plan(cascade), FALSE)
  BY DEF cmdUninstall, Map
<1>3. /\ view \in SUBSET Root /\ at \in view /\ Below[at] \in SUBSET view /\ Below[at] # None
      /\ Packages(installed) /\ Given(given, view)
  <2>1. View(at, FALSE) = Reach(at) /\ Refs(at, FALSE) = Below[at]
    BY DEF View, Refs
  <2>2. Below[at] \in SUBSET Root /\ Below[at] # None
    BY <1>1, CommandsAssumption, ResolverAssumption
  <2>3. Below[at] \in SUBSET view
    BY DEF Reach
  <2> QED BY <1>1, <2>1, <2>2, <2>3, InView
<1>4. gatherInstalledByRoot(at) = given
  BY DEF gatherInstalledByRoot, Seen
<1> DEFINE chosen == Resolve(reqs, given, availableSet(at), Below[at], configured[at], opts(cascade))
<1>5. plan(cascade) = chosen
  BY <1>4 DEF resolveCrossRoot
<1>6. /\ reqs \in Seq(Requests(view))
      /\ \A q \in ToSet(reqs) : q.kind = "remove" /\ q.root = at /\ q.name \in ToSet(args)
      /\ \A i \in DOMAIN args : Request("remove", at, args[i]) \in ToSet(reqs)
  <2>1. reqs \in Seq(Requests(view))
    BY <1>1, <1>3, ArgumentRequests
  <2>2. DOMAIN reqs = DOMAIN args /\ \A i \in DOMAIN args : reqs[i] = Request("remove", at, args[i])
    OBVIOUS
  <2> HIDE DEF reqs
  <2> QED BY <2>1, <2>2 DEF ToSet, Request
<1>7. chosen \in PlanType(view)
  <2>1. availableSet(at) \in SUBSET Catalog
    BY <1>1, Candidates
  <2> DEFINE avail == availableSet(at)
             o == opts(cascade)
  <2> HIDE DEF reqs, given, view, avail, o
  <2>2. Resolution(Resolve(reqs, given, avail, Below[at], configured[at], o), given, view, Below[at])
    BY <1>3, <1>6, <2>1, ResolveOK DEF avail
  <2> QED BY <2>2 DEF Resolution, avail, o
<1>8. /\ chosen.reason = None /\ installed' = installed
      /\ job' = [job EXCEPT ![p] = [verb |-> "uninstall", at |-> at, asked |-> args, ops |-> chosen.ops,
                                    auths |-> chosen.auths, separate |-> FALSE]]
  BY <1>2, <1>5 DEF Show
<1>9. /\ job'[p].at = at /\ job'[p].asked = args /\ job'[p].ops = chosen.ops
      /\ job' = [job EXCEPT ![p] = job'[p]]
  BY <1>1, <1>8
<1>10. PICK world \in SUBSET InstalledWorld(given) :
         /\ WorldOK(world, given, view) /\ ToSet(chosen.ops) = Changes(world, given)
         /\ Untargeted(world, reqs)
         /\ \A V \in SUBSET InstalledWorld(given) :
              SelfMet(V, Below[at]) /\ Untargeted(V, reqs) => V \in SUBSET world
  <2> DEFINE avail == availableSet(at)
             o == opts(cascade)
  <2> HIDE DEF reqs, given, view, avail, o
  <2> QED BY <1>3, <1>6, <1>8, RemovalPlan DEF avail, o
<1> HIDE DEF chosen
<1>11. chosen.ops \in Seq(Planned(Root))
  <2>1. Planned(view) \in SUBSET Planned(Root)
    BY <1>3 DEF Planned
  <2> DEFINE ops == chosen.ops
             P == Planned(view)
             Q == Planned(Root)
  <2>2. ops \in Seq(P) /\ P \in SUBSET Q
    BY <1>7, <2>1 DEF PlanType
  <2> HIDE DEF ops, P, Q
  <2>3. ops \in Seq(Q)
    BY <2>2
  <2> QED BY <2>3 DEF ops, Q
<1> DEFINE ops == chosen.ops
<1>12. Exact(installed, at, args, ops)
  <2>1. Whole(FoldLeft(runOp, installed, ops))
    BY <1>9
  <2> HIDE DEF reqs, view, ops
  <2>2. \A q \in ToSet(reqs) : q.root = at /\ q.name \in ToSet(args)
    BY <1>6
  <2> QED BY <1>1, <1>3, <1>6, <1>10, <1>11, <2>1, <2>2, RemovalExact DEF given, ops
<1> QED BY <1>8, <1>9, <1>12

(* No other step shows an uninstall.                                       *)
LEMMA OtherShows ==
  ASSUME IInv, Next
  PROVE  \/ \E p \in Process, at \in Stand, args \in Arguments : cmdUninstall(p, at, args)
         \/ \E p \in Process : /\ Shows(p) /\ job' = [job EXCEPT ![p] = job'[p]] /\ installed' = installed
                               /\ job'[p].verb # "uninstall"
         \/ \E p \in Process : Execute(p) \/ Abandon(p)
         \/ UNCHANGED <<installed, job>>
<1>1. ASSUME NEW p \in Process, NEW verb, NEW at, NEW asked, NEW plan, NEW separate,
             Show(p, verb, at, asked, plan, separate), verb # "uninstall"
      PROVE  job' = [job EXCEPT ![p] = job'[p]] /\ installed' = installed /\ job'[p].verb # "uninstall"
  <2> DEFINE j == [verb |-> verb, at |-> at, asked |-> asked, ops |-> plan.ops,
                   auths |-> plan.auths, separate |-> separate]
  <2>1. j.verb = verb
    OBVIOUS
  <2>2. job' = [job EXCEPT ![p] = j] /\ installed' = installed
    BY <1>1 DEF Show
  <2> HIDE DEF j
  <2>3. job'[p] = j
    BY <2>2 DEF IInv, TypeOK
  <2> QED BY <1>1, <2>1, <2>2, <2>3
<1>2. ASSUME NEW p \in Process, NEW at \in Stand, NEW args \in Arguments, NEW files \in FileChoices,
             cmdInstall(p, at, args, files)
      PROVE  job' = [job EXCEPT ![p] = job'[p]] /\ installed' = installed /\ job'[p].verb # "uninstall"
  BY <1>1, <1>2 DEF cmdInstall
<1>3. ASSUME NEW p \in Process, NEW at \in Stand, NEW args \in Arguments, NEW noRecurse \in BOOLEAN,
             cmdUpgrade(p, at, args, noRecurse)
      PROVE  job' = [job EXCEPT ![p] = job'[p]] /\ installed' = installed /\ job'[p].verb # "uninstall"
  <2>1. \E verb \in {"upgrade here", "upgrade"} : \E plan : Show(p, verb, at, args, plan, FALSE)
    BY <1>3 DEF cmdUpgrade
  <2> QED BY <1>1, <2>1
<1>4. ASSUME NEW p \in Process, NEW at \in Stand, NEW c \in archiveCandidates(at), cmdDowngrade(p, at, c.name, c.ver)
      PROVE  job' = [job EXCEPT ![p] = job'[p]] /\ installed' = installed /\ job'[p].verb # "uninstall"
  BY <1>1, <1>4 DEF cmdDowngrade
<1>5. ASSUME NEW p \in Process, NEW at \in Stand, cmdUndo(p, at)
      PROVE  job' = [job EXCEPT ![p] = job'[p]] /\ installed' = installed /\ job'[p].verb # "uninstall"
  BY <1>1, <1>5 DEF cmdUndo
<1>6. ASSUME NEW c, Publish(c) PROVE UNCHANGED <<installed, job>>
  BY <1>6 DEF Publish
<1>7. ASSUME NEW at, NEW repo, removeRepository(at, repo) \/ addRepository(at, repo)
      PROVE  UNCHANGED <<installed, job>>
  BY <1>7 DEF removeRepository, addRepository
<1> QED BY <1>2, <1>3, <1>4, <1>5, <1>6, <1>7, InstallShows, UpgradeShows, DowngradeShows, UndoShows DEF Next

ExactInv ==
  \A p \in Process : job[p] # None /\ job[p].verb = "uninstall" =>
    Exact(installed, job[p].at, job[p].asked, job[p].ops)

(* So every uninstall that waits is exact.                                 *)
LEMMA ExactStep ==
  ASSUME WholeInv, WholeInv', ExactInv, [Next]_vars, Alone
  PROVE  ExactInv'
<1>1. ASSUME installed' = installed, \A p \in Process : job'[p] \in {None, job[p]} PROVE ExactInv'
  BY <1>1 DEF ExactInv
<1>2. job \in [Process -> {None} \cup Shown] /\ IInv
  BY DEF WholeInv, IInv, TypeOK
<1>3. ASSUME NEW p \in Process, job' = [job EXCEPT ![p] = job'[p]], installed' = installed,
             \/ job'[p].verb # "uninstall"
             \/ Exact(installed, job'[p].at, job'[p].asked, job'[p].ops)
      PROVE  ExactInv'
  <2>1. \A q \in Process : q # p => job'[q] = job[q]
    BY <1>2, <1>3
  <2> QED BY <1>3, <2>1 DEF ExactInv
<1>4. ASSUME NEW p \in Process, NEW at \in Stand, NEW args \in Arguments, cmdUninstall(p, at, args)
      PROVE  ExactInv'
  <2>1. installed' = installed /\ \A q \in Process : q # p => job'[q] = job[q]
    <3>1. PICK plan : Show(p, "uninstall", at, args, plan, FALSE)
      BY <1>4 DEF cmdUninstall
    <3> QED BY <3>1, <1>2 DEF Show
  <2>2. CASE job'[p] = None
    BY <2>1, <2>2 DEF ExactInv
  <2>3. CASE job'[p] # None
    <3>1. Whole(FoldLeft(runOp, installed, job'[p].ops))
      BY <2>1, <2>3 DEF WholeInv
    <3>2. /\ job' = [job EXCEPT ![p] = job'[p]] /\ installed' = installed
          /\ Exact(installed, job'[p].at, job'[p].asked, job'[p].ops)
      BY <1>2, <1>4, <3>1, UninstallExact
    <3> QED BY <3>2, <1>3
  <2> QED BY <2>2, <2>3
<1>5. ASSUME NEW p \in Process, Execute(p) PROVE ExactInv'
  <2>1. job[p] # None /\ job' = [job EXCEPT ![p] = None]
    BY <1>5 DEF Execute
  <2>2. \A q \in Process : job'[q] = None
    BY <1>2, <2>1 DEF Alone
  <2> QED BY <2>2 DEF ExactInv
<1>6. ASSUME NEW p \in Process, Abandon(p) PROVE ExactInv'
  BY <1>1, <1>2, <1>6 DEF Abandon
<1>7. CASE UNCHANGED <<installed, job>>
  BY <1>1, <1>7
<1>8. CASE UNCHANGED vars
  BY <1>1, <1>8 DEF vars
<1> QED BY <1>2, <1>3, <1>4, <1>5, <1>6, <1>7, <1>8, OtherShows

(* CascadeExact: an uninstall leaves the most that can be left, and nobody *)
(* broken, under the hypotheses of StaysWhole (applyRemovals).             *)
THEOREM UninstallsExactly ==
  ASSUME OneBuildPerVersion
  PROVE  Spec /\ [](Alone /\ InPlace /\ Sighted) => []CascadeExact
<1>1. Init => WholeInv /\ ExactInv
  <2> SUFFICES ASSUME Init PROVE WholeInv /\ ExactInv
    OBVIOUS
  <2>1. \A p \in Process : job[p] = None
    BY DEF Init
  <2> QED BY <2>1, IInvInit, EmptyWhole DEF WholeInv, ExactInv
<1>2. /\ WholeInv /\ ExactInv /\ [Next]_vars
      /\ (Alone /\ InPlace /\ Sighted) /\ (Alone /\ InPlace /\ Sighted)'
      => WholeInv' /\ ExactInv'
  BY WholeStep, ExactStep
<1>3. WholeInv /\ ExactInv => CascadeExact
  BY DEF ExactInv, Exact, CascadeExact
<1> QED BY <1>1, <1>2, <1>3, PTL DEF Spec

-----------------------------------------------------------------------------
(* A plan one operation at a time.                                         *)

(* A dependency that names a root names one that whoever sees every root   *)
(* has below it: the root / has no name to be named by.                    *)
AnchorUnnamed ==
  \A c \in Catalog : \A dep \in c.deps : dep.in \in Root =>
    \A at \in Root : Reach(at) = Root => dep.in \in Below[at]

(* Where the plan's operations are in its list.                            *)
LEMMA ArrangedOps ==
  ASSUME NEW world, NEW inst, NEW refs, NEW ops, Arranged(ops, world, inst, refs)
  PROVE  \E gone \in Seq(removedEntries(world, inst)), come \in Seq(forwardEntries(world)) :
           /\ Laid(gone, removedEntries(world, inst), refs) /\ ToSet(gone) = removedEntries(world, inst)
           /\ Laid(come, forwardEntries(world), refs) /\ ToSet(come) = forwardEntries(world)
           /\ Len(ops) = Len(gone) + Len(come) /\ Len(gone) \in Nat /\ Len(come) \in Nat
           /\ \A i \in 1 .. Len(gone) : ops[i] = removal(gone[Len(gone) + 1 - i])
           /\ \A i \in 1 .. Len(come) : ops[Len(gone) + i] = forward(come[i])
<1> DEFINE R == removedEntries(world, inst)
           F == forwardEntries(world)
<1>0. PICK gone \in Seq(R), come \in Seq(F) :
        /\ Laid(gone, R, refs) /\ Laid(come, F, refs)
        /\ ToSet(gone) = R /\ ToSet(come) = F
        /\ ops = Map(removal, Reverse(gone)) \o Map(forward, come)
  BY DEF Arranged
<1> DEFINE n == Len(gone)
           m == Len(come)
           a == Map(removal, Reverse(gone))
           b == Map(forward, come)
<1>1. n \in Nat /\ m \in Nat /\ DOMAIN come = 1 .. m
  OBVIOUS
<1> HIDE DEF R, F
<1>2. a = [i \in 1 .. n |-> removal(gone[n + 1 - i])]
  <2>1. Reverse(gone) = [i \in 1 .. n |-> gone[(n - i) + 1]]
    BY DEF Reverse
  <2>2. DOMAIN Reverse(gone) = 1 .. n /\ \A i \in 1 .. n : Reverse(gone)[i] = gone[n + 1 - i]
    BY <2>1, <1>1
  <2> QED BY <2>2 DEF Map
<1>3. b = [i \in 1 .. m |-> forward(come[i])]
  BY <1>1 DEF Map
<1> DEFINE A == {removal(e) : e \in R}
           B == {forward(e) : e \in F}
<1>4. a \in Seq(A)
  <2>1. \A i \in 1 .. n : n + 1 - i \in 1 .. n /\ gone[n + 1 - i] \in R
    BY <1>1
  <2> HIDE DEF n
  <2>2. a \in [1 .. n -> A]
    BY <1>2, <2>1
  <2> HIDE DEF a, A
  <2> QED BY <1>1, <2>2
<1>5. b \in Seq(B)
  <2>1. \A i \in 1 .. m : come[i] \in F
    BY <1>1
  <2> HIDE DEF m
  <2>2. b \in [1 .. m -> B]
    BY <1>3, <2>1
  <2> HIDE DEF b, B
  <2> QED BY <1>1, <2>2
<1>6. Len(a) = n /\ Len(b) = m
  <2> HIDE DEF n, m
  <2> QED BY <1>1, <1>2, <1>3, <1>4, <1>5
<1> HIDE DEF a, b, A, B, n, m
<1>7. ops = a \o b
  BY <1>0 DEF a, b
<1>8. /\ Len(ops) = n + m /\ DOMAIN ops = 1 .. n + m
      /\ \A i \in 1 .. n : ops[i] = a[i]
      /\ \A i \in 1 .. m : ops[n + i] = b[i]
  <2> DEFINE T == A \cup B
             c == a \o b
  <2>1. a \in Seq(T) /\ b \in Seq(T)
    BY <1>4, <1>5
  <2> HIDE DEF T
  <2>2. c \in Seq(T) /\ Len(c) = n + m
    <3>1. a \o b \in Seq(T) /\ Len(a \o b) = Len(a) + Len(b)
      BY <2>1
    <3> QED BY <3>1, <1>6
  <2>3. \A i \in 1 .. n : c[i] = a[i]
    BY <2>1, <1>1, <1>6
  <2>4. \A i \in 1 .. m : c[n + i] = b[i]
    <3> TAKE i \in 1 .. m
    <3>1. n + i \in 1 .. n + m /\ ~(n + i <= n) /\ (n + i) - n = i
      BY <1>1
    <3> QED BY <3>1, <2>1, <1>1, <1>6
  <2>5. ops = c
    BY <1>7
  <2> HIDE DEF c
  <2>6. DOMAIN c = 1 .. n + m
    BY <2>2
  <2> QED BY <2>2, <2>3, <2>4, <2>5, <2>6
<1> QED BY <1>0, <1>1, <1>2, <1>3, <1>8 DEF n, m, R, F

(* What is installed after the first operations of a plan.                 *)
LEMMA PrefixEffect ==
  ASSUME NEW inst \in [Root -> SUBSET Catalog], NEW ops \in Seq(Planned(Root)), OneOpEach(ToSet(ops)),
         NEW i \in 1 .. Len(ops)
  PROVE  FoldLeft(runOp, inst, SubSeq(ops, 1, i)) = Effect(inst, {ops[k] : k \in 1 .. i})
<1> DEFINE q == SubSeq(ops, 1, i)
<1>1. i \in Nat /\ Len(ops) \in Nat /\ 1 .. i \in SUBSET (1 .. Len(ops)) /\ DOMAIN ops = 1 .. Len(ops)
  OBVIOUS
<1>2. q \in Seq(Planned(Root)) /\ Len(q) = i /\ \A k \in 1 .. i : q[k] = ops[k]
  BY <1>1
<1> HIDE DEF q
<1>3. ToSet(q) = {ops[k] : k \in 1 .. i}
  <2>1. DOMAIN q = 1 .. i
    BY <1>2
  <2> QED BY <2>1, <1>2 DEF ToSet
<1>4. OneOpEach(ToSet(q))
  <2>1. ToSet(q) \in SUBSET ToSet(ops)
    BY <1>1, <1>3 DEF ToSet
  <2> QED BY <2>1 DEF OneOpEach
<1>5. FoldLeft(runOp, inst, q) = Effect(inst, ToSet(q))
  BY <1>2, <1>4, RunEffect
<1> QED BY <1>3, <1>5 DEF q

(* Meets, in terms of packages.                                            *)
LEMMA MeetsMeans ==
  ASSUME NEW inst, NEW e
  PROVE  /\ e \in InstalledWorld(inst) => e.root \in Root /\ e.pkg \in inst[e.root]
         /\ (\A dep \in e.pkg.deps : /\ Place(dep, e.root) \in Root
                                     /\ \E d \in inst[Place(dep, e.root)] : satisfies(d, dep, e.pkg.arch))
            => Meets(InstalledWorld(inst), e)
<1> DEFINE W == InstalledWorld(inst)
           at(r, c) == [root |-> r, pkg |-> c, chosen |-> FALSE, was |-> c]
<1>1. \A f : f \in W <=> \E r \in Root : \E c \in inst[r] : f = at(r, c)
  BY DEF InstalledWorld
<1>2. \A r, c : at(r, c).root = r /\ at(r, c).pkg = c
  OBVIOUS
<1> HIDE DEF W, at
<1>3. \A r \in Root : \A c \in inst[r] : \E f \in W : f.root = r /\ f.pkg = c
  BY <1>1, <1>2
<1>4. e \in W => e.root \in Root /\ e.pkg \in inst[e.root]
  BY <1>1, <1>2
<1>5. (\A dep \in e.pkg.deps : /\ Place(dep, e.root) \in Root
                                     /\ \E d \in inst[Place(dep, e.root)] : satisfies(d, dep, e.pkg.arch))
            => Meets(W, e)
  BY <1>3 DEF Meets, Place
<1> QED BY <1>4, <1>5 DEF W
(* The resolver looks for a dependency where the package will look for it. *)
Routes(refs) ==
  \A c \in Catalog : \A dep \in c.deps : \A r, q \in Root :
    q = routeRoot(dep, r, refs) <=> q = Place(dep, r)

LEMMA RoutesRight ==
  ASSUME AnchorUnnamed, NEW at \in Root, NEW here \in BOOLEAN,
         DepsStayHere \/ (Reach(at) = Root /\ ~here)
  PROVE  Routes(Refs(at, here))
<1> DEFINE refs == Refs(at, here)
<1>1. None \notin Root /\ Here \notin Root /\ Below[at] # None
  BY ResolverAssumption, CommandsAssumption
<1>2. CASE DepsStayHere
  <2>1. \A c \in Catalog : \A dep \in c.deps : \A r \in Root :
          routeRoot(dep, r, refs) = r /\ Place(dep, r) = r
    BY <1>2 DEF DepsStayHere, routeRoot, Place
  <2> QED BY <2>1 DEF Routes
<1>3. CASE Reach(at) = Root /\ ~here
  <2>1. refs = Below[at] /\ refs # None
    BY <1>1, <1>3 DEF Refs
  <2> HIDE DEF refs
  <2> SUFFICES ASSUME NEW c \in Catalog, NEW dep \in c.deps, NEW r \in Root, NEW q \in Root
               PROVE  q = routeRoot(dep, r, refs) <=> q = Place(dep, r)
    BY DEF Routes, refs
  <2>2. CASE dep.in = Here
    BY <2>2 DEF routeRoot, Place
  <2>3. CASE dep.in # Here /\ dep.in \in refs
    BY <2>1, <2>3 DEF routeRoot, Place
  <2>4. CASE dep.in # Here /\ dep.in \notin refs
    <3>1. dep.in \notin Root
      BY <1>3, <2>1, <2>4 DEF AnchorUnnamed
    <3>2. routeRoot(dep, r, refs) = None /\ Place(dep, r) = dep.in
      BY <2>1, <2>4 DEF routeRoot, Place
    <3> QED BY <1>1, <3>1, <3>2
  <2> QED BY <2>2, <2>3, <2>4
<1> QED BY <1>2, <1>3

(* What the plan has no operation for stays as it is.                      *)
LEMMA KeptUntouched ==
  ASSUME NEW inst, Packages(inst), NEW view \in SUBSET Root,
         NEW world, WorldOK(world, Seen(inst, view), view),
         NEW f \in world, f \notin forwardEntries(world)
  PROVE  /\ f.root \in Root /\ f.pkg \in Catalog /\ Kept(f) \in Catalog
         /\ Kept(f).name = f.pkg.name /\ Kept(f).ver = f.pkg.ver /\ Kept(f) \in inst[f.root]
         /\ Untouched(Kept(f), f.root, Changes(world, Seen(inst, view)))
<1> DEFINE given == Seen(inst, view)
           S == Changes(world, given)
<1>1. Given(given, view) /\ \A r \in view : given[r] = inst[r]
  <2>1. \A r \in view : given[r] = inst[r]
    BY DEF Seen
  <2> QED BY <2>1, SeenGiven
<1>2. world \in SUBSET Entry(view) /\ OneEach(world) /\ Remembers(f, given)
  BY DEF WorldOK
<1> HIDE DEF given
<1>3. f.root \in view /\ f.pkg \in Catalog
  BY <1>2 DEF Entry
<1>4. f \notin forwardEntries({f})
  BY DEF forwardEntries
<1>5. /\ Kept(f) \in Catalog /\ Kept(f).name = f.pkg.name /\ Kept(f).ver = f.pkg.ver
      /\ Kept(f) \in inst[f.root]
  BY <1>1, <1>2, <1>3, <1>4, KeptSame
<1>6. \A o : o \in S <=> \/ \E e \in removedEntries(world, given) : o = removal(e)
                         \/ \E e \in forwardEntries(world) : o = forward(e)
  BY DEF Changes
<1> HIDE DEF S
<1>7. Untouched(Kept(f), f.root, S)
  <2> SUFFICES ASSUME NEW o \in S, o.root = f.root, o.name = f.pkg.name PROVE FALSE
    BY <1>5 DEF Untouched
  <2>1. ASSUME NEW e \in removedEntries(world, given), o = removal(e) PROVE FALSE
    <3>1. e.root = f.root /\ e.pkg.name = f.pkg.name /\ At(world, e.root, e.pkg.name) = {}
      BY <2>1 DEF removedEntries, removal
    <3>2. f \in At(world, e.root, e.pkg.name)
      BY <3>1 DEF At
    <3> QED BY <3>1, <3>2
  <2>2. ASSUME NEW e \in forwardEntries(world), o = forward(e) PROVE FALSE
    <3>1. e.root = f.root /\ e.pkg.name = f.pkg.name /\ e \in world
      BY <2>2 DEF forwardEntries, forward
    <3> QED BY <3>1, <2>2, <1>2 DEF OneEach
  <2> QED BY <2>1, <2>2, <1>6
<1> QED BY <1>3, <1>5, <1>7 DEF S, given
(* What an operation puts in place has its dependencies there.             *)
LEMMA PlacedMet ==
  ASSUME OneBuildPerVersion, NEW inst, Packages(inst), NEW view \in SUBSET Root,
         NEW refs, Routes(refs),
         NEW world, WorldOK(world, Seen(inst, view), view), ~unmetDependency(world, refs),
         NEW ops \in Seq(Planned(Root)), ToSet(ops) = Changes(world, Seen(inst, view)),
         Arranged(ops, world, Seen(inst, view), refs),
         NEW i \in 1 .. Len(ops), NEW r \in Root, NEW c \in Catalog, ops[i].to = c, ops[i].root = r
  PROVE  Served(Effect(inst, {ops[k] : k \in 1 .. i}), r, c)
<1> DEFINE given == Seen(inst, view)
           R == removedEntries(world, given)
           F == forwardEntries(world)
           S == {ops[k] : k \in 1 .. i}
           E == Effect(inst, S)
<1>1. PICK gone \in Seq(R), come \in Seq(F) :
        /\ Laid(gone, R, refs) /\ ToSet(gone) = R
        /\ Laid(come, F, refs) /\ ToSet(come) = F
        /\ Len(ops) = Len(gone) + Len(come) /\ Len(gone) \in Nat /\ Len(come) \in Nat
        /\ \A k \in 1 .. Len(gone) : ops[k] = removal(gone[Len(gone) + 1 - k])
        /\ \A k \in 1 .. Len(come) : ops[Len(gone) + k] = forward(come[k])
  BY ArrangedOps
<1> DEFINE n == Len(gone)
<1>2. /\ Len(ops) = n + Len(come) /\ n \in Nat /\ Len(come) \in Nat
      /\ \A k \in 1 .. n : ops[k] = removal(gone[n + 1 - k])
      /\ \A k \in 1 .. Len(come) : ops[n + k] = forward(come[k])
  BY <1>1
<1>3. /\ world \in SUBSET Entry(view) /\ F \in SUBSET world /\ Len(come) \in Nat
      /\ \A k \in 1 .. Len(come) : come[k] \in F
  BY <1>1, <1>2 DEF WorldOK, forwardEntries
<1>4. S \in SUBSET Changes(world, given)
  <2>1. 1 .. i \in SUBSET (1 .. Len(ops)) /\ DOMAIN ops = 1 .. Len(ops)
    OBVIOUS
  <2> QED BY <2>1 DEF ToSet
<1>5. \A q \in Root : \A d : d \in E[q] <=>
        \/ d \in inst[q] /\ Untouched(d, q, S)
        \/ \E o \in S : o.root = q /\ o.to # None /\ d = o.to
  BY DEF Effect
<1>6. None \notin Catalog /\ None \notin Root
  BY ResolverAssumption, CommandsAssumption
<1>7. \A k \in 1 .. i : ops[k] \in S
  OBVIOUS
<1> HIDE DEF given, R, F, n, S, E
<1>8. PICK m \in 1 .. Len(come) : i = n + m
  <2>1. CASE i \in 1 .. n
    <3>1. ops[i] = removal(gone[n + 1 - i])
      BY <1>2, <2>1
    <3>2. ops[i].to = None
      BY <3>1 DEF removal
    <3> QED BY <1>6, <3>2
  <2>2. CASE i \notin 1 .. n
    <3>1. i - n \in 1 .. Len(come) /\ i = n + (i - n)
      BY <1>2, <2>2
    <3> QED BY <3>1
  <2> QED BY <2>1, <2>2
<1> DEFINE h == come[m]
<1>9. h \in F /\ h \in world /\ ops[i] = forward(h) /\ h.root = r /\ h.pkg = c
  <2>1. h \in F /\ h \in world /\ ops[i] = forward(h)
    BY <1>2, <1>3, <1>8
  <2> QED BY <2>1 DEF forward
<1> SUFFICES ASSUME NEW dep \in c.deps
             PROVE  Place(dep, r) \in Root /\ \E d \in E[Place(dep, r)] : satisfies(d, dep, c.arch)
  BY DEF Served, E, S
<1>10. PICK f \in world : f.root = routeRoot(dep, r, refs) /\ satisfies(f.pkg, dep, c.arch)
  <2>1. Satisfied(world, h, dep, refs)
    BY <1>9 DEF unmetDependency
  <2> QED BY <2>1, <1>9 DEF Satisfied, worldSatisfiesInRoot
<1>11. f.root \in Root /\ f.root = Place(dep, r) /\ f.pkg \in Catalog
  <2>1. f.root \in Root /\ f.pkg \in Catalog
    BY <1>3 DEF Entry
  <2> QED BY <2>1, <1>10 DEF Routes
<1>12. CASE f \in F
  <2>1. \E k \in 1 .. i : ops[k] = forward(f)
    <3>1. CASE f = h
      BY <3>1, <1>9
    <3>2. CASE f # h
      <4>1. f \in dependenciesAmong(F, h, refs)
        BY <3>2, <1>9, <1>10, <1>12 DEF dependenciesAmong
      <4>2. PICK k \in 1 .. m - 1 : come[k] = f
        BY <4>1, <1>1, <1>8 DEF Laid, F
      <4>3. k \in 1 .. Len(come) /\ n + k \in 1 .. i
        BY <1>2, <1>8
      <4> QED BY <4>2, <4>3, <1>2
    <3> QED BY <3>1, <3>2
  <2>2. forward(f) \in S /\ forward(f).to = f.pkg /\ forward(f).root = f.root
    BY <2>1, <1>7 DEF forward
  <2>3. f.pkg \in E[f.root]
    BY <2>2, <1>5, <1>6, <1>11
  <2> QED BY <2>3, <1>10, <1>11
<1>13. CASE f \notin F
  <2>1. /\ Kept(f) \in Catalog /\ Kept(f).name = f.pkg.name /\ Kept(f).ver = f.pkg.ver
        /\ Kept(f) \in inst[f.root] /\ Untouched(Kept(f), f.root, Changes(world, given))
    BY <1>13, KeptUntouched DEF F, given
  <2>2. Untouched(Kept(f), f.root, S)
    BY <2>1, <1>4 DEF Untouched
  <2>3. Kept(f) \in E[f.root]
    BY <2>1, <2>2, <1>5, <1>11
  <2>4. satisfies(Kept(f), dep, c.arch)
    BY <2>1, <1>10, <1>11, KeptAlike
  <2> QED BY <2>3, <2>4, <1>11
<1> QED BY <1>12, <1>13

(* What is removed later still has its dependencies.                       *)
LEMMA RemovedMet ==
  ASSUME NEW inst, Packages(inst), Whole(inst), NEW view \in SUBSET Root, NEW refs, Routes(refs),
         NEW world, WorldOK(world, Seen(inst, view), view),
         NEW ops \in Seq(Planned(Root)), Arranged(ops, world, Seen(inst, view), refs),
         NEW i \in 1 .. Len(ops), NEW j \in i + 1 .. Len(ops),
         ops[i].kind = "remove", ops[j].kind = "remove",
         NEW r \in Root, NEW c \in Effect(inst, {ops[k] : k \in 1 .. i})[r],
         ops[j].root = r, ops[j].name = c.name
  PROVE  Served(Effect(inst, {ops[k] : k \in 1 .. i}), r, c)
<1> DEFINE given == Seen(inst, view)
           R == removedEntries(world, given)
           F == forwardEntries(world)
           S == {ops[k] : k \in 1 .. i}
           E == Effect(inst, S)
<1>1. PICK gone \in Seq(R), come \in Seq(F) :
        /\ Laid(gone, R, refs) /\ ToSet(gone) = R
        /\ Laid(come, F, refs) /\ ToSet(come) = F
        /\ Len(ops) = Len(gone) + Len(come) /\ Len(gone) \in Nat /\ Len(come) \in Nat
        /\ \A k \in 1 .. Len(gone) : ops[k] = removal(gone[Len(gone) + 1 - k])
        /\ \A k \in 1 .. Len(come) : ops[Len(gone) + k] = forward(come[k])
  <2>1. Arranged(ops, world, given, refs)
    OBVIOUS
  <2> HIDE DEF given
  <2> QED BY <2>1, ArrangedOps
<1> DEFINE n == Len(gone)
<1>2. /\ Len(ops) = n + Len(come) /\ n \in Nat /\ Len(come) \in Nat
      /\ \A k \in 1 .. n : ops[k] = removal(gone[n + 1 - k])
      /\ \A k \in 1 .. Len(come) : ops[n + k] = forward(come[k])
  BY <1>1
<1>3. \A k \in 1 .. n : n + 1 - k \in 1 .. n /\ gone[n + 1 - k] \in R
  BY <1>1, <1>2
<1>4. \A g \in R : g.root \in Root /\ g.pkg \in inst[g.root]
  <2>1. Given(given, view)
    BY SeenGiven
  <2>2. \A g \in R : \E q \in Root : \E d \in given[q] : g.root = q /\ g.pkg = d
    BY <2>1, InstalledEntries DEF removedEntries
  <2>3. \A q \in Root : given[q] \in SUBSET inst[q]
    BY DEF Seen
  <2> HIDE DEF R, given
  <2> QED BY <2>2, <2>3
<1>5. \A q \in Root : \A d : d \in E[q] <=>
        \/ d \in inst[q] /\ Untouched(d, q, S)
        \/ \E o \in S : o.root = q /\ o.to # None /\ d = o.to
  BY DEF Effect
<1>6. \A o \in S : \E k \in 1 .. i : o = ops[k]
  OBVIOUS
<1>7. \A q \in Root : inst[q] \in SUBSET Catalog /\ \A d, b \in inst[q] : d.name = b.name => d = b
  BY DEF Packages
<1>8. i \in Nat /\ j \in Nat /\ 1 <= i /\ i < j /\ j <= Len(ops)
  OBVIOUS
<1> HIDE DEF given, R, F, n, S, E
<1>9. \A k \in 1 .. Len(come) : ops[n + k].kind # "remove"
  <2>1. \A f : forward(f).kind = OpKind(f) /\ OpKind(f) # "remove"
    BY DEF forward, OpKind
  <2> HIDE DEF n
  <2> QED BY <1>2, <2>1
<1>10. i \in 1 .. n /\ j \in 1 .. n
  <2>1. \A k \in 1 .. Len(ops) : k \in 1 .. n \/ (k - n \in 1 .. Len(come) /\ k = n + (k - n))
    BY <1>2
  <2> QED BY <2>1, <1>8, <1>9
<1>11. \A k \in 1 .. i : /\ k \in 1 .. n /\ ops[k].to = None /\ ops[k].root = gone[n + 1 - k].root
                         /\ ops[k].name = gone[n + 1 - k].pkg.name
  <2> TAKE k \in 1 .. i
  <2>1. k \in 1 .. n
    BY <1>2, <1>10
  <2>2. ops[k] = removal(gone[n + 1 - k])
    BY <2>1, <1>2
  <2> QED BY <2>1, <2>2 DEF removal
<1>12. \A q \in Root : \A d : d \in E[q] <=> d \in inst[q] /\ Untouched(d, q, S)
  BY <1>5, <1>6, <1>11
<1> DEFINE u == n + 1 - j
           g == gone[u]
<1>13. u \in 1 .. n /\ g \in R /\ g.root = r /\ g.pkg.name = c.name
  <2>1. u \in 1 .. n /\ g \in R /\ ops[j] = removal(g)
    BY <1>2, <1>3, <1>10
  <2> QED BY <2>1 DEF removal
<1>14. c \in inst[r] /\ c \in Catalog /\ g.pkg = c
  <2>1. c \in inst[r]
    BY <1>12 DEF E, S
  <2> QED BY <2>1, <1>4, <1>7, <1>13
<1> SUFFICES ASSUME NEW dep \in c.deps
             PROVE  Place(dep, r) \in Root /\ \E d \in E[Place(dep, r)] : satisfies(d, dep, c.arch)
  BY DEF Served, E, S
<1> DEFINE q == Place(dep, r)
<1>15. PICK d \in inst[q] : q \in Root /\ satisfies(d, dep, c.arch)
  <2>1. inst \in [Root -> SUBSET Catalog]
    BY DEF Packages
  <2>2. Served(inst, r, c)
    BY <2>1, <1>14, WholeMeans
  <2> QED BY <2>2 DEF Served
<1>16. q \in Root
  BY <1>15
<1>17. q = routeRoot(dep, r, refs)
  BY <1>14, <1>16 DEF Routes
<1> HIDE DEF q, u
<1>18. ASSUME NEW k \in 1 .. i, ops[k].root = q, ops[k].name = d.name PROVE FALSE
  <2> DEFINE v == n + 1 - k
             b == gone[v]
  <2>1. v \in 1 .. n /\ b \in R /\ b.root = q /\ b.pkg.name = d.name
    BY <1>3, <1>11, <1>18
  <2>2. b.pkg = d
    BY <2>1, <1>4, <1>7, <1>15, <1>16
  <2>3. v > u
    BY <1>2, <1>8 DEF u
  <2> HIDE DEF v
  <2>4. b # g
    BY <2>1, <2>3, <1>1, <1>13 DEF Laid, n
  <2>5. b \in dependenciesAmong(R, g, refs)
    BY <2>1, <2>2, <2>4, <1>13, <1>14, <1>15, <1>17 DEF dependenciesAmong
  <2>6. PICK w \in 1 .. u - 1 : gone[w] = b
    BY <2>5, <1>1, <1>13 DEF Laid, n, R
  <2>7. w \in 1 .. n /\ w # v
    BY <2>1, <2>3, <1>2, <1>13
  <2> QED BY <2>1, <2>6, <2>7, <1>1 DEF Laid, n
<1>19. Untouched(d, q, S)
  BY <1>6, <1>18 DEF Untouched
<1>20. d \in E[q]
  BY <1>12, <1>15, <1>16, <1>19
<1> QED BY <1>15, <1>16, <1>20 DEF q
(* What StepwiseMet says of one plan.                                      *)
Stepwise(inst, ops) ==
  LET W(i) == InstalledWorld(FoldLeft(runOp, inst, SubSeq(ops, 1, i)))
      removedLater(i, e) == \E j \in i + 1 .. Len(ops) :
        ops[j].kind = "remove" /\ ops[j].root = e.root /\ ops[j].name = e.pkg.name
  IN \A i \in DOMAIN ops : \A e \in W(i) :
       \/ ops[i].to = e.pkg /\ ops[i].root = e.root
       \/ ops[i].kind = "remove" /\ removedLater(i, e)
       => Meets(W(i), e)

(* A plan that achieves a world can be carried out an operation at a time. *)
LEMMA AchievedStepwise ==
  ASSUME OneBuildPerVersion, NEW inst, Packages(inst), Whole(inst), NEW view \in SUBSET Root,
         NEW refs, Routes(refs),
         NEW ops \in Seq(Planned(Root)), Achieves(ops, Seen(inst, view), view, refs)
  PROVE  Stepwise(inst, ops)
<1>1. PICK world \in SUBSET Entry(view) :
        /\ WorldOK(world, Seen(inst, view), view) /\ ~unmetDependency(world, refs)
        /\ ToSet(ops) = Changes(world, Seen(inst, view))
        /\ Arranged(ops, world, Seen(inst, view), refs)
  BY DEF Achieves
<1>2. OneOpEach(ToSet(ops)) /\ inst \in [Root -> SUBSET Catalog]
  <2>1. Given(Seen(inst, view), view)
    BY SeenGiven
  <2> QED BY <1>1, <2>1, OneChangeEach DEF Packages
<1>3. DOMAIN ops = 1 .. Len(ops) /\ \A i \in 1 .. Len(ops) : ops[i] \in Planned(Root)
  OBVIOUS
<1>4. ASSUME NEW i \in 1 .. Len(ops), NEW e \in InstalledWorld(FoldLeft(runOp, inst, SubSeq(ops, 1, i))),
             \/ ops[i].to = e.pkg /\ ops[i].root = e.root
             \/ /\ ops[i].kind = "remove"
                /\ \E j \in i + 1 .. Len(ops) :
                     ops[j].kind = "remove" /\ ops[j].root = e.root /\ ops[j].name = e.pkg.name
      PROVE  Meets(InstalledWorld(FoldLeft(runOp, inst, SubSeq(ops, 1, i))), e)
  <2> DEFINE P == FoldLeft(runOp, inst, SubSeq(ops, 1, i))
             S == {ops[k] : k \in 1 .. i}
             E == Effect(inst, S)
  <2>1. P = E
    BY <1>2, PrefixEffect
  <2> HIDE DEF P
  <2>2. e.root \in Root /\ e.pkg \in E[e.root]
    <3>1. e \in InstalledWorld(P)
      BY <1>4 DEF P
    <3>2. e.root \in Root /\ e.pkg \in P[e.root]
      BY <3>1, MeetsMeans
    <3> QED BY <2>1, <3>2
  <2>3. e.pkg \in Catalog
    <3>1. e.pkg \in inst[e.root] \/ \E k \in 1 .. i : ops[k].to # None /\ e.pkg = ops[k].to
      BY <2>2 DEF Effect
    <3>2. \A k \in 1 .. i : ops[k].to \in Catalog \cup {None}
      <4>1. \A k \in 1 .. i : k \in 1 .. Len(ops)
        OBVIOUS
      <4> QED BY <4>1, <1>3 DEF Planned, Operation
    <3> QED BY <1>2, <2>2, <3>1, <3>2
  <2>4. Served(E, e.root, e.pkg)
    <3>1. CASE ops[i].to = e.pkg /\ ops[i].root = e.root
      BY <1>1, <2>2, <2>3, <3>1, PlacedMet
    <3>2. CASE /\ ops[i].kind = "remove"
               /\ \E j \in i + 1 .. Len(ops) :
                    ops[j].kind = "remove" /\ ops[j].root = e.root /\ ops[j].name = e.pkg.name
      <4>1. PICK j \in i + 1 .. Len(ops) :
                   ops[j].kind = "remove" /\ ops[j].root = e.root /\ ops[j].name = e.pkg.name
        BY <3>2
      <4> QED BY <1>1, <2>2, <3>2, <4>1, RemovedMet
    <3> QED BY <1>4, <3>1, <3>2
  <2>5. Meets(InstalledWorld(P), e)
    <3>1. Served(P, e.root, e.pkg)
      BY <2>1, <2>4
    <3> HIDE DEF E
    <3> QED BY <3>1, MeetsMeans DEF Served
  <2> QED BY <2>5 DEF P
<1> QED BY <1>3, <1>4 DEF Stepwise

StepwiseInv == \A p \in Process : job[p] # None => Stepwise(installed, job[p].ops)

(* The plan that is shown can,                                             *)
LEMMA ShownStepwise ==
  ASSUME OneBuildPerVersion, AnchorUnnamed, WholeInv, StepwiseInv, NEW p \in Process, Shows(p), Sighted'
  PROVE  StepwiseInv'
<1>1. PICK verb \in Verbs, at \in Root, asked \in Seq(Name), separate \in BOOLEAN :
        \E plan : Valid(plan, at, verb = "upgrade here") /\ Show(p, verb, at, asked, plan, separate)
  BY DEF Shows
<1>2. PICK plan : Valid(plan, at, verb = "upgrade here") /\ Show(p, verb, at, asked, plan, separate)
  BY <1>1
<1> DEFINE here == verb = "upgrade here"
           view == View(at, here)
           refs == Refs(at, here)
           j == [verb |-> verb, at |-> at, asked |-> asked, ops |-> plan.ops,
                 auths |-> plan.auths, separate |-> separate]
<1>3. view \in SUBSET Root /\ Packages(installed) /\ Whole(installed)
  BY InView DEF WholeInv, IInv
<1>4. /\ plan.reason = None /\ plan.ops # << >>
      /\ job' = [job EXCEPT ![p] = j] /\ installed' = installed
  BY <1>2 DEF Show
<1>5. j.ops = plan.ops /\ j.at = at /\ j.verb = verb
  OBVIOUS
<1> HIDE DEF j
<1>6. job'[p] = j /\ \A q \in Process : q # p => job'[q] = job[q]
  BY <1>4 DEF WholeInv, IInv, TypeOK
<1>7. CASE job'[p] = None
  BY <1>4, <1>6, <1>7 DEF StepwiseInv
<1>8. CASE job'[p] # None
  <2>1. Routes(refs)
    <3>1. DepsStayHere \/ (Reach(at) = Root /\ ~here)
      BY <1>5, <1>6, <1>8 DEF Sighted
    <3> QED BY <3>1, RoutesRight
  <2>2. plan.ops \in Seq(Planned(view)) /\ Achieves(plan.ops, Seen(installed, view), view, refs)
    BY <1>2, <1>4 DEF Valid, Resolution, PlanType
  <2>3. plan.ops \in Seq(Planned(Root))
    <3>1. Planned(view) \in SUBSET Planned(Root)
      BY <1>3 DEF Planned
    <3> DEFINE ops == plan.ops
               P == Planned(view)
               Q == Planned(Root)
    <3>2. ops \in Seq(P) /\ P \in SUBSET Q
      BY <2>2, <3>1
    <3> HIDE DEF ops, P, Q
    <3>3. ops \in Seq(Q)
      BY <3>2
    <3> QED BY <3>3 DEF ops, Q
  <2>4. Stepwise(installed, plan.ops)
    <3> HIDE DEF view, refs
    <3> QED BY <1>3, <2>1, <2>2, <2>3, AchievedStepwise
  <2> QED BY <1>4, <1>5, <1>6, <2>4 DEF StepwiseInv
<1> QED BY <1>7, <1>8

(* and stays so while it waits.                                            *)
LEMMA StepwiseStep ==
  ASSUME OneBuildPerVersion, AnchorUnnamed, WholeInv, StepwiseInv, [Next]_vars, Alone, Sighted'
  PROVE  StepwiseInv'
<1>1. ASSUME NEW p \in Process, Shows(p) PROVE StepwiseInv'
  BY <1>1, ShownStepwise
<1>2. ASSUME NEW p \in Process, Execute(p) PROVE StepwiseInv'
  <2>1. job[p] # None /\ job' = [job EXCEPT ![p] = None]
    BY <1>2 DEF Execute
  <2>2. \A q \in Process : job'[q] = None
    BY <2>1 DEF Alone, WholeInv, IInv, TypeOK
  <2> QED BY <2>2 DEF StepwiseInv
<1>3. ASSUME installed' = installed, \A p \in Process : job'[p] \in {None, job[p]} PROVE StepwiseInv'
  BY <1>3 DEF StepwiseInv
<1>4. ASSUME NEW p \in Process, Abandon(p) PROVE StepwiseInv'
  BY <1>3, <1>4 DEF Abandon, WholeInv, IInv, TypeOK
<1>5. ASSUME NEW c \in upcoming, Publish(c) PROVE StepwiseInv'
  BY <1>3, <1>5 DEF Publish
<1>6. ASSUME NEW at \in Stand, NEW repo \in Repo,
             removeRepository(at, repo) \/ addRepository(at, repo)
      PROVE  StepwiseInv'
  BY <1>3, <1>6 DEF removeRepository, addRepository
<1>7. CASE UNCHANGED vars
  BY <1>3, <1>7 DEF vars
<1> QED BY <1>1, <1>2, <1>4, <1>5, <1>6, <1>7, NextShows DEF WholeInv

(* StepwiseMet: every plan can be carried out one operation at a time,     *)
(* under the hypotheses of StaysWhole (topoSort, buildPlan).               *)
THEOREM PlansInOrder ==
  ASSUME OneBuildPerVersion, AnchorUnnamed
  PROVE  Spec /\ [](Alone /\ InPlace /\ Sighted) => []StepwiseMet
<1>1. Init => WholeInv /\ StepwiseInv
  <2> SUFFICES ASSUME Init PROVE WholeInv /\ StepwiseInv
    OBVIOUS
  <2>1. \A p \in Process : job[p] = None
    BY DEF Init
  <2> QED BY <2>1, IInvInit, EmptyWhole DEF WholeInv, StepwiseInv
<1>2. /\ WholeInv /\ StepwiseInv /\ [Next]_vars
      /\ (Alone /\ InPlace /\ Sighted) /\ (Alone /\ InPlace /\ Sighted)'
      => WholeInv' /\ StepwiseInv'
  BY WholeStep, StepwiseStep
<1>3. WholeInv /\ StepwiseInv => StepwiseMet
  BY DEF StepwiseInv, Stepwise, StepwiseMet
<1> QED BY <1>1, <1>2, <1>3, PTL DEF Spec

(* The same with no hypothesis on the behaviour, for a system with one     *)
(* root and one operator (removal.go, plan.go).                            *)
THEOREM OneRootPlans ==
  ASSUME OneBuildPerVersion, DepsStayHere, \A p, q \in Process : p = q, \A r \in Root : Below[r] = {}
  PROVE  Spec => []CascadeExact /\ []StepwiseMet
<1>1. IInv => Alone /\ InPlace /\ Sighted
  BY PlainRun DEF Alone, Sighted
<1>2. AnchorUnnamed
  BY ResolverAssumption DEF AnchorUnnamed, DepsStayHere
<1> QED BY <1>1, <1>2, IInvInit, IInvNext, UninstallsExactly, PlansInOrder, PTL DEF Spec

-----------------------------------------------------------------------------
(* Nothing is removed behind the operator's back.                          *)

(* What the takeovers of a world relate.                                   *)
LEMMA TakeoverFacts ==
  ASSUME NEW inst, NEW view \in SUBSET Root, NEW world, WorldOK(world, inst, view),
         NEW p \in world, NEW v \in world, replacesIn(p, v)
  PROVE  /\ p.root = v.root /\ p.chosen /\ p.pkg \in Catalog /\ v.was # None
         /\ v.was \in Catalog /\ v.pkg \in Catalog /\ v.was.name = v.pkg.name
         /\ \E r \in p.pkg.replaces : r.name = v.pkg.name /\ v.was.ver \in r.vers
<1>1. p \in Entry(view) /\ v \in Entry(view) /\ Remembers(v, inst)
  BY DEF WorldOK
<1>2. v.was \in Catalog \cup {None} /\ v.pkg \in Catalog /\ p.pkg \in Catalog
  BY <1>1 DEF Entry
<1>3. /\ p.chosen /\ p.root = v.root /\ v.was # None
      /\ \E r \in p.pkg.replaces : r.name = v.pkg.name /\ v.was.ver \in r.vers
  BY DEF replacesIn
<1>4. v.was.name = v.pkg.name
  BY <1>1, <1>3 DEF Remembers
<1> QED BY <1>2, <1>3, <1>4

(* A plan that asks for no authorisation: it moves no package to an older  *)
(* version and, unless it was asked to, removes one only for a successor   *)
(* at least as trusted, which it puts in place or which was there before.  *)
Forwards(ops) == \A op \in ops : op.from # None /\ op.to # None => op.to.ver > op.from.ver

Succession(ops, inst, conf) ==
  \A op \in ops : op.kind = "remove" =>
    /\ op.root \in Root
    /\ \E c \in Catalog :
         /\ \E r \in c.replaces : r.name = op.name /\ op.from.ver \in r.vers
         /\ AtLeastAsTrusted(op.from.repo, c.repo, conf)
         /\ \/ \E by \in ops : by.to = c /\ by.root = op.root
            \/ \E d \in inst[op.root] : d.name = c.name

Consented(plan, inst, conf, removing) ==
  plan.reason = None /\ plan.auths = {} =>
    Forwards(ToSet(plan.ops)) /\ (removing \/ Succession(ToSet(plan.ops), inst, conf))

(* What a plan asks for comes from the resolution and from the versions it *)
(* goes back to (elevations).                                              *)
LEMMA PlanElevations ==
  ASSUME NEW inst, NEW view, Given(inst, view), NEW s, s \in State(view),
         WorldOK(s.world, inst, view), NEW refs,
         buildPlan(s, inst, refs).reason = None, buildPlan(s, inst, refs).auths = {}
  PROVE  /\ Open(s) /\ s.auths = {} /\ ToSet(buildPlan(s, inst, refs).ops) = Changes(s.world, inst)
         /\ \A e \in forwardEntries(s.world) : OpKind(e) # "downgrade"
<1> DEFINE plan == buildPlan(s, inst, refs)
           F == forwardEntries(s.world)
           gone == topoSort(removedEntries(s.world, inst), refs)
           come == topoSort(F, refs)
<1>1. Open(s) /\ ToSet(plan.ops) = Changes(s.world, inst)
  BY PlanOK
<1>2. F \in SUBSET Entry(view) /\ OneEach(F) /\ view \in SUBSET Root /\ Entry(view) \in SUBSET Entry(Root)
  BY DEF forwardEntries, WorldOK, OneEach, Given, Entry
<1> HIDE DEF F
<1>3. come.cycle \in BOOLEAN /\ come.out \in Seq(F) /\ (~come.cycle => ToSet(come.out) = F)
  <2>1. F \in SUBSET Entry(Root)
    BY <1>2
  <2> QED BY <1>2, <2>1, SortedAll
<1>4. ~gone.cycle /\ ~come.cycle
  <2>1. NoPlan("cycle").reason # None
    BY ResolverAssumption DEF NoPlan, Reasons
  <2> HIDE DEF gone, come
  <2>2. plan = planOf(s, gone, come)
    BY <1>1 DEF buildPlan, gone, come, F
  <2> QED BY <2>1, <2>2 DEF planOf
<1>5. plan.auths = elevations(Map(forward, come.out), s.auths)
  <2> HIDE DEF gone, come
  <2>1. plan = planOf(s, gone, come)
    BY <1>1 DEF buildPlan, gone, come, F
  <2> QED BY <1>4, <2>1 DEF planOf
<1>6. ToSet(Map(forward, come.out)) = {forward(e) : e \in F}
  <2> DEFINE t == come.out
  <2>1. t \in Seq(Entry(view)) /\ ToSet(t) = F
    BY <1>2, <1>3, <1>4
  <2> HIDE DEF t
  <2>2. ToSet(Map(forward, t)) = {forward(e) : e \in ToSet(t)}
    BY <1>2, <2>1, MappedOps
  <2> QED BY <2>1, <2>2 DEF t
<1> DEFINE in == ToSet(Map(forward, come.out))
<1>7. s.auths = {} /\ \A op \in in : op.kind # "downgrade"
  BY <1>5 DEF elevations
<1>8. ASSUME NEW e \in F PROVE OpKind(e) # "downgrade"
  <2>1. forward(e) \in in /\ forward(e).kind = OpKind(e)
    BY <1>6 DEF forward
  <2> HIDE DEF in
  <2> QED BY <2>1, <1>7
<1> QED BY <1>1, <1>7, <1>8 DEF F

(* Then what it puts in place of a package is newer.                       *)
LEMMA ChangesForward ==
  ASSUME NEW inst, NEW view, Given(inst, view), NEW world, WorldOK(world, inst, view),
         \A e \in forwardEntries(world) : OpKind(e) # "downgrade"
  PROVE  Forwards(Changes(world, inst))
<1> SUFFICES ASSUME NEW op \in Changes(world, inst), op.from # None, op.to # None
             PROVE  op.to.ver > op.from.ver
  BY DEF Forwards
<1>1. CASE \E e \in removedEntries(world, inst) : op = removal(e)
  BY <1>1 DEF removal
<1>2. CASE \E e \in forwardEntries(world) : op = forward(e)
  <2>1. PICK e \in forwardEntries(world) : op = forward(e)
    BY <1>2
  <2>2. op.from = e.was /\ op.to = e.pkg
    BY <2>1 DEF forward
  <2> QED BY <2>2 DEF OpKind
<1> QED BY <1>1, <1>2 DEF Changes

(* The world that is left when what is superseded goes.                    *)
Survivors(world) == world \ {pv[2] : pv \in takeovers(world)}

(* What is left is what no package in the world supersedes.                *)
LEMMA TakeoverPairs ==
  ASSUME NEW world, NEW v
  PROVE  /\ v \in Survivors(world) <=> v \in world /\ \A p \in world : ~replacesIn(p, v)
         /\ \A p \in world : v \in world /\ replacesIn(p, v) => <<p, v>> \in takeovers(world)
<1>1. \A p \in world : v \in world /\ replacesIn(p, v) => <<p, v>> \in takeovers(world)
  BY DEF takeovers
<1>2. ASSUME v \in world, NEW p \in world, replacesIn(p, v) PROVE v \notin Survivors(world)
  <2>1. <<p, v>> \in takeovers(world) /\ <<p, v>>[2] = v
    BY <1>1, <1>2
  <2> QED BY <2>1 DEF Survivors
<1>3. ASSUME v \in world, v \notin Survivors(world) PROVE \E p \in world : replacesIn(p, v)
  <2>1. PICK pv \in takeovers(world) : v = pv[2]
    BY <1>3 DEF Survivors
  <2> QED BY <2>1 DEF takeovers
<1>4. v \in Survivors(world) => v \in world
  BY DEF Survivors
<1> QED BY <1>1, <1>2, <1>3, <1>4

(* A successor is at least as trusted, or the operator is asked.           *)
LEMMA SuccessorTrusted ==
  ASSUME NEW conf \in SUBSET Repo, NEW c \in Catalog, NEW d \in Catalog, NEW p, NEW v, p.pkg = c, v.was = d,
         ~foreign(<<p, v>>, conf)
  PROVE  AtLeastAsTrusted(d.repo, c.repo, conf)
<1>1. c.repo \in Repo \cup {Local} /\ d.repo \in Repo \cup {Local}
  BY CommandsAssumption
<1>2. d.repo = Local \/ ~(PriorityOfCandidate(c) > PriorityOf(d.repo, conf))
  BY DEF foreign
<1>3. CASE c.repo # Local /\ d.repo # Local
  <2>1. PriorityOfCandidate(c) = Priority[c.repo] /\ c.repo \in Repo
    BY <1>1, <1>3 DEF PriorityOfCandidate
  <2>2. Priority[c.repo] \in Nat /\ OrphanPriority \in Int /\ OrphanPriority < Priority[c.repo]
    BY <2>1, ResolverAssumption
  <2>3. d.repo \in conf
    BY <1>2, <1>3, <2>1, <2>2 DEF PriorityOf
  <2>4. PriorityOf(d.repo, conf) = Priority[d.repo] /\ Priority[d.repo] \in Nat
    BY <2>3, ResolverAssumption DEF PriorityOf
  <2> QED BY <1>2, <1>3, <2>1, <2>2, <2>3, <2>4 DEF AtLeastAsTrusted
<1> QED BY <1>3 DEF AtLeastAsTrusted

(* Nothing but a succession takes a package out of the world when no       *)
(* removal is asked for.                                                   *)
LEMMA ChangesSucceed ==
  ASSUME NEW inst, NEW view, Given(inst, view),
         NEW world, WorldOK(world, inst, view), Retains(world, InstalledWorld(inst)),
         NEW conf \in SUBSET Repo, \A pv \in takeovers(world) : ~foreign(pv, conf)
  PROVE  Succession(Changes(Survivors(world), inst), inst, conf)
<1> DEFINE w == Survivors(world)
           W == InstalledWorld(inst)
<1>1. view \in SUBSET Root
  BY DEF Given
<1> SUFFICES ASSUME NEW op \in Changes(w, inst), op.kind = "remove"
             PROVE  /\ op.root \in Root
                    /\ \E c \in Catalog :
                         /\ \E r \in c.replaces : r.name = op.name /\ op.from.ver \in r.vers
                         /\ AtLeastAsTrusted(op.from.repo, c.repo, conf)
                         /\ \/ \E by \in Changes(w, inst) : by.to = c /\ by.root = op.root
                            \/ \E d \in inst[op.root] : d.name = c.name
  BY DEF Succession
<1>2. PICK e \in removedEntries(w, inst) : op = removal(e)
  <2>1. \A f : forward(f).kind # "remove"
    BY DEF forward, OpKind
  <2> QED BY <2>1 DEF Changes
<1>3. /\ e \in W /\ At(w, e.root, e.pkg.name) = {} /\ op.root = e.root /\ op.name = e.pkg.name
      /\ op.from = e.pkg
  BY <1>2 DEF removedEntries, removal
<1>4. e.was = e.pkg /\ e.root \in Root /\ e.pkg \in inst[e.root] /\ e.pkg \in Catalog
  <2>1. PICK r \in Root : \E c \in inst[r] : e = [root |-> r, pkg |-> c, chosen |-> FALSE, was |-> c]
    BY <1>3, InstalledEntries
  <2> QED BY <2>1 DEF Given
<1>5. PICK f \in world : f.root = e.root /\ f.pkg.name = e.pkg.name /\ f.was = e.pkg
  BY <1>3, <1>4 DEF Retains, W
<1>6. f \notin w
  BY <1>3, <1>5 DEF At
<1> HIDE DEF w, W
<1>7. PICK p \in world : replacesIn(p, f)
  BY <1>6, TakeoverPairs DEF w
<1>8. /\ p.root = e.root /\ p.chosen /\ p.pkg \in Catalog
      /\ \E r \in p.pkg.replaces : r.name = e.pkg.name /\ e.pkg.ver \in r.vers
  <2>1. /\ p.root = f.root /\ p.chosen /\ p.pkg \in Catalog
        /\ \E r \in p.pkg.replaces : r.name = f.pkg.name /\ f.was.ver \in r.vers
    BY <1>1, <1>7, TakeoverFacts
  <2> QED BY <1>5, <2>1
<1>9. AtLeastAsTrusted(e.pkg.repo, p.pkg.repo, conf)
  <2>1. <<p, f>> \in takeovers(world)
    BY <1>7, TakeoverPairs
  <2> QED BY <1>4, <1>5, <1>8, <2>1, SuccessorTrusted
<1>10. CASE p.was = None
  <2>1. p \in w
    BY <1>1, <1>7, <1>10, TakeoverPairs, TakeoverFacts DEF w
  <2>2. forward(p) \in Changes(w, inst)
    BY <2>1, <1>8, <1>10 DEF Changes, forwardEntries
  <2>3. forward(p).to = p.pkg /\ forward(p).root = p.root
    BY DEF forward
  <2> QED BY <1>3, <1>4, <1>8, <1>9, <2>2, <2>3
<1>11. CASE p.was # None
  <2>1. p.was \in inst[e.root] /\ p.was.name = p.pkg.name
    BY <1>8, <1>11 DEF WorldOK, Remembers
  <2> QED BY <1>3, <1>4, <1>8, <1>9, <2>1
<1> QED BY <1>10, <1>11

(* Where no removal is asked for, none is made (applyRemovals).            *)
LEMMA NothingAsked ==
  ASSUME NEW T, NEW reqs \in Seq(T), \A q \in ToSet(reqs) : q.kind # "remove"
  PROVE  Keys(Asked(reqs, "remove")) = << >>
<1> DEFINE R == {q \in ToSet(reqs) : q.kind = "remove"}
           a == Asked(reqs, "remove")
<1>1. R = {} /\ a = Select(reqs, R)
  BY DEF Asked
<1> HIDE DEF R, a
<1>2. Select(reqs, R) \in Seq(T \cap R) /\ ToSet(Select(reqs, R)) = ToSet(reqs) \cap R
  BY SelectFacts
<1>3. a \in Seq(T) /\ ToSet(a) = {}
  BY <1>1, <1>2
<1>4. a = << >>
  BY <1>3, SetOfSeq
<1>5. Keys(a) = << >>
  BY <1>4 DEF Keys, Map
<1> QED BY <1>5 DEF a

(* A world holds what it was made from.                                    *)
LEMMA RetainsItself ==
  ASSUME NEW world
  PROVE  Retains(world, world)
BY DEF Retains

(* What a resolution plans without asking is consented to by its request.  *)
LEMMA ResolveConsents ==
  ASSUME NEW inst, NEW view, Given(inst, view),
         NEW reqs \in Seq(Requests(view)), NEW available \in SUBSET Catalog,
         NEW refs, refs = None \/ refs \in SUBSET view, NEW conf \in SUBSET Repo, NEW opts,
         NEW removing \in BOOLEAN, removing \/ \A q \in ToSet(reqs) : q.kind # "remove"
  PROVE  Consented(Resolve(reqs, inst, available, refs, conf, opts), inst, conf, removing)
<1> DEFINE W == InstalledWorld(inst)
           base == IF removing THEN {} ELSE W
           s0 == Fresh(inst)
           keys == Keys(Asked(reqs, "remove"))
           s1 == applyRemovals(s0, keys, refs, opts.cascade)
           s2 == seedGoals(s1, reqs, available)
           s3 == resolveForward(s2, available, refs, conf)
           s4 == applyReplaces(s3, conf)
           allowed == ToSet(Keys(Asked(reqs, "downgrade")))
           s5 == checkConsistency(s4, refs, opts, allowed)
           plan == buildPlan(s5, inst, refs)
<1>1. view \in SUBSET Root
  BY DEF Given
<1>2. Sound(s0, inst, view, {}) /\ Sound(s0, inst, view, W) /\ s0.work = << >>
  <2>1. WorldOK(InstalledWorld(inst), inst, view)
    BY InstalledEntries
  <2>2. s0 \in State(view)
    <3>1. InstalledWorld(inst) \in SUBSET Entry(view)
      BY <2>1 DEF WorldOK
    <3>2. << >> \in Seq(Root \X Name)
      OBVIOUS
    <3> QED BY <3>1, <3>2 DEF Fresh, State
  <2>3. s0.world = W /\ s0.work = << >>
    BY DEF Fresh
  <2>4. Retains(W, W) /\ Retains(W, {})
    BY RetainsItself DEF Retains
  <2> HIDE DEF s0
  <2> QED BY <2>1, <2>2, <2>3, <2>4 DEF Sound, Reachable
<1>3. keys \in Seq({<<q.root, q.name>> : q \in ToSet(reqs)})
  BY RemovalKeys
<1>4. ~removing => keys = << >>
  BY NothingAsked
<1> HIDE DEF s0, keys, W
<1>5. Sound(s1, inst, view, base)
  <2>1. removing => Sound(s1, inst, view, {})
    BY <1>1, <1>2, <1>3, RemovalsBare
  <2>2. ~removing => s1 = s0
    BY <1>4 DEF applyRemovals
  <2> QED BY <1>2, <2>1, <2>2
<1> HIDE DEF s1, base
<1>6. Sound(s2, inst, view, base)
  BY <1>1, <1>5, GoalsSound
<1> HIDE DEF s2
<1>7. Sound(s3, inst, view, base)
  BY <1>1, <1>6, ForwardSound
<1> HIDE DEF s3
<1>8. /\ s3 \in State(view) /\ WorldOK(s3.world, inst, view)
      /\ ~removing => Retains(s3.world, InstalledWorld(inst))
  BY <1>7 DEF Sound, base, W
<1>9. s4 \in State(view) /\ WorldOK(s4.world, inst, view)
  BY <1>1, <1>8, ReplacesSound
<1>10. Open(s4) /\ s4.auths = {} => /\ s4.world = Survivors(s3.world)
                                    /\ \A pv \in takeovers(s3.world) : ~foreign(pv, conf)
  <2> DEFINE F == {t \in takeovers(s3.world) : foreign(t, conf)}
             asks == {[kind |-> "foreign-replaces", name |-> pv[1].pkg.name] : pv \in F}
  <2>1. Open(s4) => Open(s3)
    BY DEF applyReplaces
  <2>2. Open(s3) => s4.world = Survivors(s3.world) /\ s4.auths = s3.auths \cup asks
    BY <1>8 DEF applyReplaces, Survivors, State
  <2>3. asks = {} => F = {}
    <3> HIDE DEF F
    <3> QED OBVIOUS
  <2> HIDE DEF asks
  <2> QED BY <2>1, <2>2, <2>3
<1> HIDE DEF s4, allowed
<1>11. /\ s5 \in State(view) /\ WorldOK(s5.world, inst, view)
       /\ s5.world = s4.world /\ (Open(s5) => Open(s4) /\ s5.auths = s4.auths)
  <2>1. Open(s5) => s5 = s4
    BY ResolverAssumption DEF checkConsistency, Rejected, Open, Reasons
  <2> HIDE DEF s5
  <2>2. s5 = checkConsistency(s4, refs, opts, ToSet(Keys(Asked(reqs, "downgrade"))))
    BY DEF s5, allowed
  <2>3. s5 \in State(view) /\ WorldOK(s5.world, inst, view)
    BY <2>2, <1>1, <1>9, CheckedOK
  <2>4. s5.world = s4.world /\ (Open(s5) => Open(s4))
    BY <2>2, <1>1, <1>9, CheckedWorld
  <2> QED BY <2>1, <2>3, <2>4
<1> HIDE DEF s5
<1>12. ASSUME plan.reason = None, plan.auths = {}
       PROVE  Forwards(ToSet(plan.ops)) /\ (removing \/ Succession(ToSet(plan.ops), inst, conf))
  <2>1. /\ Open(s5) /\ s5.auths = {} /\ ToSet(plan.ops) = Changes(s5.world, inst)
        /\ \A e \in forwardEntries(s5.world) : OpKind(e) # "downgrade"
    BY <1>11, <1>12, PlanElevations
  <2> HIDE DEF plan
  <2>2. Forwards(ToSet(plan.ops))
    BY <1>11, <2>1, ChangesForward
  <2>3. ~removing => Succession(ToSet(plan.ops), inst, conf)
    BY <1>8, <1>10, <1>11, <2>1, ChangesSucceed
  <2> QED BY <2>2, <2>3
<1>13. plan = Resolve(reqs, inst, available, refs, conf, opts)
  BY DEF Resolve, s0, s1, s2, s3, s4, s5, keys, allowed
<1> HIDE DEF plan
<1> QED BY <1>12, <1>13 DEF Consented

-----------------------------------------------------------------------------
(* The plans of the commands.                                              *)

(* What was there in the part of the system a resolution is given was      *)
(* there.                                                                  *)
LEMMA SeenConsents ==
  ASSUME NEW inst, NEW view, NEW conf, NEW removing, NEW plan,
         Consented(plan, Seen(inst, view), conf, removing)
  PROVE  Consented(plan, inst, conf, removing)
<1>1. \A r \in Root : Seen(inst, view)[r] \in SUBSET inst[r]
  BY DEF Seen
<1>2. ASSUME NEW ops, Succession(ops, Seen(inst, view), conf) PROVE Succession(ops, inst, conf)
  <2> DEFINE Takes(op, c) == /\ \E r \in c.replaces : r.name = op.name /\ op.from.ver \in r.vers
                             /\ AtLeastAsTrusted(op.from.repo, c.repo, conf)
             Places(op, c) == \E by \in ops : by.to = c /\ by.root = op.root
  <2>1. ASSUME NEW op \in ops, op.kind = "remove"
        PROVE  /\ op.root \in Root
               /\ \E c \in Catalog : Takes(op, c) /\ (Places(op, c) \/ \E d \in inst[op.root] : d.name = c.name)
    <3>1. op.root \in Root
      BY <1>2, <2>1 DEF Succession
    <3>2. PICK c \in Catalog :
            Takes(op, c) /\ (Places(op, c) \/ \E d \in Seen(inst, view)[op.root] : d.name = c.name)
      BY <1>2, <2>1 DEF Succession
    <3> HIDE DEF Takes, Places
    <3> QED BY <1>1, <3>1, <3>2
  <2> QED BY <2>1 DEF Succession
<1> QED BY <1>2 DEF Consented

(* What resolveCrossRoot plans is consented to by its request,             *)
LEMMA CrossConsents ==
  ASSUME TypeOK, NEW at \in Root,
         NEW reqs \in Seq(Requests(Reach(at))), NEW available \in SUBSET Catalog, NEW opts,
         NEW removing \in BOOLEAN, removing \/ \A q \in ToSet(reqs) : q.kind # "remove"
  PROVE  Consented(resolveCrossRoot(at, reqs, available, opts), installed, configured[at], removing)
<1>1. gatherInstalledByRoot(at) = Seen(installed, Reach(at))
  BY DEF gatherInstalledByRoot, Seen
<1>2. View(at, FALSE) = Reach(at)
  BY DEF View
<1>3. /\ Given(Seen(installed, Reach(at)), Reach(at))
      /\ Below[at] \in SUBSET Reach(at) /\ configured[at] \in SUBSET Repo
  <2>1. Given(Seen(installed, Reach(at)), Reach(at))
    BY <1>2, InView
  <2>2. Below[at] \in SUBSET Reach(at)
    BY DEF Reach
  <2>3. configured[at] \in SUBSET Repo
    BY DEF TypeOK
  <2> QED BY <2>1, <2>2, <2>3
<1>4. Consented(Resolve(reqs, Seen(installed, Reach(at)), available, Below[at], configured[at], opts),
                Seen(installed, Reach(at)), configured[at], removing)
  BY <1>3, ResolveConsents
<1> QED BY <1>1, <1>4, SeenConsents DEF resolveCrossRoot

(* and so is what resolveSingleRoot plans                                  *)
LEMMA SingleConsents ==
  ASSUME TypeOK, NEW at \in Root,
         NEW reqs \in Seq(Requests({at})), NEW available \in SUBSET Catalog, NEW opts,
         \A q \in ToSet(reqs) : q.kind # "remove"
  PROVE  Consented(resolveSingleRoot(at, reqs, available, opts), installed, configured[at], FALSE)
<1>1. [r \in Root |-> IF r = at THEN installed[at] ELSE {}] = Seen(installed, {at})
  BY DEF Seen
<1>2. View(at, TRUE) = {at}
  BY DEF View
<1>3. /\ Given(Seen(installed, {at}), {at}) /\ configured[at] \in SUBSET Repo
  <2>1. Given(Seen(installed, {at}), {at})
    BY <1>2, InView
  <2>2. configured[at] \in SUBSET Repo
    BY DEF TypeOK
  <2> QED BY <2>1, <2>2
<1>4. Consented(Resolve(reqs, Seen(installed, {at}), available, None, configured[at], opts),
                Seen(installed, {at}), configured[at], FALSE)
  BY <1>3, ResolveConsents
<1> QED BY <1>1, <1>4, SeenConsents DEF resolveSingleRoot

(* and what an upgrade does.                                               *)
LEMMA UpgradeConsents ==
  ASSUME TypeOK, NEW at \in Root, NEW here \in BOOLEAN,
         NEW reqs \in Seq(Wanting(View(at, here), "upgrade"))
  PROVE  Consented(resolve(at, reqs, here), installed, configured[at], FALSE)
<1>1. availableSet(at) \in SUBSET Catalog
  BY Candidates
<1>2. reqs \in Seq(Requests(View(at, here))) /\ \A q \in ToSet(reqs) : q.kind # "remove"
  BY WantingRequests
<1>3. CASE here
  BY <1>1, <1>2, <1>3, SingleConsents DEF resolve, View
<1>4. CASE ~here
  BY <1>1, <1>2, <1>4, CrossConsents DEF resolve, View
<1> QED BY <1>3, <1>4

(* A plan with nothing in it needs no consent.                             *)
LEMMA NothingConsents ==
  ASSUME NEW inst, NEW conf, NEW removing, NEW why
  PROVE  Consented(NoPlan(why), inst, conf, removing)
BY DEF Consented, NoPlan, Forwards, Succession, ToSet

(* Refusing a plan leaves one consented to,                                *)
LEMMA RefuseConsents ==
  ASSUME NEW inst, NEW conf, NEW removing, NEW plan, Consented(plan, inst, conf, removing)
  PROVE  Consented(refuseAlternateUpgrade(plan), inst, conf, removing)
BY NothingConsents DEF refuseAlternateUpgrade

(* and so does narrowing it around held-back packages.                     *)
LEMMA HoldConsents ==
  ASSUME TypeOK, NEW at \in Root, NEW here \in BOOLEAN,
         NEW plan, Valid(plan, at, here), Consented(plan, installed, configured[at], FALSE)
  PROVE  Consented(holdBack(plan, at, here), installed, configured[at], FALSE)
<1>1. PICK reqs \in Seq(Wanting(View(at, here), "upgrade")) :
        holdBack(plan, at, here) \in
          {plan, NoPlan(None), refuseAlternateUpgrade(resolve(at, reqs, here))}
  BY HeldBack
<1>2. Consented(refuseAlternateUpgrade(resolve(at, reqs, here)), installed, configured[at], FALSE)
  BY UpgradeConsents, RefuseConsents
<1> QED BY <1>1, <1>2, NothingConsents

(* Every command shows a plan consented to.                                *)
ShowsConsented(p) ==
  \E verb \in Verbs, at \in Root : \E asked, separate, plan :
    /\ Consented(plan, installed, configured[at], verb \in {"uninstall", "undo"})
    /\ Show(p, verb, at, asked, plan, separate)

(* install                                                                 *)
LEMMA InstallConsents ==
  ASSUME IInv, NEW p \in Process, NEW at \in Stand,
         NEW args \in Arguments, NEW files \in FileChoices, cmdInstall(p, at, args, files)
  PROVE  ShowsConsented(p)
<1>1. at \in Root /\ args \in Seq(Name) /\ TypeOK
  BY CommandsAssumption DEF IInv
<1> DEFINE reqs(target) == [i \in DOMAIN args |-> Request("install", target, args[i])]
           plan(target) == resolveCrossRoot(target, reqs(target), availableSet(target) \cup files, Options)
<1>2. PICK target \in topLevelTargetRoots(at, args, files), bypass \in BOOLEAN :
        Show(p, "install", target, args,
             IF bypass THEN plan(target) ELSE refuseAlternateUpgrade(plan(target)), FALSE)
  BY DEF cmdInstall, Map
<1>3. target \in Root
  <2>1. topLevelTargetRoots(at, args, files) \in SUBSET ({at} \cup Below[at])
    BY DEF topLevelTargetRoots
  <2> QED BY <1>1, <2>1, CommandsAssumption
<1>4. reqs(target) \in Seq(Requests(Reach(target))) /\ \A q \in ToSet(reqs(target)) : q.kind # "remove"
  <2>1. target \in Reach(target)
    BY DEF Reach
  <2>2. reqs(target) \in Seq(Requests(Reach(target)))
    BY <1>1, <2>1, ArgumentRequests
  <2>3. \A q \in ToSet(reqs(target)) : q.kind = "install"
    BY DEF ToSet, Request
  <2> QED BY <2>2, <2>3
<1>5. availableSet(target) \cup files \in SUBSET Catalog
  BY <1>1, Candidates
<1>6. /\ Consented(plan(target), installed, configured[target], FALSE)
      /\ Consented(refuseAlternateUpgrade(plan(target)), installed, configured[target], FALSE)
  <2>1. Consented(plan(target), installed, configured[target], FALSE)
    <3> HIDE DEF reqs
    <3> QED BY <1>1, <1>3, <1>4, <1>5, CrossConsents
  <2> HIDE DEF plan
  <2> QED BY <2>1, RefuseConsents
<1> HIDE DEF plan
<1>7. "install" \in Verbs /\ ("install" \in {"uninstall", "undo"}) = FALSE
  BY DEF Verbs
<1> QED BY <1>2, <1>3, <1>6, <1>7 DEF ShowsConsented

(* upgrade                                                                 *)
LEMMA UpgradeShowsConsented ==
  ASSUME IInv, NEW p \in Process, NEW at \in Stand,
         NEW args \in Arguments, NEW here \in BOOLEAN, cmdUpgrade(p, at, args, here)
  PROVE  ShowsConsented(p)
<1>1. at \in Root /\ args \in Seq(Name) /\ TypeOK
  BY CommandsAssumption DEF IInv
<1> DEFINE plan == resolve(at, UpgradeRequests(at, args, here), here)
           screened == IF args = << >> THEN holdBack(plan, at, here) ELSE refuseAlternateUpgrade(plan)
           verb == IF here THEN "upgrade here" ELSE "upgrade"
<1>2. PICK bypass \in BOOLEAN : Show(p, verb, at, args, IF bypass THEN plan ELSE screened, FALSE)
  BY DEF cmdUpgrade
<1>3. Valid(plan, at, here) /\ Consented(plan, installed, configured[at], FALSE)
  <2>1. UpgradeRequests(at, args, here) \in Seq(Wanting(View(at, here), "upgrade"))
    BY <1>1, UpgradeRequestsType
  <2>2. UpgradeRequests(at, args, here) \in Seq(Requests(View(at, here)))
    BY <2>1, WantingRequests
  <2> QED BY <1>1, <2>1, <2>2, UpgradeValid, UpgradeConsents
<1> HIDE DEF plan
<1>4. Consented(screened, installed, configured[at], FALSE)
  BY <1>1, <1>3, HoldConsents, RefuseConsents
<1>5. verb \in Verbs /\ (verb \in {"uninstall", "undo"}) = FALSE
  BY DEF Verbs
<1> HIDE DEF screened, verb
<1>6. Consented(IF bypass THEN plan ELSE screened, installed, configured[at], verb \in {"uninstall", "undo"})
  BY <1>3, <1>4, <1>5
<1> QED BY <1>1, <1>2, <1>5, <1>6 DEF ShowsConsented

(* uninstall                                                               *)
LEMMA UninstallConsents ==
  ASSUME IInv, NEW p \in Process, NEW at \in Stand,
         NEW args \in Arguments, cmdUninstall(p, at, args)
  PROVE  ShowsConsented(p)
<1>1. at \in Root /\ args \in Seq(Name) /\ TypeOK
  BY CommandsAssumption DEF IInv
<1> DEFINE reqs == [i \in DOMAIN args |-> Request("remove", at, args[i])]
           plan(c) == resolveCrossRoot(at, reqs, availableSet(at), [Options EXCEPT !.cascade = c])
<1>2. PICK cascade \in BOOLEAN : Show(p, "uninstall", at, args, plan(cascade), FALSE)
  BY DEF cmdUninstall, Map
<1>3. reqs \in Seq(Requests(Reach(at)))
  <2>1. at \in Reach(at)
    BY DEF Reach
  <2> QED BY <1>1, <2>1, ArgumentRequests
<1>4. Consented(plan(cascade), installed, configured[at], TRUE)
  <2> HIDE DEF reqs
  <2> QED BY <1>1, <1>3, Candidates, CrossConsents
<1> HIDE DEF plan
<1>5. "uninstall" \in Verbs /\ ("uninstall" \in {"uninstall", "undo"}) = TRUE
  BY DEF Verbs
<1> QED BY <1>1, <1>2, <1>4, <1>5 DEF ShowsConsented

(* downgrade                                                               *)
LEMMA DowngradeConsents ==
  ASSUME IInv, NEW p \in Process, NEW at \in Stand,
         NEW c \in archiveCandidates(at), cmdDowngrade(p, at, c.name, c.ver)
  PROVE  ShowsConsented(p)
<1>1. at \in Root /\ TypeOK
  BY CommandsAssumption DEF IInv
<1>2. c.name \in Name /\ c.ver \in Nat
  BY <1>1, Candidates, CommandsAssumption
<1> DEFINE req == [Request("downgrade", at, c.name) EXCEPT !.ver = c.ver]
           plan == resolveCrossRoot(at, << req >>, availableSet(at) \cup archiveCandidates(at), Backward)
<1>3. Show(p, "downgrade", at, << c.name >>, refuseAlternateUpgrade(plan), FALSE)
  BY DEF cmdDowngrade
<1>4. << req >> \in Seq(Requests(Reach(at))) /\ \A q \in ToSet(<< req >>) : q.kind # "remove"
  <2>1. req \in Requests(Reach(at))
    BY <1>2, RequestType DEF Reach
  <2>2. req.kind = "downgrade"
    BY DEF Request
  <2> HIDE DEF req
  <2>3. << req >> \in Seq(Requests(Reach(at)))
    BY <2>1
  <2> QED BY <2>2, <2>3 DEF ToSet
<1>5. availableSet(at) \cup archiveCandidates(at) \in SUBSET Catalog
  BY <1>1, Candidates
<1>6. Consented(plan, installed, configured[at], FALSE)
  <2> HIDE DEF req
  <2> QED BY <1>1, <1>4, <1>5, CrossConsents
<1> HIDE DEF plan
<1>7. Consented(refuseAlternateUpgrade(plan), installed, configured[at], FALSE)
  BY <1>6, RefuseConsents
<1>8. "downgrade" \in Verbs /\ ("downgrade" \in {"uninstall", "undo"}) = FALSE
  BY DEF Verbs
<1> QED BY <1>1, <1>3, <1>7, <1>8 DEF ShowsConsented

(* undo                                                                    *)
LEMMA UndoConsents ==
  ASSUME IInv, NEW p \in Process, NEW at \in Stand, cmdUndo(p, at)
  PROVE  ShowsConsented(p)
<1>1. at \in Root /\ TypeOK /\ Reach(at) \in SUBSET Root
  BY CommandsAssumption DEF IInv, Reach
<1>2. last[at].ops \in Seq(NamedOps)
  <2>1. last[at] # None
    BY DEF cmdUndo
  <2> QED BY <1>1, <2>1 DEF IInv
<1>3. PICK roots \in SetToSeqs(Reach(at)) :
        Show(p, "undo", at, << >>, UndoPlan(at, roots), last[at].cross)
  BY DEF cmdUndo
<1> DEFINE plan == resolveCrossRoot(at, UndoRequests(at, roots),
                                    availableSet(at) \cup archiveCandidates(at), Backward)
<1>4. UndoRequests(at, roots) \in Seq(Requests(Reach(at)))
  BY <1>1, <1>2, UndoRequestsType
<1>5. availableSet(at) \cup archiveCandidates(at) \in SUBSET Catalog
  BY <1>1, Candidates
<1>6. Consented(plan, installed, configured[at], TRUE)
  BY <1>1, <1>4, <1>5, CrossConsents
<1>7. UndoPlan(at, roots) = IF last[at].cross THEN plan ELSE refuseAlternateUpgrade(plan)
  BY DEF UndoPlan
<1> HIDE DEF plan
<1>8. Consented(UndoPlan(at, roots), installed, configured[at], TRUE)
  BY <1>6, <1>7, RefuseConsents
<1>9. "undo" \in Verbs /\ ("undo" \in {"uninstall", "undo"}) = TRUE
  BY DEF Verbs
<1> QED BY <1>1, <1>3, <1>8, <1>9 DEF ShowsConsented

(* What a plan does without an authorisation.                              *)
Unasked(j) ==
  /\ Forwards(ToSet(j.ops))
  /\ j.verb \notin {"uninstall", "undo"} =>
       Succession(ToSet(j.ops), installed, configured[j.at])

(* Whatever is shown is such a plan.                                       *)
LEMMA ConsentedUnasked ==
  ASSUME IInv, NEW q \in Process, ShowsConsented(q), NEW p \in Process,
         job[p] = None, job'[p] # None, job'[p].auths = {}
  PROVE  Unasked(job'[p])
<1> DEFINE Agreed(verb, at, asked, separate, plan) ==
             /\ Consented(plan, installed, configured[at], verb \in {"uninstall", "undo"})
             /\ Show(q, verb, at, asked, plan, separate)
<1>0. PICK verb \in Verbs, at \in Root : \E asked, separate, plan : Agreed(verb, at, asked, separate, plan)
  BY DEF ShowsConsented
<1>1. PICK asked, separate, plan : Agreed(verb, at, asked, separate, plan)
  BY <1>0
<1> DEFINE j == [verb |-> verb, at |-> at, asked |-> asked, ops |-> plan.ops,
                 auths |-> plan.auths, separate |-> separate]
<1>2. plan.reason = None /\ job' = [job EXCEPT ![q] = j]
  BY <1>1 DEF Show
<1>3. j.ops = plan.ops /\ j.at = at /\ j.verb = verb /\ j.auths = plan.auths
  OBVIOUS
<1> HIDE DEF j
<1>4. job'[p] = j
  <2>1. job \in [Process -> {None} \cup Shown]
    BY DEF IInv, TypeOK
  <2> QED BY <1>2, <2>1
<1>5. /\ Forwards(ToSet(j.ops))
      /\ j.verb \in {"uninstall", "undo"} \/ Succession(ToSet(j.ops), installed, configured[j.at])
  BY <1>1, <1>2, <1>3, <1>4 DEF Consented
<1>6. Unasked(j)
  BY <1>5 DEF Unasked
<1> QED BY <1>4, <1>6

(* What holds of ElevationsAsked with no hypothesis at all: a plan that    *)
(* was shown without an authorisation moves no package back, and removes   *)
(* one unasked only for a package that declares to replace it and comes    *)
(* from a repository at least as trusted; either the plan puts that one in *)
(* place or the root held a version of it beside the one removed           *)
(* (applyReplaces, elevations).                                            *)
THEOREM NothingUnasked ==
  Spec => [][\A p \in Process :
               job[p] = None /\ job'[p] # None /\ job'[p].auths = {} => Unasked(job'[p])]_vars
<1>1. ASSUME IInv, [Next]_vars, NEW p \in Process,
             job[p] = None, job'[p] # None, job'[p].auths = {}
      PROVE  Unasked(job'[p])
  <2>1. ASSUME NEW q \in Process, ShowsConsented(q) PROVE Unasked(job'[p])
    BY <1>1, <2>1, ConsentedUnasked
  <2>2. ASSUME NEW q \in Process, Execute(q) \/ Abandon(q) PROVE FALSE
    <3>1. job' = [job EXCEPT ![q] = None]
      BY <2>2 DEF Execute, Abandon
    <3> QED BY <1>1, <3>1 DEF IInv, TypeOK
  <2>3. ASSUME UNCHANGED job PROVE FALSE
    BY <1>1, <2>3
  <2>4. ASSUME NEW c \in upcoming, Publish(c) PROVE FALSE
    BY <2>3, <2>4 DEF Publish
  <2>5. ASSUME NEW at \in Stand, NEW repo \in Repo,
               removeRepository(at, repo) \/ addRepository(at, repo)
        PROVE  FALSE
    BY <2>3, <2>5 DEF removeRepository, addRepository
  <2>6. CASE UNCHANGED vars
    BY <2>3, <2>6 DEF vars
  <2>7. CASE Next
    BY <1>1, <2>1, <2>2, <2>4, <2>5, <2>7, InstallConsents, UpgradeShowsConsented,
       UninstallConsents, DowngradeConsents, UndoConsents DEF Next
  <2> QED BY <1>1, <2>6, <2>7
<1>2. IInv /\ [Next]_vars =>
        [\A p \in Process : job[p] = None /\ job'[p] # None /\ job'[p].auths = {} => Unasked(job'[p])]_vars
  BY <1>1
<1> QED BY <1>2, IInvInit, IInvNext, PTL DEF Spec

-----------------------------------------------------------------------------
(* What an undo brings back.                                               *)

(* Without a cascade the removals take what they name and nothing else.    *)
Taken(t, k, x) ==
  /\ Bare(t, x)
  /\ Open(t) => \A e : e \in t.world <=>
       e \in x.start /\ \A i \in 1 .. k : Key(e) # <<x.seq[i][1], x.seq[i][2]>>

TakeTargets == INSTANCE Loops WITH Step <- LAMBDA t, k, x : TargetStep(t, k, x),
                                   Keeps <- LAMBDA t, k, x : Taken(t, k, x)
TakeBroken == INSTANCE Loops WITH Step <- LAMBDA t, k, x : BrokenStep(t, k, x),
                                  Keeps <- LAMBDA t, k, x : Taken(t, Len(x.seq), x)

(* A rejection takes part in nothing further.                              *)
LEMMA TakenRejected ==
  ASSUME NEW x, x.view \in SUBSET Root, NEW k, NEW j, NEW t, Taken(t, j, x), NEW why \in Reasons
  PROVE  Taken(Rejected(t, why), k, x)
<1>1. why # None
  BY ResolverAssumption
<1>2. Bare(Rejected(t, why), x)
  BY RejectedBare DEF Taken
<1>3. ~Open(Rejected(t, why))
  BY <1>1 DEF Taken, Bare, Sound, State, Rejected, Open
<1> QED BY <1>2, <1>3 DEF Taken

Hits(keys, e) == \E i \in 1 .. Len(keys) : Key(e) = <<keys[i][1], keys[i][2]>>

(* applyRemovals without a cascade.                                        *)
LEMMA RemovalsPlain ==
  ASSUME NEW inst, NEW view \in SUBSET Root, NEW s, Sound(s, inst, view, {}), s.work = << >>,
         NEW T, NEW targets \in Seq(T), NEW refs, NEW cascade, cascade = FALSE
  PROVE  LET t == applyRemovals(s, targets, refs, cascade)
         IN /\ Sound(t, inst, view, {}) /\ t.work = << >>
            /\ Open(t) => \A e : e \in t.world <=>
                 e \in s.world /\ ~Hits(targets, e)
<1> DEFINE n == Len(targets)
           x == [seq |-> targets, refs |-> refs, cascade |-> cascade, inst |-> inst, view |-> view,
                 start |-> s.world]
           m == Cardinality(s.world) + 1
           gone == FoldLeft(removeTarget, s, targets)
<1>1. n \in Nat /\ DOMAIN targets = 1 .. n
  OBVIOUS
<1>2. /\ x.seq = targets /\ x.refs = refs /\ x.cascade = cascade
      /\ x.inst = inst /\ x.view = view /\ x.start = s.world
  OBVIOUS
<1>3. m \in Nat
  <2>1. s.world \in SUBSET Entry(Root)
    <3>1. Entry(view) \in SUBSET Entry(Root)
      BY DEF Entry
    <3> QED BY <3>1 DEF Sound, WorldOK
  <2>2. IsFiniteSet(s.world)
    BY <2>1, FiniteEntries, FS_Subset
  <2> QED BY <2>2, FS_CardinalityType
<1> HIDE DEF x, m
<1>4. Taken(s, 0, x)
  BY <1>2 DEF Taken, Bare
<1>5. ASSUME NEW k \in 1 .. n, NEW t, Taken(t, k - 1, x) PROVE Taken(TargetStep(t, k, x), k, x)
  <2> DEFINE key == x.seq[k]
             w == t.world \ At(t.world, key[1], key[2])
             u == [t EXCEPT !.world = w]
  <2>1. Bare(t, x)
    BY <1>5 DEF Taken
  <2>2. u.world = w /\ (Open(u) <=> Open(t))
    BY <2>1 DEF Bare, Sound, State, Open
  <2>3. Taken(Rejected(t, "removal-blocked"), k, x)
    BY <1>2, <1>5, TakenRejected DEF Reasons
  <2>4. \A e : e \in w <=> e \in t.world /\ Key(e) # <<key[1], key[2]>>
    BY DEF At, Key
  <2> HIDE DEF w
  <2>5. Bare(u, x)
    <3>1. w \in SUBSET t.world
      BY <2>4
    <3> QED BY <3>1, <2>1, <1>2, ShrunkBare
  <2> HIDE DEF u
  <2>6. Taken(u, k, x)
    <3>1. \A i \in 1 .. k : i = k \/ i \in 1 .. k - 1
      OBVIOUS
    <3>2. \A i \in 1 .. k - 1 : i \in 1 .. k
      OBVIOUS
    <3>3. k \in 1 .. k
      OBVIOUS
    <3>4. ASSUME Open(u), NEW e
          PROVE  e \in u.world <=>
                   e \in x.start /\ \A i \in 1 .. k : Key(e) # <<x.seq[i][1], x.seq[i][2]>>
      <4>1. e \in t.world <=>
              e \in x.start /\ \A i \in 1 .. k - 1 : Key(e) # <<x.seq[i][1], x.seq[i][2]>>
        BY <1>5, <2>2, <3>4 DEF Taken
      <4>2. (\A i \in 1 .. k : Key(e) # <<x.seq[i][1], x.seq[i][2]>>)
            <=> /\ \A i \in 1 .. k - 1 : Key(e) # <<x.seq[i][1], x.seq[i][2]>>
                /\ Key(e) # <<key[1], key[2]>>
        BY <3>1, <3>2, <3>3
      <4> HIDE DEF key
      <4> QED BY <4>1, <4>2, <2>2, <2>4
    <3> QED BY <2>5, <3>4 DEF Taken
  <2>7. ~Open(t) => Taken(t, k, x)
    BY <1>5 DEF Taken
  <2>8. ~Open(t) => TargetStep(t, k, x) = t
    BY DEF TargetStep, removeTarget
  <2>9. Open(t) => TargetStep(t, k, x) \in {u, Rejected(t, "removal-blocked")}
    BY DEF TargetStep, removeTarget, u, w
  <2> QED BY <2>3, <2>6, <2>7, <2>8, <2>9
<1>6. ASSUME NEW k, NEW t, Taken(t, n, x) PROVE Taken(BrokenStep(t, k, x), n, x)
  <2>1. Taken(Rejected(t, "removal-blocked"), n, x)
    BY <1>2, <1>6, TakenRejected DEF Reasons
  <2>2. BrokenStep(t, k, x) \in {t, Rejected(t, "removal-blocked")}
    BY <1>2 DEF BrokenStep, removeBroken, dropFirst
  <2> QED BY <1>6, <2>1, <2>2
<1>7. Taken(gone, n, x)
  <2>1. Taken(LET iter[K \in SUBSET (1 .. n)] ==
                    IF K = {} THEN s
                    ELSE LET i == CHOOSE i \in K : \A j \in K : i >= j
                         IN TargetStep(iter[K \ {i}], i, x)
              IN iter[1 .. n], n, x)
    BY <1>1, <1>4, <1>5, TakeTargets!FoldKeeps
  <2> DEFINE D == DOMAIN targets
  <2>2. Taken(LET iter[K \in SUBSET D] ==
                    IF K = {} THEN s
                    ELSE LET i == CHOOSE i \in K : \A j \in K : i >= j
                         IN removeTarget(iter[K \ {i}], targets[i])
              IN iter[D], n, x)
    <3>1. D = 1 .. n
      BY <1>1
    <3> HIDE DEF D, n
    <3> QED BY <2>1, <3>1, <1>2 DEF TargetStep
  <2> QED BY <2>2 DEF FoldLeft, MapThenFoldSet, Max
<1> HIDE DEF gone
<1>8. Taken(Iterate(LAMBDA t : removeBroken(t, refs, cascade), gone, m), n, x)
  <2>1. Len(x.seq) = n
    BY <1>2
  <2>2. Taken(LET after[k \in 0 .. m] == IF k = 0 THEN gone ELSE BrokenStep(after[k - 1], k, x)
              IN after[m], Len(x.seq), x)
    BY <1>3, <1>6, <1>7, <2>1, TakeBroken!LoopKeeps
  <2> QED BY <2>1, <2>2, <1>2 DEF Iterate, BrokenStep
<1>9. Taken(applyRemovals(s, targets, refs, cascade), n, x)
  <2>1. CASE targets = << >>
    <3>1. n = 0
      BY <2>1
    <3> QED BY <2>1, <3>1, <1>4 DEF applyRemovals
  <2>2. CASE targets # << >>
    BY <2>2, <1>8 DEF applyRemovals, m, gone
  <2> QED BY <2>1, <2>2
<1> DEFINE t == applyRemovals(s, targets, refs, cascade)
<1> HIDE DEF t
<1>10. Taken(t, n, x)
  BY <1>9 DEF t
<1>11. /\ Sound(t, inst, view, {}) /\ t.work = << >>
       /\ Open(t) => \A e : e \in t.world <=>
            e \in s.world /\ ~Hits(targets, e)
  BY <1>2, <1>10 DEF Taken, Bare, Hits
<1> QED BY <1>11 DEF t

(* The keys of the removals among the requests.                            *)
LEMMA RemovalsAsked ==
  ASSUME NEW T, NEW reqs \in Seq(T)
  PROVE  LET keys == Keys(Asked(reqs, "remove"))
         IN /\ keys \in Seq({<<q.root, q.name>> : q \in ToSet(reqs)})
            /\ \A key : (\E i \in 1 .. Len(keys) : key = <<keys[i][1], keys[i][2]>>) <=>
                 \E q \in ToSet(reqs) : q.kind = "remove" /\ key = <<q.root, q.name>>
<1> DEFINE R == {q \in ToSet(reqs) : q.kind = "remove"}
           a == Asked(reqs, "remove")
           keys == Keys(a)
<1>1. a = Select(reqs, R) /\ R \in SUBSET ToSet(reqs)
      /\ \A q : q \in R <=> q \in ToSet(reqs) /\ q.kind = "remove"
  BY DEF Asked
<1>2. reqs \in Seq(ToSet(reqs))
  BY DEF ToSet
<1> HIDE DEF R, a
<1>3. Select(reqs, R) \in Seq(ToSet(reqs) \cap R) /\ ToSet(Select(reqs, R)) = ToSet(reqs) \cap R
  BY <1>2, SelectFacts
<1>4. a \in Seq(ToSet(reqs)) /\ ToSet(a) = R
  BY <1>1, <1>3
<1>5. Len(a) \in Nat /\ DOMAIN a = 1 .. Len(a) /\ \A i \in 1 .. Len(a) : a[i] \in ToSet(reqs)
  BY <1>4
<1>6. keys \in [1 .. Len(a) -> {<<q.root, q.name>> : q \in ToSet(reqs)}]
      /\ \A i \in 1 .. Len(a) : keys[i] = <<a[i].root, a[i].name>>
  BY <1>5 DEF Keys, Map
<1> HIDE DEF keys
<1>7. keys \in Seq({<<q.root, q.name>> : q \in ToSet(reqs)}) /\ Len(keys) = Len(a)
  BY <1>5, <1>6
<1>8. \A q : q \in R <=> \E i \in 1 .. Len(a) : a[i] = q
  BY <1>4, <1>5 DEF ToSet
<1>9. ASSUME NEW key
      PROVE  (\E i \in 1 .. Len(keys) : key = <<keys[i][1], keys[i][2]>>) <=>
               \E q \in ToSet(reqs) : q.kind = "remove" /\ key = <<q.root, q.name>>
  <2>1. \A i \in 1 .. Len(a) : <<keys[i][1], keys[i][2]>> = <<a[i].root, a[i].name>>
    BY <1>6
  <2>2. (\E i \in 1 .. Len(keys) : key = <<keys[i][1], keys[i][2]>>)
        <=> \E i \in 1 .. Len(a) : key = <<a[i].root, a[i].name>>
    BY <1>7, <2>1
  <2> QED BY <2>2, <1>1, <1>8
<1> QED BY <1>7, <1>9 DEF keys, a

(* The best candidate of a name and some versions has that name and one of *)
(* the versions.                                                           *)
LEMMA BestNamed ==
  ASSUME NEW available \in SUBSET Catalog, NEW name, NEW vers, bestNamed(available, name, vers) # None
  PROVE  LET c == bestNamed(available, name, vers) IN c \in Catalog /\ c.name = name /\ c.ver \in vers
<1> DEFINE S == {c \in available : /\ c.name = name /\ c.ver \in vers
                                   /\ installableArch(c.arch)}
<1>1. S \in SUBSET Catalog /\ \A c \in S : c.name = name /\ c.ver \in vers
  OBVIOUS
<1>2. bestNamed(available, name, vers) = pickBest(SetToSeq(S), name, NoDepender)
  BY DEF bestNamed
<1> HIDE DEF S
<1>3. IsFiniteSet(S)
  BY <1>1, CommandsAssumption, FS_Subset
<1>4. SetToSeq(S) \in Seq(S)
  BY <1>3, ListsSet
<1>5. pickBest(SetToSeq(S), name, NoDepender) \in S \cup {None}
  BY <1>4, BestIn
<1> QED BY <1>1, <1>2, <1>5

(* The requests of an undo, carried out one after the other: what is asked *)
(* for in a version is chosen in that version, and everything else is left *)
(* as it is.                                                               *)
AsksFor(q, e) == q.kind = "downgrade" /\ Key(e) = <<q.root, q.name>>

Sown(t, k, x) ==
  /\ Sound(t, x.inst, x.view, {})
  /\ Open(t) =>
       /\ Open(x.given)
       /\ \A e \in t.world :
            \/ ~e.chosen /\ e \in x.start
            \/ e.chosen /\ \E i \in 1 .. Len(x.seq) : AsksFor(x.seq[i], e) /\ e.pkg.ver = x.seq[i].ver
       /\ \A e \in x.start : (\A i \in 1 .. Len(x.seq) : ~AsksFor(x.seq[i], e)) => e \in t.world
       /\ \A i \in 1 .. k : x.seq[i].kind = "downgrade" =>
            \E e \in t.world : e.chosen /\ AsksFor(x.seq[i], e)

Sowing == INSTANCE Loops WITH Step <- LAMBDA t, k, x : GoalStep(t, k, x),
                              Keeps <- LAMBDA t, k, x : Sown(t, k, x)

(* A request to remove sets no goal, and neither does any request once the *)
(* resolution is rejected (applyGoal).                                     *)
LEMMA IdleGoal ==
  ASSUME NEW s, NEW req, ~Open(s) \/ req.kind = "remove", NEW available
  PROVE  applyGoal(s, req, available) = s
BY Zenon DEF applyGoal

(* One request.                                                            *)
LEMMA SowOne ==
  ASSUME NEW x, x.view \in SUBSET Root, x.available \in SUBSET Catalog, Len(x.seq) \in Nat,
         NEW k \in 1 .. Len(x.seq), x.seq[k] \in Requests(x.view), x.seq[k].kind \in {"remove", "downgrade"},
         NEW t, Sown(t, k - 1, x)
  PROVE  Sown(GoalStep(t, k, x), k, x)
<1> DEFINE q == x.seq[k]
           u == GoalStep(t, k, x)
           cand == bestNamed(x.available, q.name, {q.ver})
<1>1. Sound(u, x.inst, x.view, {})
  BY GoalOfSound DEF Sown, GoalStep
<1>2. t \in State(x.view)
  BY DEF Sown, Sound
<1>3. \A i \in 1 .. k : i = k \/ i \in 1 .. k - 1
  OBVIOUS
<1>4. CASE ~Open(t)
  <2>1. u = t
    BY <1>4, IdleGoal DEF GoalStep
  <2>2. Sown(t, k, x)
    BY <1>4 DEF Sown
  <2> QED BY <2>1, <2>2
<1>5. CASE Open(t) /\ q.kind = "remove"
  <2>1. u = t
    BY <1>5, IdleGoal DEF GoalStep
  <2>2. Sown(t, k, x)
    BY <1>3, <1>5 DEF Sown
  <2> QED BY <2>1, <2>2
<1>6. CASE Open(t) /\ q.kind = "downgrade"
  <2>1. u = PlacedIfAny(t, cand, q.root)
    <3>1. u = downgradeGoal(t, q, x.available)
      <4>1. q.kind # "remove" /\ q.kind # "install" /\ q.kind # "upgrade"
        BY <1>6
      <4>2. u = applyGoal(t, q, x.available)
        BY DEF GoalStep
      <4> HIDE DEF q, u
      <4> QED BY <1>6, <4>1, <4>2, Zenon DEF applyGoal
    <3> QED BY <3>1 DEF downgradeGoal
  <2>2. CASE cand = None
    <3>1. u = Rejected(t, "unsatisfiable")
      BY <2>1, <2>2 DEF PlacedIfAny
    <3>2. "unsatisfiable" # None
      BY ResolverAssumption DEF Reasons
    <3>3. ~Open(u)
      BY <1>2, <3>1, <3>2 DEF Rejected, State, Open
    <3> QED BY <1>1, <3>3 DEF Sown
  <2>3. CASE cand # None
    <3> DEFINE old == At(t.world, q.root, cand.name)
               was == IF old = {} THEN None ELSE The(t.world, <<q.root, cand.name>>).was
               new == [root |-> q.root, pkg |-> cand, chosen |-> TRUE, was |-> was]
    <3>1. cand \in Catalog /\ cand.name = q.name /\ cand.ver = q.ver
      BY <2>3, BestNamed
    <3>2. u = Placed(t, cand, q.root)
      BY <2>1, <2>3 DEF PlacedIfAny
    <3>3. u.world = placeCandidate(t.world, cand, q.root)
      BY <1>2, <3>2 DEF Placed, Goal, State
    <3>4. u.world = (t.world \ old) \cup {new}
      BY <3>3 DEF placeCandidate
    <3>5. new.chosen /\ new.pkg = cand /\ Key(new) = <<q.root, q.name>>
      BY <3>1 DEF Key
    <3>6. \A e : e \in old <=> e \in t.world /\ Key(e) = <<q.root, q.name>>
      BY <3>1 DEF At, Key
    <3> HIDE DEF cand, u, new, old
    <3>7. ASSUME NEW e \in u.world
          PROVE  \/ ~e.chosen /\ e \in x.start
                 \/ e.chosen /\ \E i \in 1 .. Len(x.seq) : AsksFor(x.seq[i], e) /\ e.pkg.ver = x.seq[i].ver
      <4>1. CASE e \in t.world
        BY <4>1, <1>6 DEF Sown
      <4>2. CASE e = new
        BY <4>2, <3>1, <3>5, <1>6 DEF AsksFor
      <4> QED BY <4>1, <4>2, <3>4
    <3>8. ASSUME NEW e \in x.start, \A i \in 1 .. Len(x.seq) : ~AsksFor(x.seq[i], e)
          PROVE  e \in u.world
      <4>1. e \in t.world
        BY <3>8, <1>6 DEF Sown
      <4>2. e \notin old
        BY <3>6, <3>8, <1>6 DEF AsksFor
      <4> QED BY <4>1, <4>2, <3>4
    <3>9. ASSUME NEW i \in 1 .. k, x.seq[i].kind = "downgrade"
          PROVE  \E e \in u.world : e.chosen /\ AsksFor(x.seq[i], e)
      <4>1. CASE <<x.seq[i].root, x.seq[i].name>> = <<q.root, q.name>>
        BY <4>1, <3>4, <3>5, <3>9 DEF AsksFor
      <4>2. CASE <<x.seq[i].root, x.seq[i].name>> # <<q.root, q.name>>
        <5>1. i \in 1 .. k - 1
          BY <4>2, <1>3
        <5>2. PICK e \in t.world : e.chosen /\ AsksFor(x.seq[i], e)
          BY <5>1, <3>9, <1>6 DEF Sown
        <5>3. e \notin old
          BY <4>2, <5>2, <3>6 DEF AsksFor
        <5> QED BY <5>2, <5>3, <3>4
      <4> QED BY <4>1, <4>2
    <3>10. Open(x.given)
      BY <1>6 DEF Sown
    <3> QED BY <1>1, <3>7, <3>8, <3>9, <3>10 DEF Sown, u
  <2> QED BY <2>2, <2>3
<1> QED BY <1>4, <1>5, <1>6

(* All of them (seedGoals).                                                *)
LEMMA SowAll ==
  ASSUME NEW inst, NEW view \in SUBSET Root, NEW s, Sound(s, inst, view, {}),
         \A e \in s.world : ~e.chosen,
         NEW available \in SUBSET Catalog, NEW reqs \in Seq(Requests(view)),
         \A q \in ToSet(reqs) : q.kind \in {"remove", "downgrade"}
  PROVE  LET t == seedGoals(s, reqs, available)
         IN /\ Sound(t, inst, view, {})
            /\ Open(t) =>
                 /\ Open(s)
                 /\ \A e \in t.world :
                      \/ ~e.chosen /\ e \in s.world
                      \/ e.chosen /\ \E q \in ToSet(reqs) : AsksFor(q, e) /\ e.pkg.ver = q.ver
                 /\ \A e \in s.world : (\A q \in ToSet(reqs) : ~AsksFor(q, e)) => e \in t.world
                 /\ \A q \in ToSet(reqs) : q.kind = "downgrade" =>
                      \E e \in t.world : e.chosen /\ AsksFor(q, e)
<1> DEFINE n == Len(reqs)
           D == DOMAIN reqs
           x == [seq |-> reqs, available |-> available, inst |-> inst, view |-> view,
                 start |-> s.world, given |-> s]
<1>1. n \in Nat /\ D = 1 .. n
  OBVIOUS
<1>2. x.seq = reqs /\ x.available = available /\ x.inst = inst /\ x.view = view /\ x.start = s.world /\ x.given = s
  OBVIOUS
<1>3. \A k \in 1 .. n : reqs[k] \in Requests(view) /\ reqs[k].kind \in {"remove", "downgrade"}
  BY DEF ToSet
<1>4. \A q : q \in ToSet(reqs) <=> \E i \in 1 .. n : reqs[i] = q
  BY DEF ToSet
<1> HIDE DEF x, D, n
<1>5. Sown(s, 0, x)
  BY <1>2 DEF Sown
<1>6. ASSUME NEW k \in 1 .. n, NEW t, Sown(t, k - 1, x) PROVE Sown(GoalStep(t, k, x), k, x)
  <2>1. Len(x.seq) = n
    BY <1>2 DEF n
  <2> QED BY <1>1, <1>2, <1>3, <1>6, <2>1, SowOne
<1>7. Sown(LET iter[K \in SUBSET (1 .. n)] ==
                 IF K = {} THEN s
                 ELSE LET i == CHOOSE i \in K : \A j \in K : i >= j
                      IN GoalStep(iter[K \ {i}], i, x)
           IN iter[1 .. n], n, x)
  BY <1>1, <1>5, <1>6, Sowing!FoldKeeps
<1>8. Sown(LET iter[K \in SUBSET D] ==
                 IF K = {} THEN s
                 ELSE LET i == CHOOSE i \in K : \A j \in K : i >= j
                      IN applyGoal(iter[K \ {i}], reqs[i], available)
           IN iter[D], n, x)
  BY <1>7, <1>1, <1>2 DEF GoalStep
<1>9. Sown(seedGoals(s, reqs, available), n, x)
  BY <1>8 DEF seedGoals, FoldLeft, MapThenFoldSet, Max, D
<1> DEFINE t == seedGoals(s, reqs, available)
<1>10. Sown(t, n, x) /\ Len(x.seq) = n
  BY <1>2, <1>9 DEF n
<1> HIDE DEF t
<1>11. Sound(t, inst, view, {})
  BY <1>2, <1>10 DEF Sown
<1>12. ASSUME Open(t), NEW e \in t.world
       PROVE  \/ ~e.chosen /\ e \in s.world
              \/ e.chosen /\ \E q \in ToSet(reqs) : AsksFor(q, e) /\ e.pkg.ver = q.ver
  BY <1>2, <1>4, <1>10, <1>12 DEF Sown
<1>13. ASSUME Open(t), NEW e \in s.world, \A q \in ToSet(reqs) : ~AsksFor(q, e) PROVE e \in t.world
  BY <1>2, <1>4, <1>10, <1>13 DEF Sown
<1>14. ASSUME Open(t), NEW q \in ToSet(reqs), q.kind = "downgrade"
       PROVE  \E e \in t.world : e.chosen /\ AsksFor(q, e)
  BY <1>2, <1>4, <1>10, <1>14 DEF Sown
<1>15. ASSUME Open(t) PROVE Open(s)
  BY <1>2, <1>10, <1>15 DEF Sown
<1> QED BY <1>11, <1>12, <1>13, <1>14, <1>15 DEF t

(* A world that has what it needs stays as it is while the worklist is     *)
(* looked at.                                                              *)
Settled(t, x) ==
  /\ Sound(t, x.inst, x.view, {}) /\ t.world = x.world
  /\ SelfMet(x.world, x.refs)

SettledDependencies == INSTANCE Loops WITH Step <- LAMBDA t, k, x : ByNameStep(t, k, x),
                                           Keeps <- LAMBDA t, k, x : Settled(t, x)
SettledNames == INSTANCE Loops WITH Step <- LAMBDA t, k, x : EntryStep(t, k, x),
                                    Keeps <- LAMBDA t, k, x : Settled(t, x)
SettledWork == INSTANCE Loops WITH Step <- LAMBDA t, k, x : ForwardStep(t, k, x),
                                   Keeps <- LAMBDA t, k, x : Settled(t, x)

SettledIn(x) ==
  /\ x.view \in SUBSET Root /\ (x.refs = None \/ x.refs \in SUBSET x.view)
  /\ x.available \in SUBSET Catalog

(* One dependency (resolveDependency).                                     *)
LEMMA DependencySettled ==
  ASSUME NEW x, SettledIn(x), NEW t, Settled(t, x), NEW e \in x.world, NEW dep \in e.pkg.deps
  PROVE  Settled(resolveDependency(t, e, dep, x.available, x.refs, x.conf), x)
<1> DEFINE u == resolveDependency(t, e, dep, x.available, x.refs, x.conf)
           root == routeRoot(dep, e.root, x.refs)
           cand == bestForDependency(x.available, dep, e.pkg.arch, originRepo(e, x.conf))
<1>1. Sound(u, x.inst, x.view, {})
  <2>1. e \in Entry(x.view)
    BY DEF Settled, Sound, WorldOK
  <2> QED BY <2>1, DependencySound DEF Settled, SettledIn
<1>2. t \in State(x.view)
  BY DEF Settled, Sound
<1>3. u = t \/ u = Rejected(t, "unsatisfiable")
  <2>1. CASE root # None
    <3>1. Satisfied(t.world, e, dep, x.refs)
      BY <2>1 DEF Settled, SelfMet
    <3> QED BY <2>1, <3>1 DEF resolveDependency
  <2>2. CASE root = None
    <3> HIDE DEF cand
    <3>1. meetBy(t, dep, cand, root, x.available) = Rejected(t, "unsatisfiable")
      BY <2>2 DEF meetBy
    <3> QED BY <3>1 DEF resolveDependency, cand
  <2> QED BY <2>1, <2>2
<1> HIDE DEF u
<1>4. u.world = t.world
  BY <1>2, <1>3 DEF Rejected, State
<1> QED BY <1>1, <1>4 DEF Settled, u

(* Those of one name,                                                      *)
LEMMA NameSettled ==
  ASSUME NEW x, SettledIn(x), NEW s, Settled(s, x), NEW e \in x.world, NEW name,
         NEW available, NEW refs, NEW conf,
         available = x.available, refs = x.refs, conf = x.conf
  PROVE  Settled(resolveName(s, name, e, available, refs, conf), x)
<1> DEFINE deps == DependenciesOn(e, name)
           n == Len(deps)
           D == DOMAIN deps
           y == [seq |-> deps, e |-> e, available |-> available, refs |-> refs, conf |-> conf,
                 inst |-> x.inst, view |-> x.view, world |-> x.world]
<1>1. n \in Nat /\ D = 1 .. n /\ \A k \in 1 .. n : deps[k] \in e.pkg.deps
  <2> DEFINE S == {dep \in e.pkg.deps : dep.name = name}
  <2>1. IsFiniteSet(S)
    <3>1. e.pkg \in Catalog
      BY DEF Settled, Sound, WorldOK, Entry
    <3>2. IsFiniteSet(e.pkg.deps)
      BY <3>1, CommandsAssumption
    <3> QED BY <3>2, FS_Subset
  <2>2. deps \in Seq(S)
    BY <2>1, ListsSet DEF DependenciesOn
  <2>3. S \in SUBSET e.pkg.deps
    OBVIOUS
  <2> HIDE DEF deps, S
  <2> QED BY <2>2, <2>3
<1>2. /\ y.seq = deps /\ y.e = e /\ y.available = x.available /\ y.refs = x.refs /\ y.conf = x.conf
      /\ y.inst = x.inst /\ y.view = x.view /\ y.world = x.world
  OBVIOUS
<1> HIDE DEF y, D, n, deps
<1>3. \A t : Settled(t, y) <=> Settled(t, x)
  BY <1>2 DEF Settled
<1>4. ASSUME NEW k \in 1 .. n, NEW t, Settled(t, y) PROVE Settled(ByNameStep(t, k, y), y)
  BY <1>1, <1>2, <1>3, <1>4, DependencySettled DEF ByNameStep
<1>5. Settled(LET iter[K \in SUBSET (1 .. n)] ==
                    IF K = {} THEN s
                    ELSE LET i == CHOOSE i \in K : \A j \in K : i >= j
                         IN ByNameStep(iter[K \ {i}], i, y)
              IN iter[1 .. n], y)
  <2>1. n \in Nat /\ Settled(s, y)
    BY <1>1, <1>3
  <2> QED BY <2>1, <1>4, SettledDependencies!FoldKeeps
<1>6. Settled(LET iter[K \in SUBSET D] ==
                    IF K = {} THEN s
                    ELSE LET i == CHOOSE i \in K : \A j \in K : i >= j
                         IN resolveDependency(iter[K \ {i}], e, deps[i], available, refs, conf)
              IN iter[D], y)
  BY <1>5, <1>1, <1>2 DEF ByNameStep
<1>7. Settled(resolveName(s, name, e, available, refs, conf), y)
  BY <1>6 DEF resolveName, FoldLeft, MapThenFoldSet, Max, D, deps
<1> QED BY <1>3, <1>7

(* all of an entry's,                                                      *)
LEMMA EntrySettled ==
  ASSUME NEW x, SettledIn(x), NEW s, Settled(s, x), NEW e \in x.world,
         NEW available, NEW refs, NEW conf,
         available = x.available, refs = x.refs, conf = x.conf
  PROVE  Settled(resolveEntry(s, e, available, refs, conf), x)
<1> DEFINE names == DependencyNames(e, available)
           n == Len(names)
           D == DOMAIN names
           y == [seq |-> names, e |-> e, available |-> available, refs |-> refs, conf |-> conf,
                 inst |-> x.inst, view |-> x.view, world |-> x.world]
<1>1. n \in Nat /\ D = 1 .. n
  <2> DEFINE wanted == {dep.name : dep \in e.pkg.deps}
             offered == {c.name : c \in x.available}
             first == Select(NameSeq, wanted \cap offered)
             then == Select(NameSeq, wanted \ offered)
  <2>1. NameSeq \in Seq(Name)
    BY ResolverAssumption
  <2> HIDE DEF wanted, offered
  <2>2. first \in Seq(Name \cap (wanted \cap offered)) /\ then \in Seq(Name \cap (wanted \ offered))
    BY <2>1, SelectFacts
  <2>3. names = first \o then
    BY DEF DependencyNames, wanted, offered
  <2> HIDE DEF first, then, names
  <2>4. first \in Seq(Name) /\ then \in Seq(Name)
    BY <2>2
  <2> QED BY <2>3, <2>4
<1>2. /\ y.seq = names /\ y.e = e /\ y.available = x.available /\ y.refs = x.refs /\ y.conf = x.conf
      /\ y.inst = x.inst /\ y.view = x.view /\ y.world = x.world
  OBVIOUS
<1> HIDE DEF y, D, n, names
<1>3. \A t : Settled(t, y) <=> Settled(t, x)
  BY <1>2 DEF Settled
<1>4. ASSUME NEW k, NEW t, Settled(t, y) PROVE Settled(EntryStep(t, k, y), y)
  BY <1>2, <1>3, <1>4, NameSettled DEF EntryStep
<1>5. Settled(LET iter[K \in SUBSET (1 .. n)] ==
                    IF K = {} THEN s
                    ELSE LET i == CHOOSE i \in K : \A j \in K : i >= j
                         IN EntryStep(iter[K \ {i}], i, y)
              IN iter[1 .. n], y)
  <2>1. n \in Nat /\ Settled(s, y)
    BY <1>1, <1>3
  <2> QED BY <2>1, <1>4, SettledNames!FoldKeeps
<1>6. Settled(LET iter[K \in SUBSET D] ==
                    IF K = {} THEN s
                    ELSE LET i == CHOOSE i \in K : \A j \in K : i >= j
                         IN resolveName(iter[K \ {i}], names[i], e, available, refs, conf)
              IN iter[D], y)
  BY <1>5, <1>1, <1>2 DEF EntryStep
<1>7. Settled(FoldLeft(LAMBDA t, name : resolveName(t, name, e, available, refs, conf), s, names), y)
  BY <1>6 DEF FoldLeft, MapThenFoldSet, Max, D
<1>8. Settled(resolveEntry(s, e, available, refs, conf), y)
  BY <1>7 DEF resolveEntry, resolveName, names
<1> QED BY <1>3, <1>8

(* a turn of the worklist                                                  *)
LEMMA NextSettled ==
  ASSUME NEW x, SettledIn(x), NEW s, Settled(s, x)
  PROVE  Settled(resolveNext(s, x.available, x.refs, x.conf), x)
<1> DEFINE t == [s EXCEPT !.work = Tail(@), !.steps = @ + 1]
           e == The(s.world, s.work[1])
<1>1. s \in State(x.view) /\ Reachable(s) /\ s.world = x.world
  BY DEF Settled, Sound
<1>2. Settled(Rejected(s, "too-complex"), x)
  <2>1. Sound(Rejected(s, "too-complex"), x.inst, x.view, {})
    BY RejectedSound DEF Reasons, Settled, SettledIn
  <2>2. Rejected(s, "too-complex").world = s.world
    BY <1>1 DEF Rejected, State
  <2> QED BY <2>1, <2>2 DEF Settled
<1>3. CASE s.work = << >>
  BY <1>3 DEF resolveNext
<1>4. CASE s.work # << >>
  <2>1. s.work \in Seq(Root \X Name) /\ s.steps \in Nat
    BY <1>1 DEF State
  <2> DEFINE w == Tail(s.work)
             m == s.steps + 1
  <2>2. /\ w \in Seq(Root \X Name) /\ m \in Nat
        /\ \A i \in DOMAIN w : i + 1 \in DOMAIN s.work /\ w[i] = s.work[i + 1]
    BY <2>1, <1>4
  <2>3. t = [s EXCEPT !.work = w, !.steps = m]
    BY <1>1 DEF State
  <2> HIDE DEF w, m, t
  <2>4. t \in State(x.view) /\ t.world = s.world /\ t.work = w
    BY <2>2, <2>3, <1>1 DEF State
  <2>5. Settled(t, x)
    BY <2>2, <2>4, <1>1 DEF Settled, Sound, Reachable
  <2>6. At(s.world, s.work[1][1], s.work[1][2]) # {}
    BY <2>1, <1>1, <1>4 DEF Reachable
  <2>7. e \in x.world
    BY <2>6, <1>1 DEF The, At
  <2> HIDE DEF e
  <2>8. Settled(resolveEntry(t, e, x.available, x.refs, x.conf), x)
    BY <2>5, <2>7, EntrySettled
  <2> QED BY <2>8, <1>2, <1>4 DEF resolveNext, t, e
<1> QED BY <1>3, <1>4

(* and the whole worklist (resolveForward).                                *)
LEMMA ForwardSettled ==
  ASSUME NEW inst, NEW view \in SUBSET Root, NEW s, Sound(s, inst, view, {}),
         NEW available \in SUBSET Catalog,
         NEW refs, refs = None \/ refs \in SUBSET view, NEW conf, SelfMet(s.world, refs)
  PROVE  LET t == resolveForward(s, available, refs, conf)
         IN Sound(t, inst, view, {}) /\ t.world = s.world
<1> DEFINE m == MaxResolveSteps + 1
           x == [available |-> available, refs |-> refs, conf |-> conf, inst |-> inst, view |-> view,
                 world |-> s.world]
<1>1. m \in Nat
  BY ResolverAssumption
<1>2. /\ x.available = available /\ x.refs = refs /\ x.conf = conf
      /\ x.inst = inst /\ x.view = view /\ x.world = s.world
  OBVIOUS
<1> HIDE DEF x, m
<1>3. SettledIn(x) /\ Settled(s, x)
  BY <1>2 DEF Settled, SettledIn
<1>4. ASSUME NEW k, NEW t, Settled(t, x) PROVE Settled(ForwardStep(t, k, x), x)
  BY <1>3, <1>4, NextSettled DEF ForwardStep
<1>5. Settled(LET after[k \in 0 .. m] == IF k = 0 THEN s ELSE ForwardStep(after[k - 1], k, x)
              IN after[m], x)
  BY <1>1, <1>3, <1>4, SettledWork!LoopKeeps
<1>6. Settled(Iterate(LAMBDA t : resolveNext(t, available, refs, conf), s, m), x)
  BY <1>5, <1>2 DEF Iterate, ForwardStep
<1>7. Settled(resolveForward(s, available, refs, conf), x)
  BY <1>6 DEF resolveForward, m
<1> QED BY <1>2, <1>7 DEF Settled

(* What has been joined so far (Concat).                                   *)
Gathered(t, k, x) ==
  t \in Seq(x.of) /\ \A i \in 1 .. k : ToSet(x.seqs[i]) \in SUBSET ToSet(t)

Gathering == INSTANCE Loops WITH Step <- LAMBDA t, k, x : JoinStep(t, k, x),
                                 Keeps <- LAMBDA t, k, x : Gathered(t, k, x)

(* Joining sequences leaves nothing out.                                   *)
LEMMA ConcatAll ==
  ASSUME NEW T, NEW seqs \in Seq(Seq(T))
  PROVE  \A i \in DOMAIN seqs : ToSet(seqs[i]) \in SUBSET ToSet(Concat(seqs))
<1> DEFINE n == Len(seqs)
           D == DOMAIN seqs
           x == [seqs |-> seqs, of |-> T]
<1>1. n \in Nat /\ D = 1 .. n /\ \A k \in 1 .. n : seqs[k] \in Seq(T)
  OBVIOUS
<1>2. x.seqs = seqs /\ x.of = T
  OBVIOUS
<1> HIDE DEF x, D, n
<1>3. Gathered(<< >>, 0, x)
  <2>1. << >> \in Seq(x.of)
    OBVIOUS
  <2> QED BY <2>1 DEF Gathered
<1>4. ASSUME NEW k \in 1 .. n, NEW t, Gathered(t, k - 1, x) PROVE Gathered(JoinStep(t, k, x), k, x)
  <2>1. t \in Seq(T) /\ seqs[k] \in Seq(T)
    BY <1>1, <1>2, <1>4 DEF Gathered
  <2>2. t \o seqs[k] \in Seq(T) /\ ToSet(t \o seqs[k]) = ToSet(t) \cup ToSet(seqs[k])
    BY <2>1, JoinedSet
  <2>3. \A i \in 1 .. k : i = k \/ i \in 1 .. k - 1
    OBVIOUS
  <2>4. \A i \in 1 .. k - 1 : ToSet(seqs[i]) \in SUBSET ToSet(t)
    BY <1>2, <1>4 DEF Gathered
  <2>5. JoinStep(t, k, x) = t \o seqs[k]
    BY <1>2 DEF JoinStep
  <2>6. \A i \in 1 .. k : ToSet(seqs[i]) \in SUBSET ToSet(t \o seqs[k])
    BY <2>2, <2>3, <2>4
  <2> QED BY <1>2, <2>2, <2>5, <2>6 DEF Gathered
<1>5. Gathered(LET iter[K \in SUBSET (1 .. n)] ==
                     IF K = {} THEN << >>
                     ELSE LET i == CHOOSE i \in K : \A j \in K : i >= j
                          IN JoinStep(iter[K \ {i}], i, x)
               IN iter[1 .. n], n, x)
  BY <1>1, <1>3, <1>4, Gathering!FoldKeeps
<1>6. Gathered(Concat(x.seqs), n, x)
  <2> DEFINE E == DOMAIN x.seqs
  <2>1. E = 1 .. n
    BY <1>1, <1>2 DEF D
  <2>2. Gathered(LET iter[K \in SUBSET (1 .. n)] ==
                       IF K = {} THEN << >>
                       ELSE LET i == CHOOSE i \in K : \A j \in K : i >= j
                            IN iter[K \ {i}] \o x.seqs[i]
                 IN iter[1 .. n], n, x)
    BY <1>5 DEF JoinStep
  <2> HIDE DEF E
  <2>3. Gathered(LET iter[K \in SUBSET E] ==
                       IF K = {} THEN << >>
                       ELSE LET i == CHOOSE i \in K : \A j \in K : i >= j
                            IN iter[K \ {i}] \o x.seqs[i]
                 IN iter[E], n, x)
    BY <2>1, <2>2
  <2> QED BY <2>3 DEF Concat, FoldLeft, MapThenFoldSet, Max, E
<1>7. Gathered(Concat(seqs), n, x)
  BY <1>2, <1>6
<1> QED BY <1>7, <1>1, <1>2 DEF Gathered, D

(* An undo asks for the inverse of every operation of the transaction, and *)
(* for nothing else, when they are all in roots it can reach               *)
(* (cmdUndo, undoCrossRoot).                                               *)
LEMMA UndoAsks ==
  ASSUME NEW at \in Root, Reach(at) \in SUBSET Root, last[at].ops \in Seq(NamedOps),
         NEW roots \in SetToSeqs(Reach(at)),
         \A op \in ToSet(last[at].ops) : op.root \in Reach(at)
  PROVE  \A q : q \in ToSet(UndoRequests(at, roots))
                <=> \E op \in ToSet(last[at].ops) : q = inverseRequest(op)
<1> DEFINE ops == last[at].ops
           U == ToSet(ops)
           in(r) == Select(ops, {op \in U : op.root = r})
           m == [i \in 1 .. Len(roots) |-> in(roots[i])]
           done == Concat(m)
<1>1. /\ Len(roots) \in Nat /\ DOMAIN roots = 1 .. Len(roots)
      /\ \A r \in Reach(at) : \E i \in 1 .. Len(roots) : roots[i] = r
  <2>1. IsFiniteSet(Reach(at))
    BY FiniteRoots, FS_Subset
  <2>2. roots \in Seq(Reach(at)) /\ ToSet(roots) = Reach(at)
    BY <2>1, ListingAll
  <2>3. Len(roots) \in Nat /\ DOMAIN roots = 1 .. Len(roots)
    BY <2>2
  <2>4. \A r \in Reach(at) : \E i \in DOMAIN roots : roots[i] = r
    BY <2>2 DEF ToSet
  <2> QED BY <2>3, <2>4
<1>2. UndoRequests(at, roots) = Map(inverseRequest, done)
  BY <1>1 DEF UndoRequests, Map
<1>3. ops \in Seq(U)
  <2>1. DOMAIN ops = 1 .. Len(ops) /\ Len(ops) \in Nat
    OBVIOUS
  <2> QED BY <2>1 DEF ToSet
<1>4. ASSUME NEW r PROVE in(r) \in Seq(U) /\ \A op \in U : op.root = r => op \in ToSet(in(r))
  <2> DEFINE S == {op \in U : op.root = r}
             t == Select(ops, S)
  <2>1. S \in SUBSET U /\ \A op \in U : op.root = r => op \in S
    OBVIOUS
  <2> HIDE DEF S, U, ops
  <2>2. t \in Seq(U \cap S) /\ ToSet(t) = ToSet(ops) \cap S
    BY <1>3, SelectFacts
  <2>3. U \cap S = S /\ ToSet(ops) = U
    BY <2>1 DEF U
  <2> HIDE DEF t
  <2>4. t \in Seq(U) /\ ToSet(t) = S
    BY <2>1, <2>2, <2>3
  <2> QED BY <2>1, <2>4 DEF t, S
<1> HIDE DEF in, U, ops
<1>5. m \in Seq(Seq(U)) /\ DOMAIN m = 1 .. Len(roots)
  <2>1. m \in [1 .. Len(roots) -> Seq(U)]
    BY <1>4
  <2> QED BY <1>1, <2>1
<1>6. \A i \in 1 .. Len(roots) : m[i] = in(roots[i])
  OBVIOUS
<1> HIDE DEF m
<1>7. done \in Seq(U) /\ \A i \in 1 .. Len(roots) : ToSet(m[i]) \in SUBSET ToSet(done)
  BY <1>5, ConcatType, ConcatAll
<1> HIDE DEF done
<1>8. ToSet(done) = U
  <2>1. ASSUME NEW op \in U PROVE op \in ToSet(done)
    <3>1. op.root \in Reach(at)
      BY DEF U, ops
    <3>2. PICK i \in 1 .. Len(roots) : roots[i] = op.root
      BY <1>1, <3>1
    <3>3. op \in ToSet(m[i])
      BY <1>4, <1>6, <3>2
    <3> QED BY <1>7, <3>3
  <2>2. ToSet(done) \in SUBSET U
    BY <1>7, SetOfSeq
  <2> QED BY <2>1, <2>2
<1>9. \A q : q \in ToSet(Map(inverseRequest, done)) <=> \E op \in ToSet(done) : q = inverseRequest(op)
  <2>1. DOMAIN done = 1 .. Len(done)
    BY <1>7
  <2> QED BY <2>1 DEF Map, ToSet
<1> QED BY <1>2, <1>8, <1>9 DEF U, ops

(* Operations that can be reversed: one for each package, and one that has *)
(* nothing to go back to is an install.                                    *)
Reversible(S) ==
  /\ OneOpEach(S)
  /\ \A op \in S : /\ op.kind = "install" <=> op.from = None
                   /\ op.from # None => op.from.name = op.name

(* What was there before them, going by what they replaced.                *)
Before(inst, S) ==
  [r \in Root |-> {c \in inst[r] : Untouched(c, r, S)}
                    \cup {op.from : op \in {o \in S : o.root = r /\ o.from # None}}]

(* A package that comes back replaces none of those beside it but those    *)
(* that go.                                                                *)
Yields(inst, S) ==
  \A op \in S : op.from # None =>
    \A b \in Catalog : b.name = op.from.name /\ b.ver = op.from.ver =>
      \A q \in b.replaces : \A d \in inst[op.root] :
        q.name = d.name /\ d.ver \in q.vers =>
          \E o \in S : o.root = op.root /\ o.name = d.name /\ o.from = None

(* An operation on the package of an entry.                                *)
Goes(op, e) == op.root = e.root /\ op.name = e.pkg.name

(* A world in which every operation is reversed and nothing else changed.  *)
PutBack(world, inst, view, S) ==
  /\ \A e \in world :
       \/ ~e.chosen /\ e.pkg \in inst[e.root] /\ Untouched(e.pkg, e.root, S)
       \/ e.chosen /\ \E op \in S : op.from # None /\ Goes(op, e) /\ e.pkg.ver = op.from.ver
  /\ \A r \in view : \A c \in inst[r] : Untouched(c, r, S) =>
       \E e \in world : e.root = r /\ e.pkg = c /\ Kept(e) = c
  /\ \A op \in S : op.from # None =>
       \E e \in world : Goes(op, e) /\ e.pkg.ver = op.from.ver

(* The removals and the goals of an undo put everything back               *)
(* (applyRemovals, seedGoals).                                             *)
LEMMA GoalsPutBack ==
  ASSUME NEW inst, Packages(inst), NEW view \in SUBSET Root,
         NEW S \in SUBSET Planned(view), Reversible(S),
         NEW reqs \in Seq(Requests(view)),
         \A q : q \in ToSet(reqs) <=> \E op \in S : q = inverseRequest(op),
         NEW available \in SUBSET Catalog, NEW refs, NEW cascade, cascade = FALSE
  PROVE  LET keys == Keys(Asked(reqs, "remove"))
             s == seedGoals(applyRemovals(Fresh(Seen(inst, view)), keys, refs, cascade), reqs, available)
         IN /\ Sound(s, Seen(inst, view), view, {})
            /\ Open(s) => PutBack(s.world, inst, view, S)
<1> DEFINE given == Seen(inst, view)
           W == InstalledWorld(given)
           s0 == Fresh(given)
           keys == Keys(Asked(reqs, "remove"))
           s1 == applyRemovals(s0, keys, refs, cascade)
           s2 == seedGoals(s1, reqs, available)
           at(r, c) == [root |-> r, pkg |-> c, chosen |-> FALSE, was |-> c]
           T == {<<q.root, q.name>> : q \in ToSet(reqs)}
<1>1. Given(given, view)
  BY SeenGiven
<1>2. \A e : e \in W <=> \E r \in view : \E c \in inst[r] : e = at(r, c)
  <2>1. \A e : e \in W <=> \E r \in Root : \E c \in given[r] : e = at(r, c)
    BY <1>1, InstalledEntries
  <2>2. \A r \in Root : given[r] = IF r \in view THEN inst[r] ELSE {}
    BY DEF Seen
  <2> HIDE DEF given, W, at
  <2> QED BY <2>1, <2>2
<1>3. Sound(s0, given, view, {}) /\ s0.work = << >> /\ s0.world = W
  <2>1. WorldOK(W, given, view)
    BY <1>1, InstalledEntries
  <2>2. s0 \in State(view)
    <3>1. W \in SUBSET Entry(view)
      BY <2>1 DEF WorldOK
    <3>2. << >> \in Seq(Root \X Name)
      OBVIOUS
    <3> HIDE DEF W
    <3> QED BY <3>1, <3>2 DEF Fresh, State, W
  <2>3. s0.world = W /\ s0.work = << >>
    BY DEF Fresh
  <2> HIDE DEF s0, W
  <2> QED BY <2>1, <2>2, <2>3 DEF Sound, Reachable, Retains
<1>4. \A r, c : at(r, c).root = r /\ at(r, c).pkg = c /\ ~at(r, c).chosen /\ Kept(at(r, c)) = c
  BY DEF Kept
<1>5. /\ keys \in Seq(T)
      /\ \A key : (\E i \in 1 .. Len(keys) : key = <<keys[i][1], keys[i][2]>>) <=>
           \E q \in ToSet(reqs) : q.kind = "remove" /\ key = <<q.root, q.name>>
  BY RemovalsAsked
<1> HIDE DEF s0, keys, W, at, given, T
<1>6. /\ Sound(s1, given, view, {})
      /\ Open(s1) => \A e : e \in s1.world <=>
           e \in s0.world /\ ~Hits(keys, e)
  BY <1>3, <1>5, RemovalsPlain
<1>7. \A e \in s1.world : ~e.chosen
  <2> DEFINE V == {}
  <2>1. V \in SUBSET s0.world /\ SelfMet(V, refs) /\ Spared(V, keys)
    BY DEF SelfMet, Spared, At
  <2>2. \A e \in V : FALSE
    OBVIOUS
  <2> HIDE DEF V
  <2>3. s1.world \in SUBSET s0.world
    BY <1>3, <1>5, <2>1, RemovalsExact
  <2> QED BY <2>3, <1>2, <1>3, <1>4
<1> HIDE DEF s1
<1>8. \A q \in ToSet(reqs) : q.kind \in {"remove", "downgrade"}
  <2>1. \A op \in S : inverseRequest(op).kind \in {"remove", "downgrade"}
    BY DEF inverseRequest, Request
  <2> QED BY <2>1
<1>9. /\ Sound(s2, given, view, {})
      /\ Open(s2) =>
           /\ Open(s1)
           /\ \A e \in s2.world :
                \/ ~e.chosen /\ e \in s1.world
                \/ e.chosen /\ \E q \in ToSet(reqs) : AsksFor(q, e) /\ e.pkg.ver = q.ver
           /\ \A e \in s1.world : (\A q \in ToSet(reqs) : ~AsksFor(q, e)) => e \in s2.world
           /\ \A q \in ToSet(reqs) : q.kind = "downgrade" =>
                \E e \in s2.world : e.chosen /\ AsksFor(q, e)
  BY <1>6, <1>7, <1>8, SowAll
<1> HIDE DEF s2
<1>10. ASSUME NEW op \in S
       PROVE  LET q == inverseRequest(op)
              IN /\ q.root = op.root /\ q.name = op.name
                 /\ op.from = None => q.kind = "remove"
                 /\ op.from # None => q.kind = "downgrade" /\ q.ver = op.from.ver
  BY DEF inverseRequest, Request, Reversible
<1>11. ASSUME NEW e, NEW q \in ToSet(reqs), AsksFor(q, e)
       PROVE  \E op \in S : op.from # None /\ Goes(op, e) /\ q = inverseRequest(op) /\ q.ver = op.from.ver
  <2>1. PICK op \in S : q = inverseRequest(op)
    OBVIOUS
  <2> QED BY <2>1, <1>10, <1>11 DEF AsksFor, Goes, Key
<1>12. ASSUME NEW e, NEW op \in S, op.from # None, Goes(op, e)
       PROVE  \E q \in ToSet(reqs) : AsksFor(q, e) /\ q.ver = op.from.ver
  <2> DEFINE q == inverseRequest(op)
  <2>1. q \in ToSet(reqs)
    OBVIOUS
  <2>2. q.root = op.root /\ q.name = op.name /\ q.kind = "downgrade" /\ q.ver = op.from.ver
    BY <1>10, <1>12
  <2> HIDE DEF q
  <2>3. AsksFor(q, e)
    BY <2>2, <1>12 DEF AsksFor, Goes, Key
  <2> QED BY <2>1, <2>2, <2>3
<1>13. ASSUME Open(s1), NEW e \in W
       PROVE  e \in s1.world <=> \A op \in S : op.from = None => ~Goes(op, e)
  <2>1. e \in s1.world <=> ~Hits(keys, e)
    BY <1>3, <1>6, <1>13
  <2>2. e \in s1.world <=> ~\E q \in ToSet(reqs) : q.kind = "remove" /\ Key(e) = <<q.root, q.name>>
    BY <2>1, <1>5 DEF Hits
  <2>3. (\E q \in ToSet(reqs) : q.kind = "remove" /\ Key(e) = <<q.root, q.name>>)
        <=> \E op \in S : op.from = None /\ Goes(op, e)
    <3>1. ASSUME NEW q \in ToSet(reqs), q.kind = "remove", Key(e) = <<q.root, q.name>>
          PROVE  \E op \in S : op.from = None /\ Goes(op, e)
      <4>1. PICK op \in S : q = inverseRequest(op)
        OBVIOUS
      <4> QED BY <4>1, <1>10, <3>1 DEF Goes, Key
    <3>2. ASSUME NEW op \in S, op.from = None, Goes(op, e)
          PROVE  \E q \in ToSet(reqs) : q.kind = "remove" /\ Key(e) = <<q.root, q.name>>
      <4> DEFINE q == inverseRequest(op)
      <4>1. q \in ToSet(reqs)
        OBVIOUS
      <4>2. q.root = op.root /\ q.name = op.name /\ q.kind = "remove"
        BY <1>10, <3>2
      <4> HIDE DEF q
      <4>3. Key(e) = <<q.root, q.name>>
        BY <4>2, <3>2 DEF Goes, Key
      <4> QED BY <4>1, <4>2, <4>3
    <3> QED BY <3>1, <3>2
  <2> QED BY <2>2, <2>3
<1>14. Open(s1) => s1.world \in SUBSET W
  BY <1>3, <1>6
<1>15. OneEach(s2.world)
  BY <1>9 DEF Sound, WorldOK
<1>16. ASSUME Open(s2), NEW e \in s2.world
       PROVE  \/ ~e.chosen /\ e.pkg \in inst[e.root] /\ Untouched(e.pkg, e.root, S)
              \/ e.chosen /\ \E op \in S : op.from # None /\ Goes(op, e) /\ e.pkg.ver = op.from.ver
  <2>1. CASE ~e.chosen
    <3>1. Open(s1) /\ e \in s1.world /\ e \in W
      BY <1>9, <1>14, <1>16, <2>1
    <3>2. e.pkg \in inst[e.root]
      BY <3>1, <1>2, <1>4
    <3>3. ASSUME NEW op \in S, Goes(op, e) PROVE FALSE
      <4>1. op.from # None
        BY <3>1, <3>3, <1>13
      <4>2. PICK q \in ToSet(reqs) : AsksFor(q, e)
        BY <4>1, <3>3, <1>12
      <4>3. PICK f \in s2.world : f.chosen /\ AsksFor(q, f)
        BY <4>2, <1>9, <1>16 DEF AsksFor
      <4>4. f.root = e.root /\ f.pkg.name = e.pkg.name
        BY <4>2, <4>3 DEF AsksFor, Key
      <4> QED BY <4>3, <4>4, <1>15, <1>16, <2>1 DEF OneEach
    <3> QED BY <2>1, <3>2, <3>3 DEF Untouched, Goes
  <2>2. CASE e.chosen
    <3>1. PICK q \in ToSet(reqs) : AsksFor(q, e) /\ e.pkg.ver = q.ver
      BY <1>9, <1>16, <2>2
    <3> QED BY <2>2, <3>1, <1>11
  <2> QED BY <2>1, <2>2
<1>17. ASSUME Open(s2), NEW r \in view, NEW c \in inst[r], Untouched(c, r, S)
       PROVE  \E e \in s2.world : e.root = r /\ e.pkg = c /\ Kept(e) = c
  <2> DEFINE e == at(r, c)
  <2>1. e \in W /\ e.root = r /\ e.pkg = c /\ Kept(e) = c
    BY <1>2, <1>4
  <2> HIDE DEF e
  <2>2. \A op \in S : ~Goes(op, e)
    BY <2>1, <1>17 DEF Untouched, Goes
  <2>3. Open(s1) /\ e \in s1.world
    BY <1>9, <1>13, <1>17, <2>1, <2>2
  <2>4. \A q \in ToSet(reqs) : ~AsksFor(q, e)
    BY <1>11, <2>2
  <2>5. e \in s2.world
    BY <1>9, <1>17, <2>3, <2>4
  <2> QED BY <2>1, <2>5
<1>18. ASSUME Open(s2), NEW op \in S, op.from # None
       PROVE  \E e \in s2.world : Goes(op, e) /\ e.pkg.ver = op.from.ver
  <2> DEFINE q == inverseRequest(op)
  <2>1. q \in ToSet(reqs) /\ q.root = op.root /\ q.name = op.name /\ q.kind = "downgrade"
    BY <1>10, <1>18
  <2> HIDE DEF q
  <2>2. PICK e \in s2.world : e.chosen /\ AsksFor(q, e)
    BY <1>9, <1>18, <2>1
  <2>3. Goes(op, e)
    BY <2>1, <2>2 DEF AsksFor, Key, Goes
  <2>4. PICK o \in S : o.from # None /\ Goes(o, e) /\ e.pkg.ver = o.from.ver
    BY <1>16, <1>18, <2>2
  <2>5. o = op
    BY <2>3, <2>4 DEF Goes, Reversible, OneOpEach
  <2> QED BY <2>3, <2>4, <2>5
<1>19. Open(s2) => PutBack(s2.world, inst, view, S)
  BY <1>16, <1>17, <1>18 DEF PutBack
<1> QED BY <1>9, <1>19 DEF s2, s1, s0, keys, given

(* In such a world a package is there, in some build, exactly when it was  *)
(* there before.                                                           *)
LEMMA PutBackAlike ==
  ASSUME NEW inst, Packages(inst), NEW view \in SUBSET Root,
         NEW S \in SUBSET Planned(view), Reversible(S),
         NEW world, WorldOK(world, Seen(inst, view), view), PutBack(world, inst, view, S)
  PROVE  /\ Before(inst, S) \in [Root -> SUBSET Catalog]
         /\ \A e \in world : \E c \in Before(inst, S)[e.root] : c.name = e.pkg.name /\ c.ver = e.pkg.ver
         /\ \A r \in view : \A c \in Before(inst, S)[r] :
              \E e \in world : e.root = r /\ e.pkg.name = c.name /\ e.pkg.ver = c.ver
<1> DEFINE B == Before(inst, S)
<1>1. \A r \in Root : \A c : c \in B[r] <=>
        \/ c \in inst[r] /\ Untouched(c, r, S)
        \/ \E op \in S : op.root = r /\ op.from # None /\ c = op.from
  BY DEF Before
<1>2. \A op \in S : op.from \in Catalog \cup {None} /\ op.root \in view
  BY DEF Planned, Operation
<1>3. B \in [Root -> SUBSET Catalog]
  <2>1. \A r \in Root : B[r] \in SUBSET Catalog
    BY <1>1, <1>2 DEF Packages
  <2>2. B = [r \in Root |-> B[r]]
    BY DEF Before
  <2> HIDE DEF B
  <2> QED BY <2>1, <2>2
<1> HIDE DEF B
<1>4. \A e \in world : e.root \in view /\ e.root \in Root
  BY DEF WorldOK, Entry
<1>5. ASSUME NEW e \in world PROVE \E c \in B[e.root] : c.name = e.pkg.name /\ c.ver = e.pkg.ver
  <2>1. CASE e.pkg \in inst[e.root] /\ Untouched(e.pkg, e.root, S)
    BY <2>1, <1>1, <1>4
  <2>2. CASE \E op \in S : op.from # None /\ Goes(op, e) /\ e.pkg.ver = op.from.ver
    <3>1. PICK op \in S : op.from # None /\ Goes(op, e) /\ e.pkg.ver = op.from.ver
      BY <2>2
    <3>2. op.from \in B[e.root] /\ op.from.name = e.pkg.name
      BY <3>1, <1>1, <1>4 DEF Goes, Reversible
    <3> QED BY <3>1, <3>2
  <2> QED BY <2>1, <2>2 DEF PutBack
<1>6. ASSUME NEW r \in view, NEW c \in B[r]
      PROVE  \E e \in world : e.root = r /\ e.pkg.name = c.name /\ e.pkg.ver = c.ver
  <2>1. CASE c \in inst[r] /\ Untouched(c, r, S)
    BY <2>1 DEF PutBack
  <2>2. CASE \E op \in S : op.root = r /\ op.from # None /\ c = op.from
    <3>1. PICK op \in S : op.root = r /\ op.from # None /\ c = op.from
      BY <2>2
    <3>2. PICK e \in world : Goes(op, e) /\ e.pkg.ver = op.from.ver
      BY <3>1 DEF PutBack
    <3> QED BY <3>1, <3>2 DEF Goes, Reversible
  <2> QED BY <2>1, <2>2, <1>1
<1> QED BY <1>3, <1>5, <1>6 DEF B

(* So it has what it needs, when what was there before had.                *)
LEMMA PutBackMet ==
  ASSUME OneBuildPerVersion, NEW inst, Packages(inst), NEW view \in SUBSET Root,
         NEW refs \in SUBSET view, refs # None,
         NEW S \in SUBSET Planned(view), Reversible(S), Whole(Before(inst, S)),
         NEW world, WorldOK(world, Seen(inst, view), view), PutBack(world, inst, view, S)
  PROVE  SelfMet(world, refs)
<1> DEFINE B == Before(inst, S)
<1>1. /\ B \in [Root -> SUBSET Catalog]
      /\ \A e \in world : \E c \in B[e.root] : c.name = e.pkg.name /\ c.ver = e.pkg.ver
      /\ \A r \in view : \A c \in B[r] :
           \E e \in world : e.root = r /\ e.pkg.name = c.name /\ e.pkg.ver = c.ver
  BY PutBackAlike
<1>2. Whole(B)
  OBVIOUS
<1> HIDE DEF B
<1>3. \A r \in Root : \A c \in B[r] : Served(B, r, c)
  BY <1>1, <1>2, WholeMeans
<1>4. \A e \in world : e.root \in view /\ e.root \in Root /\ e.pkg \in Catalog
  BY DEF WorldOK, Entry
<1>5. ASSUME NEW e \in world, NEW dep \in e.pkg.deps, routeRoot(dep, e.root, refs) # None
      PROVE  Satisfied(world, e, dep, refs)
  <2> DEFINE place == Place(dep, e.root)
  <2>1. PICK c \in B[e.root] : c.name = e.pkg.name /\ c.ver = e.pkg.ver
    BY <1>1
  <2>2. c \in Catalog /\ Served(B, e.root, c)
    BY <1>1, <1>3, <1>4, <2>1
  <2>3. c.arch = e.pkg.arch /\ c.deps = e.pkg.deps
    BY <1>4, <2>1, <2>2, KeptAlike
  <2>4. routeRoot(dep, e.root, refs) = place /\ place \in view
    BY <1>4, <1>5 DEF routeRoot, Place
  <2>5. PICK d \in B[place] : satisfies(d, dep, e.pkg.arch)
    BY <2>2, <2>3, <1>5 DEF Served
  <2>6. PICK f \in world : f.root = place /\ f.pkg.name = d.name /\ f.pkg.ver = d.ver
    BY <1>1, <2>4, <2>5
  <2>7. d \in Catalog
    BY <1>1, <2>4, <2>5
  <2>8. satisfies(f.pkg, dep, e.pkg.arch)
    BY <1>4, <2>5, <2>6, <2>7, KeptAlike
  <2> HIDE DEF place
  <2> QED BY <2>4, <2>6, <2>8 DEF Satisfied, worldSatisfiesInRoot
<1> QED BY <1>5 DEF SelfMet

(* and nothing in it takes another's place (applyReplaces).                *)
LEMMA PutBackStays ==
  ASSUME NEW inst, Packages(inst), NEW view \in SUBSET Root,
         NEW S \in SUBSET Planned(view), Reversible(S), Yields(inst, S),
         NEW world, WorldOK(world, Seen(inst, view), view), PutBack(world, inst, view, S)
  PROVE  takeovers(world) = {}
<1> SUFFICES ASSUME NEW p \in world, NEW v \in world, replacesIn(p, v) PROVE FALSE
  BY DEF takeovers
<1>1. /\ p.root = v.root /\ p.chosen /\ p.pkg \in Catalog /\ v.was # None
      /\ v.was \in Catalog /\ v.pkg \in Catalog /\ v.was.name = v.pkg.name
      /\ \E r \in p.pkg.replaces : r.name = v.pkg.name /\ v.was.ver \in r.vers
  BY TakeoverFacts
<1>2. PICK q \in p.pkg.replaces : q.name = v.pkg.name /\ v.was.ver \in q.vers
  BY <1>1
<1>3. PICK op \in S : op.from # None /\ Goes(op, p) /\ p.pkg.ver = op.from.ver
  BY <1>1 DEF PutBack
<1>4. op.from.name = p.pkg.name
  BY <1>3 DEF Goes, Reversible
<1>5. v.was \in inst[op.root]
  <2>1. v.root \in view /\ v.root \in Root /\ Remembers(v, Seen(inst, view))
    BY DEF WorldOK, Entry
  <2>2. v.was \in Seen(inst, view)[v.root]
    BY <1>1, <2>1 DEF Remembers
  <2>3. Seen(inst, view)[v.root] = inst[v.root]
    BY <2>1 DEF Seen
  <2> QED BY <2>2, <2>3, <1>1, <1>3 DEF Goes
<1>6. PICK o \in S : o.root = op.root /\ o.name = v.was.name /\ o.from = None
  BY <1>1, <1>2, <1>3, <1>4, <1>5 DEF Yields
<1>7. Goes(o, v)
  BY <1>1, <1>3, <1>6 DEF Goes
<1>8. CASE Untouched(v.pkg, v.root, S)
  BY <1>6, <1>7, <1>8 DEF Untouched, Goes
<1>9. CASE \E a \in S : a.from # None /\ Goes(a, v)
  BY <1>6, <1>7, <1>9 DEF Goes, Reversible, OneOpEach
<1> QED BY <1>8, <1>9 DEF PutBack

(* The requests of an undo: one for each operation it reverses.            *)
Reverses(reqs, S) == \A q : q \in ToSet(reqs) <=> \E op \in S : q = inverseRequest(op)

(* A plan, if it is not refused, leads to a world in which S is reversed.  *)
LeadsBack(plan, inst, view, S) ==
  plan.reason = None =>
    \E world : /\ WorldOK(world, Seen(inst, view), view)
               /\ ToSet(plan.ops) = Changes(world, Seen(inst, view))
               /\ PutBack(world, inst, view, S)

(* The plan of an undo leads to such a world.                              *)
LEMMA UndoLeads ==
  ASSUME OneBuildPerVersion, NEW inst, Packages(inst), NEW view \in SUBSET Root,
         NEW refs \in SUBSET view, refs # None,
         NEW S \in SUBSET Planned(view), Reversible(S), Whole(Before(inst, S)), Yields(inst, S),
         NEW reqs \in Seq(Requests(view)), Reverses(reqs, S),
         NEW available \in SUBSET Catalog, NEW conf, NEW opts, opts.cascade = FALSE
  PROVE  LeadsBack(Resolve(reqs, Seen(inst, view), available, refs, conf, opts), inst, view, S)
<1> DEFINE given == Seen(inst, view)
           cascade == opts.cascade
           keys == Keys(Asked(reqs, "remove"))
           s2 == seedGoals(applyRemovals(Fresh(given), keys, refs, cascade), reqs, available)
           s3 == resolveForward(s2, available, refs, conf)
           s4 == applyReplaces(s3, conf)
           allowed == ToSet(Keys(Asked(reqs, "downgrade")))
           s5 == checkConsistency(s4, refs, opts, allowed)
           plan == buildPlan(s5, given, refs)
<1>1. Given(given, view) /\ cascade = FALSE
  BY SeenGiven
<1>2. plan = Resolve(reqs, given, available, refs, conf, opts)
  BY DEF Resolve
<1> HIDE DEF cascade
<1>3. /\ Sound(s2, given, view, {})
      /\ Open(s2) => PutBack(s2.world, inst, view, S)
  <2>1. \A q : q \in ToSet(reqs) <=> \E op \in S : q = inverseRequest(op)
    BY DEF Reverses
  <2> QED BY <1>1, <2>1, GoalsPutBack
<1> HIDE DEF s2
<1>4. Sound(s3, given, view, {})
  BY <1>3, ForwardSound
<1>5. PutBack(s2.world, inst, view, S) => s3.world = s2.world
  <2> SUFFICES ASSUME PutBack(s2.world, inst, view, S) PROVE s3.world = s2.world
    OBVIOUS
  <2>1. WorldOK(s2.world, given, view)
    BY <1>3 DEF Sound
  <2> DEFINE w == s2.world
  <2> HIDE DEF w
  <2>2. SelfMet(w, refs)
    BY <2>1, PutBackMet DEF w
  <2>3. SelfMet(s2.world, refs)
    BY <2>2 DEF w
  <2>4. refs = None \/ refs \in SUBSET view
    OBVIOUS
  <2>5. Sound(s2, given, view, {})
    BY <1>3
  <2> DEFINE u == resolveForward(s2, available, refs, conf)
  <2> HIDE DEF given
  <2>6. Sound(u, given, view, {}) /\ u.world = s2.world
    BY <2>3, <2>4, <2>5, ForwardSettled
  <2> QED BY <2>6
<1>6. Open(s3) => PutBack(s2.world, inst, view, S)
  <2>1. ~Open(s2) => s3 = s2
    BY NoGoalNoWork
  <2> QED BY <2>1, <1>3
<1> HIDE DEF s3
<1>7. s3 \in State(view) /\ WorldOK(s3.world, given, view)
  BY <1>4 DEF Sound
<1>8. s4 \in State(view) /\ WorldOK(s4.world, given, view)
  BY <1>7, ReplacesSound
<1>9. (Open(s4) => Open(s3)) /\ (takeovers(s3.world) = {} => s4.world = s3.world)
  BY <1>7 DEF applyReplaces, State, Open
<1> HIDE DEF s4, allowed
<1>10. s5 \in State(view) /\ s5.world = s4.world /\ (Open(s5) => Open(s4))
  <2>1. s5 = checkConsistency(s4, refs, opts, allowed)
    OBVIOUS
  <2> HIDE DEF s5
  <2>2. s5 \in State(view)
    BY <2>1, <1>8, CheckedOK
  <2>3. s5.world = s4.world /\ (Open(s5) => Open(s4))
    BY <2>1, <1>8, CheckedWorld
  <2> QED BY <2>2, <2>3
<1> HIDE DEF s5, given
<1>11. plan.reason = None => Open(s5) /\ ToSet(plan.ops) = Changes(s5.world, given)
  BY <1>1, <1>8, <1>10, PlanOK
<1> HIDE DEF plan
<1>12. ASSUME plan.reason = None
       PROVE  /\ WorldOK(s3.world, given, view) /\ ToSet(plan.ops) = Changes(s3.world, given)
              /\ PutBack(s3.world, inst, view, S)
  <2>1. Open(s5) /\ Open(s4) /\ Open(s3)
    BY <1>9, <1>10, <1>11, <1>12
  <2>2. s3.world = s2.world /\ PutBack(s3.world, inst, view, S)
    BY <2>1, <1>5, <1>6
  <2> DEFINE w == s3.world
  <2> HIDE DEF w
  <2>3. takeovers(w) = {}
    BY <2>2, <1>7, PutBackStays DEF w, given
  <2>4. s5.world = w
    BY <2>3, <1>9, <1>10 DEF w
  <2> QED BY <2>2, <2>4, <1>7, <1>11, <1>12 DEF w
<1> QED BY <1>2, <1>12 DEF given, LeadsBack

(* What an undo should leave.                                              *)
BroughtBack(O, inst, S) ==
  /\ \A op \in S : VersionsOf(O, op) = IF op.from = None THEN {} ELSE {op.from.ver}
  /\ \A r \in Root : \A c \in inst[r] : Untouched(c, r, S) => c \in O[r]

(* Running a plan that leads to such a world leaves it.                    *)
LEMMA PutBackRuns ==
  ASSUME NEW inst, Packages(inst), NEW view \in SUBSET Root,
         NEW S \in SUBSET Planned(view), Reversible(S),
         NEW world, WorldOK(world, Seen(inst, view), view), PutBack(world, inst, view, S),
         NEW ops \in Seq(Planned(Root)), ToSet(ops) = Changes(world, Seen(inst, view))
  PROVE  BroughtBack(FoldLeft(runOp, inst, ops), inst, S)
<1> DEFINE O == Effect(inst, Changes(world, Seen(inst, view)))
<1>1. FoldLeft(runOp, inst, ops) = O
  <2>1. OneOpEach(ToSet(ops))
    BY SeenGiven, OneChangeEach
  <2> QED BY <2>1, RunEffect DEF Packages
<1>2. /\ \A r \in Root \ view : O[r] = inst[r]
      /\ \A r \in view : \A c : c \in O[r] <=> \E e \in world : e.root = r /\ c = Kept(e)
  BY AchievedEffect
<1> HIDE DEF O
<1>3. \A e \in world : e.root \in view /\ Kept(e).name = e.pkg.name /\ Kept(e).ver = e.pkg.ver
  <2> TAKE e \in world
  <2>1. e \in Entry(view) /\ Remembers(e, Seen(inst, view)) /\ Given(Seen(inst, view), view)
    BY SeenGiven DEF WorldOK
  <2>2. e.root \in view
    BY <2>1 DEF Entry
  <2> QED BY <2>1, <2>2, KeptSame
<1>4. OneEach(world)
  BY DEF WorldOK
<1>5. ASSUME NEW op \in S PROVE VersionsOf(O, op) = IF op.from = None THEN {} ELSE {op.from.ver}
  <2>1. op.root \in view
    BY DEF Planned
  <2>2. \A v : v \in VersionsOf(O, op) <=> \E e \in world : Goes(op, e) /\ v = e.pkg.ver
    <3>1. \A v : v \in VersionsOf(O, op) <=> \E c \in O[op.root] : c.name = op.name /\ v = c.ver
      BY DEF VersionsOf
    <3>2. \A c : c \in O[op.root] <=> \E e \in world : e.root = op.root /\ c = Kept(e)
      BY <2>1, <1>2
    <3> QED BY <3>1, <3>2, <1>3 DEF Goes
  <2>3. CASE op.from = None
    <3>1. ASSUME NEW e \in world, Goes(op, e) PROVE FALSE
      <4>1. ~Untouched(e.pkg, e.root, S)
        BY <3>1 DEF Goes, Untouched
      <4>2. PICK o \in S : o.from # None /\ Goes(o, e)
        BY <4>1 DEF PutBack
      <4> QED BY <4>2, <3>1, <2>3 DEF Goes, Reversible, OneOpEach
    <3> QED BY <3>1, <2>2, <2>3
  <2>4. CASE op.from # None
    <3>1. PICK e \in world : Goes(op, e) /\ e.pkg.ver = op.from.ver
      BY <2>4 DEF PutBack
    <3>2. \A f \in world : Goes(op, f) => f = e
      BY <3>1, <1>4 DEF Goes, OneEach
    <3>3. \A v : v \in VersionsOf(O, op) <=> v = op.from.ver
      BY <2>2, <3>1, <3>2
    <3> QED BY <3>3, <2>4
  <2> QED BY <2>3, <2>4
<1>6. ASSUME NEW r \in Root, NEW c \in inst[r], Untouched(c, r, S) PROVE c \in O[r]
  <2>1. CASE r \in view
    <3>1. PICK e \in world : e.root = r /\ Kept(e) = c
      BY <1>6, <2>1 DEF PutBack
    <3> QED BY <3>1, <2>1, <1>2
  <2>2. CASE r \notin view
    BY <2>2, <1>2, <1>6
  <2> QED BY <2>1, <2>2
<1> QED BY <1>1, <1>5, <1>6 DEF BroughtBack

(* What an undo at r reverses (cmdUndo).                                   *)
Undone(r) == ToSet(last[r].ops)

(* Nothing stands in the way of an undo: the command reaches every root    *)
(* the transaction was run in, and what was there before it would be       *)
(* complete beside what is there now.                                      *)
Undoable ==
  \A p \in Process : job[p] # None /\ job[p].verb = "undo" =>
    LET S == Undone(job[p].at)
    IN /\ \A op \in S : op.root \in Reach(job[p].at)
       /\ Whole(Before(installed, S)) /\ Yields(installed, S)

(* Recorded and waiting operations can be reversed, and an undo that waits *)
(* would bring everything back.                                            *)
UndoInv ==
  /\ IInv
  /\ \A r \in Root : last[r] # None => Reversible(Undone(r))
  /\ \A p \in Process : job[p] # None => Reversible(ToSet(job[p].ops))
  /\ \A p \in Process : job[p] # None /\ job[p].verb = "undo" =>
       BroughtBack(FoldLeft(runOp, installed, job[p].ops), installed, Undone(job[p].at))

(* What a resolution plans can be reversed (removal, forward).             *)
LEMMA ChangesReversible ==
  ASSUME NEW inst, NEW view, Given(inst, view), NEW world, WorldOK(world, inst, view)
  PROVE  Reversible(Changes(world, inst))
<1>1. OneOpEach(Changes(world, inst))
  BY OneChangeEach
<1>2. None \notin Catalog
  BY CommandsAssumption
<1>3. ASSUME NEW e \in removedEntries(world, inst)
      PROVE  LET op == removal(e)
             IN op.kind # "install" /\ op.from # None /\ op.from.name = op.name
  <2>1. e \in InstalledWorld(inst) /\ WorldOK(InstalledWorld(inst), inst, view)
    BY <1>3, InstalledEntries DEF removedEntries
  <2>2. e.pkg \in Catalog
    BY <2>1 DEF WorldOK, Entry
  <2> QED BY <1>2, <2>2 DEF removal
<1>4. ASSUME NEW e \in forwardEntries(world)
      PROVE  LET op == forward(e)
             IN (op.kind = "install" <=> op.from = None) /\ (op.from # None => op.from.name = op.name)
  <2>1. e \in world /\ e.chosen
    BY <1>4 DEF forwardEntries
  <2>2. e.was = None \/ e.was.name = e.pkg.name
    BY <2>1 DEF WorldOK, Remembers
  <2> QED BY <2>2 DEF forward, OpKind
<1>5. ASSUME NEW op \in Changes(world, inst)
      PROVE  (op.kind = "install" <=> op.from = None) /\ (op.from # None => op.from.name = op.name)
  <2>1. CASE \E e \in removedEntries(world, inst) : op = removal(e)
    BY <2>1, <1>3
  <2>2. CASE \E e \in forwardEntries(world) : op = forward(e)
    BY <2>2, <1>4
  <2> QED BY <2>1, <2>2 DEF Changes
<1> QED BY <1>1, <1>5 DEF Reversible

(* So can what a command shows.                                            *)
LEMMA ShownReversible ==
  ASSUME IInv, NEW p \in Process, Shows(p)
  PROVE  /\ job' = [job EXCEPT ![p] = job'[p]] /\ installed' = installed /\ last' = last
         /\ Reversible(ToSet(job'[p].ops))
<1>1. PICK verb \in Verbs, at \in Root, asked \in Seq(Name), separate \in BOOLEAN :
        \E plan : Valid(plan, at, verb = "upgrade here") /\ Show(p, verb, at, asked, plan, separate)
  BY DEF Shows
<1>2. PICK plan : Valid(plan, at, verb = "upgrade here") /\ Show(p, verb, at, asked, plan, separate)
  BY <1>1
<1> DEFINE here == verb = "upgrade here"
           view == View(at, here)
           given == Seen(installed, view)
           j == [verb |-> verb, at |-> at, asked |-> asked, ops |-> plan.ops,
                 auths |-> plan.auths, separate |-> separate]
<1>3. plan.reason = None /\ plan.ops # << >> /\ job' = [job EXCEPT ![p] = j]
      /\ installed' = installed /\ last' = last
  BY <1>2 DEF Show
<1>4. j.ops = plan.ops
  OBVIOUS
<1> HIDE DEF j
<1>5. job'[p] = j
  BY <1>3 DEF IInv, TypeOK
<1>6. Given(given, view)
  BY InView DEF IInv
<1>7. Achieves(plan.ops, given, view, Refs(at, here))
  BY <1>2, <1>3 DEF Valid, Resolution
<1>8. PICK world : WorldOK(world, given, view) /\ ToSet(plan.ops) = Changes(world, given)
  BY <1>7 DEF Achieves
<1>9. Reversible(ToSet(plan.ops))
  <2> HIDE DEF given, view
  <2>1. Reversible(Changes(world, given))
    BY <1>6, <1>8, ChangesReversible
  <2> QED BY <1>8, <2>1
<1> QED BY <1>3, <1>4, <1>5, <1>9

(* What an undo shows brings everything back.                              *)
LEMMA UndoBrings ==
  ASSUME OneBuildPerVersion, IInv, NEW p \in Process, NEW at \in Stand, cmdUndo(p, at),
         Reversible(Undone(at)), \A op \in Undone(at) : op.root \in Reach(at),
         Whole(Before(installed, Undone(at))), Yields(installed, Undone(at))
  PROVE  BroughtBack(FoldLeft(runOp, installed, job'[p].ops), installed, Undone(at)) /\ job'[p].at = at
<1>1. at \in Root /\ TypeOK /\ Reach(at) \in SUBSET Root
  BY CommandsAssumption DEF IInv, Reach
<1>2. last[at].ops \in Seq(NamedOps)
  BY <1>1 DEF cmdUndo, IInv
<1>3. PICK roots \in SetToSeqs(Reach(at)) :
        Show(p, "undo", at, << >>, UndoPlan(at, roots), last[at].cross)
  BY DEF cmdUndo
<1> DEFINE avail == availableSet(at) \cup archiveCandidates(at)
           reqs == UndoRequests(at, roots)
           S == Undone(at)
           view == Reach(at)
           refs == Below[at]
           conf == configured[at]
           given == Seen(installed, view)
           plan == Resolve(reqs, given, avail, refs, conf, Backward)
           shown == UndoPlan(at, roots)
<1>4. reqs \in Seq(Requests(view)) /\ \A q : q \in ToSet(reqs) <=> \E op \in S : q = inverseRequest(op)
  BY <1>1, <1>2, UndoRequestsType, UndoAsks DEF Undone
<1>5. avail \in SUBSET Catalog
  BY <1>1, Candidates
<1>6. S \in SUBSET Planned(view)
  <2>1. S \in SUBSET NamedOps
    BY <1>2, SetOfSeq DEF Undone
  <2>2. \A op \in S : op.root \in view
    OBVIOUS
  <2> HIDE DEF S, view
  <2> QED BY <2>1, <2>2 DEF NamedOps, Planned
<1>7. /\ view \in SUBSET Root /\ refs \in SUBSET view /\ refs # None
      /\ Packages(installed) /\ Given(given, view)
  <2>1. View(at, FALSE) = Reach(at) /\ Refs(at, FALSE) = Below[at]
    BY DEF View, Refs
  <2>2. Below[at] \in SUBSET Root /\ Below[at] # None
    BY <1>1, CommandsAssumption, ResolverAssumption
  <2>3. Below[at] \in SUBSET view
    BY DEF Reach
  <2> QED BY <1>1, <2>1, <2>2, <2>3, InView
<1>8. shown = plan \/ shown = NoPlan("alternate-upgrade")
  <2>1. gatherInstalledByRoot(at) = given
    BY DEF gatherInstalledByRoot, Seen
  <2>2. plan = resolveCrossRoot(at, reqs, avail, Backward)
    BY <2>1 DEF resolveCrossRoot
  <2> QED BY <2>2 DEF UndoPlan, refuseAlternateUpgrade
<1>9. /\ shown.reason = None
      /\ job' = [job EXCEPT ![p] = [verb |-> "undo", at |-> at, asked |-> << >>, ops |-> shown.ops,
                                    auths |-> shown.auths, separate |-> last[at].cross]]
  BY <1>3 DEF Show
<1>10. job'[p].ops = shown.ops /\ job'[p].at = at
  BY <1>9 DEF IInv, TypeOK
<1>11. shown = plan
  <2>1. NoPlan("alternate-upgrade").reason # None
    BY CommandsAssumption DEF NoPlan
  <2> QED BY <1>8, <1>9, <2>1
<1> HIDE DEF reqs, avail, shown, conf, given, plan
<1>12. plan \in PlanType(view)
  <2> HIDE DEF view, refs
  <2>1. Resolution(Resolve(reqs, given, avail, refs, conf, Backward), given, view, refs)
    BY <1>4, <1>5, <1>7, ResolveOK
  <2> QED BY <2>1 DEF Resolution, plan
<1>13. \E world : /\ WorldOK(world, given, view) /\ ToSet(plan.ops) = Changes(world, given)
                  /\ PutBack(world, installed, view, S)
  <2> DEFINE opts == Backward
  <2>1. opts.cascade = FALSE
    BY DEF Backward, Options
  <2>2. plan.reason = None /\ Reversible(S) /\ Whole(Before(installed, S)) /\ Yields(installed, S)
    BY <1>9, <1>11
  <2>3. reqs \in Seq(Requests(view)) /\ Reverses(reqs, S)
    BY <1>4 DEF Reverses
  <2>4. plan = Resolve(reqs, Seen(installed, view), avail, refs, conf, opts)
    BY DEF plan, given
  <2> HIDE DEF view, refs, S, opts
  <2> DEFINE u == Resolve(reqs, Seen(installed, view), avail, refs, conf, opts)
  <2>5. Packages(installed) /\ view \in SUBSET Root /\ refs \in SUBSET view /\ refs # None
    BY <1>7
  <2>6. S \in SUBSET Planned(view) /\ avail \in SUBSET Catalog
    BY <1>5, <1>6
  <2>7. LeadsBack(u, installed, view, S)
    BY <2>1, <2>2, <2>3, <2>5, <2>6, UndoLeads
  <2> HIDE DEF u
  <2>8. plan = u
    BY <2>4 DEF u
  <2> QED BY <2>2, <2>7, <2>8 DEF given, LeadsBack
<1>14. plan.ops \in Seq(Planned(Root))
  <2>1. Planned(view) \in SUBSET Planned(Root)
    BY <1>7 DEF Planned
  <2> DEFINE ops == plan.ops
             P == Planned(view)
             Q == Planned(Root)
  <2>2. ops \in Seq(P) /\ P \in SUBSET Q
    BY <1>12, <2>1 DEF PlanType
  <2> HIDE DEF ops, P, Q
  <2>3. ops \in Seq(Q)
    BY <2>2
  <2> QED BY <2>3 DEF ops, Q
<1>15. BroughtBack(FoldLeft(runOp, installed, plan.ops), installed, S)
  <2> DEFINE ops == plan.ops
  <2>0. PICK world : /\ WorldOK(world, given, view) /\ ToSet(plan.ops) = Changes(world, given)
                     /\ PutBack(world, installed, view, S)
    BY <1>13
  <2>1. ops \in Seq(Planned(Root)) /\ ToSet(ops) = Changes(world, given) /\ Reversible(S)
    BY <2>0, <1>14
  <2> HIDE DEF view, S, ops
  <2>2. BroughtBack(FoldLeft(runOp, installed, ops), installed, S)
    BY <1>6, <1>7, <2>0, <2>1, PutBackRuns DEF given
  <2> QED BY <2>2 DEF ops
<1> QED BY <1>10, <1>11, <1>15

(* No other step shows an undo.                                            *)
LEMMA OtherUndo ==
  ASSUME IInv, Next
  PROVE  \/ \E p \in Process, at \in Stand : cmdUndo(p, at) /\ Shows(p)
         \/ \E p \in Process : Shows(p) /\ job'[p].verb # "undo"
         \/ \E p \in Process : Execute(p) \/ Abandon(p)
         \/ UNCHANGED <<installed, job, last>>
<1>1. ASSUME NEW p \in Process, NEW verb, NEW at, NEW asked, NEW plan, NEW separate,
             Show(p, verb, at, asked, plan, separate), verb # "undo"
      PROVE  job'[p].verb # "undo"
  <2> DEFINE j == [verb |-> verb, at |-> at, asked |-> asked, ops |-> plan.ops,
                   auths |-> plan.auths, separate |-> separate]
  <2>1. j.verb = verb
    OBVIOUS
  <2>2. job' = [job EXCEPT ![p] = j]
    BY <1>1 DEF Show
  <2> HIDE DEF j
  <2>3. job'[p] = j
    BY <2>2 DEF IInv, TypeOK
  <2> QED BY <1>1, <2>1, <2>3
<1>2. ASSUME NEW p \in Process, NEW at \in Stand, NEW args \in Arguments, NEW files \in FileChoices,
             cmdInstall(p, at, args, files)
      PROVE  job'[p].verb # "undo"
  BY <1>1, <1>2 DEF cmdInstall
<1>3. ASSUME NEW p \in Process, NEW at \in Stand, NEW args \in Arguments, NEW noRecurse \in BOOLEAN,
             cmdUpgrade(p, at, args, noRecurse)
      PROVE  job'[p].verb # "undo"
  <2>1. \E verb \in {"upgrade here", "upgrade"} : \E plan : Show(p, verb, at, args, plan, FALSE)
    BY <1>3 DEF cmdUpgrade
  <2> QED BY <1>1, <2>1
<1>4. ASSUME NEW p \in Process, NEW at \in Stand, NEW args \in Arguments, cmdUninstall(p, at, args)
      PROVE  job'[p].verb # "undo"
  BY <1>1, <1>4 DEF cmdUninstall
<1>5. ASSUME NEW p \in Process, NEW at \in Stand, NEW c \in archiveCandidates(at), cmdDowngrade(p, at, c.name, c.ver)
      PROVE  job'[p].verb # "undo"
  BY <1>1, <1>5 DEF cmdDowngrade
<1>6. ASSUME NEW c, Publish(c) PROVE UNCHANGED <<installed, job, last>>
  BY <1>6 DEF Publish
<1>7. ASSUME NEW at, NEW repo, removeRepository(at, repo) \/ addRepository(at, repo)
      PROVE  UNCHANGED <<installed, job, last>>
  BY <1>7 DEF removeRepository, addRepository
<1> QED BY <1>2, <1>3, <1>4, <1>5, <1>6, <1>7,
           InstallShows, UpgradeShows, UninstallShows, DowngradeShows, UndoShows DEF Next

(* What an undo shows.                                                     *)
LEMMA UndoShown ==
  ASSUME IInv, NEW p \in Process, NEW at \in Stand, cmdUndo(p, at)
  PROVE  job'[p].verb = "undo" /\ job'[p].at = at
<1>1. PICK roots \in SetToSeqs(Reach(at)) :
        Show(p, "undo", at, << >>, UndoPlan(at, roots), last[at].cross)
  BY DEF cmdUndo
<1> DEFINE j == [verb |-> "undo", at |-> at, asked |-> << >>, ops |-> UndoPlan(at, roots).ops,
                 auths |-> UndoPlan(at, roots).auths, separate |-> last[at].cross]
<1>2. j.verb = "undo" /\ j.at = at
  OBVIOUS
<1>3. job' = [job EXCEPT ![p] = j]
  BY <1>1 DEF Show
<1> HIDE DEF j
<1>4. job'[p] = j
  BY <1>3 DEF IInv, TypeOK
<1> QED BY <1>2, <1>4

(* What a command shows keeps UndoInv.                                     *)
LEMMA UndoInvShown ==
  ASSUME UndoInv, IInv', NEW p \in Process, Shows(p),
         \/ job'[p].verb # "undo"
         \/ job'[p] = None
         \/ BroughtBack(FoldLeft(runOp, installed, job'[p].ops), installed, Undone(job'[p].at))
  PROVE  UndoInv'
<1>1. /\ job' = [job EXCEPT ![p] = job'[p]] /\ installed' = installed /\ last' = last
      /\ Reversible(ToSet(job'[p].ops))
  BY ShownReversible DEF UndoInv
<1>2. \A q \in Process : q # p => job'[q] = job[q]
  BY <1>1 DEF UndoInv, IInv, TypeOK
<1>3. \A r \in Root : last'[r] # None => Reversible(ToSet(last'[r].ops))
  BY <1>1 DEF UndoInv, Undone
<1>4. \A q \in Process : job'[q] # None => Reversible(ToSet(job'[q].ops))
  BY <1>1, <1>2 DEF UndoInv
<1>5. \A q \in Process : job'[q] # None /\ job'[q].verb = "undo" =>
        BroughtBack(FoldLeft(runOp, installed', job'[q].ops), installed', ToSet(last'[job'[q].at].ops))
  BY <1>1, <1>2 DEF UndoInv, Undone
<1> QED BY <1>3, <1>4, <1>5 DEF UndoInv, Undone

(* Every step keeps it, while one plan at a time waits.                    *)
LEMMA UndoStep ==
  ASSUME OneBuildPerVersion, UndoInv, [Next]_vars, Alone, InPlace, Undoable'
  PROVE  UndoInv'
<1>1. IInv'
  BY IInvNext DEF UndoInv
<1>2. job \in [Process -> {None} \cup Shown] /\ IInv
  BY DEF UndoInv, IInv, TypeOK
<1>3. ASSUME installed' = installed, last' = last, \A p \in Process : job'[p] \in {None, job[p]}
      PROVE  UndoInv'
  BY <1>1, <1>3 DEF UndoInv, Undone
<1>4. ASSUME NEW p \in Process, NEW at \in Stand, cmdUndo(p, at), Shows(p) PROVE UndoInv'
  <2>1. CASE job'[p] = None
    BY <1>1, <1>4, <2>1, UndoInvShown
  <2>2. CASE job'[p] # None
    <3>1. at \in Root /\ last[at] # None
      BY <1>4, CommandsAssumption DEF cmdUndo
    <3>2. job'[p].verb = "undo" /\ job'[p].at = at
      BY <1>2, <1>4, UndoShown
    <3>3. installed' = installed /\ last' = last
      BY <1>2, <1>4, ShownReversible
    <3> DEFINE S == Undone(at)
    <3>4. S = ToSet(last'[at].ops)
      BY <3>3 DEF Undone
    <3>5. /\ \A op \in S : op.root \in Reach(at)
          /\ Whole(Before(installed, S)) /\ Yields(installed, S)
      <4> HIDE DEF S
      <4>1. LET T == ToSet(last'[job'[p].at].ops)
            IN /\ \A op \in T : op.root \in Reach(job'[p].at)
               /\ Whole(Before(installed', T)) /\ Yields(installed', T)
        BY <2>2, <3>2 DEF Undoable, Undone
      <4> QED BY <4>1, <3>2, <3>3, <3>4
    <3>6. Reversible(S)
      BY <3>1 DEF UndoInv
    <3>7. BroughtBack(FoldLeft(runOp, installed, job'[p].ops), installed, S) /\ job'[p].at = at
      BY <1>2, <1>4, <3>5, <3>6, UndoBrings
    <3> QED BY <1>1, <1>4, <3>7, UndoInvShown
  <2> QED BY <2>1, <2>2
<1>5. ASSUME NEW p \in Process, Shows(p), job'[p].verb # "undo" PROVE UndoInv'
  BY <1>1, <1>5, UndoInvShown
<1>6. ASSUME NEW p \in Process, Execute(p) PROVE UndoInv'
  <2> DEFINE ops == Ran(job[p])
  <2>1. /\ job[p] # None /\ job' = [job EXCEPT ![p] = None]
        /\ last' = [r \in Root |-> IF r \in planRoots(ops)
                      THEN [cross |-> CrossRootPlan(job[p]), ops |-> ops] ELSE last[r]]
    BY <1>6 DEF Execute
  <2>2. \A q \in Process : job'[q] = None
    BY <1>2, <2>1 DEF Alone
  <2>3. Reversible(ToSet(ops))
    BY <2>1 DEF UndoInv, InPlace
  <2> HIDE DEF ops
  <2>4. \A r \in Root : last'[r].ops = ops \/ last'[r] = last[r]
    BY <2>1
  <2>5. \A r \in Root : last'[r] # None => Reversible(ToSet(last'[r].ops))
    BY <2>3, <2>4 DEF UndoInv, Undone
  <2> QED BY <1>1, <2>2, <2>5 DEF UndoInv, Undone
<1>7. ASSUME NEW p \in Process, Abandon(p) PROVE UndoInv'
  BY <1>2, <1>3, <1>7 DEF Abandon
<1>8. CASE UNCHANGED <<installed, job, last>>
  BY <1>3, <1>8
<1>9. CASE UNCHANGED vars
  BY <1>3, <1>9 DEF vars
<1> QED BY <1>2, <1>4, <1>5, <1>6, <1>7, <1>8, <1>9, OtherUndo

(* Then running an undo puts every package the last transaction touched    *)
(* back to the version it had and leaves every other alone, while one plan *)
(* at a time waits for the operator, plans run in the roots they were      *)
(* shown for, and nothing stands in the way of the undo (cmdUndo,          *)
(* inverseRequest).                                                        *)
LEMMA UndoesExactly ==
  ASSUME OneBuildPerVersion
  PROVE  Spec /\ [](Alone /\ InPlace /\ Undoable) => UndoRestores
<1>1. Init => UndoInv
  <2> SUFFICES ASSUME Init PROVE UndoInv
    OBVIOUS
  <2>1. (\A p \in Process : job[p] = None) /\ (\A r \in Root : last[r] = None)
    BY DEF Init
  <2> QED BY <2>1, IInvInit DEF UndoInv
<1>2. UndoInv /\ [Next]_vars /\ (Alone /\ InPlace /\ Undoable) /\ (Alone /\ InPlace /\ Undoable)' => UndoInv'
  BY UndoStep
<1>3. ASSUME UndoInv, InPlace, NEW p \in Process, Execute(p), job[p].verb = "undo" PROVE Restored(job[p])
  <2> DEFINE j == job[p]
             S == Undone(j.at)
  <2>1. installed' = FoldLeft(runOp, installed, j.ops)
    BY <1>3 DEF Execute, InPlace
  <2>2. BroughtBack(installed', installed, S)
    BY <1>3, <2>1 DEF UndoInv, Execute
  <2>3. \A r \in Root : \A c \in installed[r] :
          <<r, c.name>> \notin {<<op.root, op.name>> : op \in S} => Untouched(c, r, S)
    BY DEF Untouched
  <2> QED BY <2>2, <2>3 DEF BroughtBack, Restored, Undone
<1>4. UndoInv /\ (Alone /\ InPlace /\ Undoable) /\ [Next]_vars =>
        [\A p \in Process : Execute(p) /\ job[p].verb = "undo" => Restored(job[p])]_vars
  BY <1>3
<1> QED BY <1>1, <1>2, <1>4, PTL DEF Spec, UndoRestores

(* On a system with one root the history makes sure of most of that: what  *)
(* was there before the last transaction was complete.                     *)
Recalls(inst, S) == \A op \in S : op.from # None => op.from \in inst[op.root]

(* An operation replaces what is installed (removal, forward).             *)
LEMMA ChangesRecall ==
  ASSUME NEW inst, NEW view, Given(inst, view), NEW world, WorldOK(world, inst, view)
  PROVE  Recalls(inst, Changes(world, inst))
<1>1. ASSUME NEW e \in removedEntries(world, inst) PROVE removal(e).from \in inst[removal(e).root]
  <2>1. e \in InstalledWorld(inst)
    BY <1>1 DEF removedEntries
  <2>2. \E r \in Root : \E c \in inst[r] : e = [root |-> r, pkg |-> c, chosen |-> FALSE, was |-> c]
    BY <2>1, InstalledEntries
  <2> QED BY <2>2 DEF removal
<1>2. ASSUME NEW e \in forwardEntries(world), forward(e).from # None
      PROVE  forward(e).from \in inst[forward(e).root]
  <2>1. e \in world /\ e.chosen
    BY <1>2 DEF forwardEntries
  <2> QED BY <1>2, <2>1 DEF WorldOK, Remembers, forward
<1> QED BY <1>1, <1>2 DEF Changes, Recalls

(* What was there before the operations is what they were run on.          *)
LEMMA BeforeEffect ==
  ASSUME NEW inst, Packages(inst), NEW S \in SUBSET Planned(Root), Reversible(S), Recalls(inst, S),
         \A op \in S : op.kind = "install" => \A c \in inst[op.root] : c.name # op.name
  PROVE  Before(Effect(inst, S), S) = inst
<1> DEFINE O == Effect(inst, S)
           B == Before(O, S)
<1>1. ASSUME NEW r \in Root, NEW c PROVE c \in B[r] <=> c \in inst[r]
  <2>1. c \in O[r] <=> \/ c \in inst[r] /\ Untouched(c, r, S)
                       \/ \E op \in S : op.root = r /\ op.to # None /\ c = op.to
    BY DEF Effect
  <2>2. c \in B[r] <=> \/ c \in O[r] /\ Untouched(c, r, S)
                       \/ \E op \in S : op.root = r /\ op.from # None /\ c = op.from
    BY DEF Before
  <2> HIDE DEF O, B
  <2>3. ASSUME NEW op \in S, op.root = r, op.to # None, c = op.to PROVE ~Untouched(c, r, S)
    BY <2>3 DEF Untouched, Planned, Named
  <2>4. ASSUME NEW op \in S, op.root = r, op.from # None, c = op.from PROVE c \in inst[r]
    BY <2>4 DEF Recalls
  <2>5. ASSUME c \in inst[r], NEW op \in S, op.root = r, op.name = c.name
        PROVE  op.from # None /\ c = op.from
    <3>1. op.from # None
      BY <2>5 DEF Reversible
    <3>2. op.from \in inst[r] /\ op.from.name = c.name
      BY <2>5, <3>1 DEF Recalls, Reversible
    <3> QED BY <2>5, <3>1, <3>2 DEF Packages
  <2>6. c \in inst[r] /\ ~Untouched(c, r, S) => \E op \in S : op.root = r /\ op.from # None /\ c = op.from
    BY <2>5 DEF Untouched
  <2> QED BY <2>1, <2>2, <2>3, <2>4, <2>6
<1>2. B = [r \in Root |-> B[r]] /\ inst = [r \in Root |-> inst[r]]
  BY DEF Before, Packages
<1> HIDE DEF B
<1>3. \A r \in Root : B[r] = inst[r]
  BY <1>1
<1> QED BY <1>2, <1>3 DEF B

(* Operations of one root have no part in what happens in another.         *)
LEMMA BeforeElsewhere ==
  ASSUME DepsStayHere, NEW inst, NEW next, inst \in [Root -> SUBSET Catalog], next \in [Root -> SUBSET Catalog],
         NEW r \in Root, next[r] = inst[r], Whole(next),
         NEW S \in SUBSET Planned(Root), \A op \in S : op.root = r, Whole(Before(inst, S))
  PROVE  Whole(Before(next, S))
<1> DEFINE A == Before(inst, S)
           B == Before(next, S)
<1>1. A \in [Root -> SUBSET Catalog] /\ B \in [Root -> SUBSET Catalog]
  <2>1. \A op \in S : op.from \in Catalog \cup {None}
    BY DEF Planned, Operation
  <2> QED BY <2>1 DEF Before
<1>2. A[r] = B[r] /\ \A q \in Root : q # r => B[q] = next[q]
  BY DEF Before, Untouched
<1> HIDE DEF A, B
<1>3. \A q \in Root : \A c \in A[q] : Served(A, q, c) /\ Peaceful(A, q, c)
  BY <1>1, WholeMeans DEF A
<1>4. \A q \in Root : \A c \in next[q] : Served(next, q, c) /\ Peaceful(next, q, c)
  BY WholeMeans
<1>5. ASSUME NEW q \in Root, NEW c \in B[q] PROVE Served(B, q, c) /\ Peaceful(B, q, c)
  <2>1. c \in Catalog /\ \A dep \in c.deps : Place(dep, q) = q
    BY <1>1 DEF DepsStayHere, Place
  <2>2. CASE q = r
    <3>1. c \in A[q] /\ Served(A, q, c) /\ Peaceful(A, q, c)
      BY <1>2, <1>3, <1>5, <2>2
    <3> QED BY <1>2, <2>1, <2>2, <3>1 DEF Served, Peaceful
  <2>3. CASE q # r
    <3>1. c \in next[q] /\ Served(next, q, c) /\ Peaceful(next, q, c)
      BY <1>2, <1>4, <1>5, <2>3
    <3> QED BY <1>2, <2>1, <2>3, <3>1 DEF Served, Peaceful
  <2> QED BY <2>2, <2>3
<1>6. Whole(B)
  BY <1>1, <1>5, WholeMeans
<1> QED BY <1>6 DEF B

(* What the last transaction of a root was run on was complete, and what   *)
(* waits replaces what is installed.                                       *)
HistoryInv ==
  /\ \A r \in Root : last[r] # None =>
       (\A op \in Undone(r) : op.root = r) /\ Whole(Before(installed, Undone(r)))
  /\ \A p \in Process : job[p] # None =>
       /\ Recalls(installed, ToSet(job[p].ops))
       /\ job[p].verb = "undo" => last[job[p].at] # None

(* What a command shows replaces what is installed.                        *)
LEMMA ShownRecalls ==
  ASSUME IInv, NEW p \in Process, Shows(p)
  PROVE  Recalls(installed, ToSet(job'[p].ops))
<1>1. PICK verb \in Verbs, at \in Root, asked \in Seq(Name), separate \in BOOLEAN :
        \E plan : Valid(plan, at, verb = "upgrade here") /\ Show(p, verb, at, asked, plan, separate)
  BY DEF Shows
<1>2. PICK plan : Valid(plan, at, verb = "upgrade here") /\ Show(p, verb, at, asked, plan, separate)
  BY <1>1
<1> DEFINE view == View(at, verb = "upgrade here")
           given == Seen(installed, view)
           j == [verb |-> verb, at |-> at, asked |-> asked, ops |-> plan.ops,
                 auths |-> plan.auths, separate |-> separate]
<1>3. plan.reason = None /\ plan.ops # << >> /\ job' = [job EXCEPT ![p] = j]
  BY <1>2 DEF Show
<1>4. j.ops = plan.ops
  OBVIOUS
<1> HIDE DEF j
<1>5. job'[p] = j
  BY <1>3 DEF IInv, TypeOK
<1>6. Given(given, view)
  BY InView DEF IInv
<1>7. Achieves(plan.ops, given, view, Refs(at, verb = "upgrade here"))
  BY <1>2, <1>3 DEF Valid, Resolution
<1>8. PICK world : WorldOK(world, given, view) /\ ToSet(plan.ops) = Changes(world, given)
  BY <1>7 DEF Achieves
<1>9. Recalls(given, ToSet(plan.ops))
  <2> HIDE DEF given, view
  <2>1. Recalls(given, Changes(world, given))
    BY <1>6, <1>8, ChangesRecall
  <2> QED BY <1>8, <2>1
<1>10. \A r \in Root : given[r] \in SUBSET installed[r]
  BY DEF Seen
<1>11. \A op \in ToSet(plan.ops) : op.root \in Root
  <2>1. plan.ops \in Seq(Planned(view))
    BY <1>2 DEF Valid, Resolution, PlanType
  <2>2. ToSet(plan.ops) \in SUBSET Planned(view)
    BY <2>1, SetOfSeq
  <2> QED BY <2>2 DEF Planned, Operation
<1> HIDE DEF given
<1>12. Recalls(installed, ToSet(plan.ops))
  BY <1>9, <1>10, <1>11 DEF Recalls
<1> QED BY <1>4, <1>5, <1>12

(* Every step keeps that, on a system with one root.                       *)
LEMMA HistoryStep ==
  ASSUME DepsStayHere, \A r \in Root : Below[r] = {},
         UndoInv, HistoryInv, WholeInv, WholeInv', [Next]_vars, Alone, InPlace
  PROVE  HistoryInv'
<1>1. job \in [Process -> {None} \cup Shown] /\ IInv /\ IInv'
  BY DEF WholeInv, IInv, TypeOK
<1>2. ASSUME installed' = installed, last' = last, \A p \in Process : job'[p] \in {None, job[p]}
      PROVE  HistoryInv'
  BY <1>2 DEF HistoryInv, Undone
<1>3. ASSUME NEW p \in Process, Shows(p), job'[p] # None /\ job'[p].verb = "undo" => last[job'[p].at] # None
      PROVE  HistoryInv'
  <2>1. /\ job' = [job EXCEPT ![p] = job'[p]] /\ installed' = installed /\ last' = last
        /\ Recalls(installed, ToSet(job'[p].ops))
    BY <1>1, <1>3, ShownReversible, ShownRecalls
  <2>2. \A q \in Process : q # p => job'[q] = job[q]
    BY <1>1, <2>1
  <2>3. \A q \in Process : job'[q] # None =>
          /\ Recalls(installed', ToSet(job'[q].ops))
          /\ job'[q].verb = "undo" => last'[job'[q].at] # None
    BY <1>3, <2>1, <2>2 DEF HistoryInv
  <2> QED BY <2>1, <2>3 DEF HistoryInv, Undone
<1>8. ASSUME NEW p \in Process, NEW at \in Stand, cmdUndo(p, at), Shows(p) PROVE HistoryInv'
  <2>1. last[at] # None
    BY <1>8 DEF cmdUndo
  <2>2. job'[p].at = at
    BY <1>1, <1>8, UndoShown
  <2> QED BY <1>3, <1>8, <2>1, <2>2
<1>4. ASSUME NEW p \in Process, Execute(p) PROVE HistoryInv'
  <2> DEFINE j == job[p]
             ops == j.ops
             S == ToSet(ops)
  <2>1. /\ j # None /\ job' = [job EXCEPT ![p] = None]
        /\ \A op \in S : op.kind = "install" => \A c \in installed[op.root] : c.name # op.name
        /\ installed' = FoldLeft(runOp, installed, ops)
        /\ last' = [r \in Root |-> IF r \in planRoots(ops)
                      THEN [cross |-> CrossRootPlan(j), ops |-> ops] ELSE last[r]]
    BY <1>4 DEF Execute, InPlace
  <2>2. \A q \in Process : job'[q] = None
    BY <1>1, <2>1 DEF Alone
  <2>3. j \in Shown /\ j.at \in Root /\ \A op \in S : op.root = j.at
    <3>1. j \in Shown /\ \A op \in S : op.root \in {j.at} \cup Below[j.at]
      BY <1>1, <2>1 DEF IInv, TypeOK
    <3>2. j.at \in Root
      BY <3>1 DEF Shown
    <3>3. Below[j.at] = {}
      BY <3>2
    <3> HIDE DEF S, j
    <3> QED BY <3>1, <3>2, <3>3
  <2>4. S \in SUBSET Planned(Root) /\ ops \in Seq(Planned(Root))
    <3>1. ops \in Seq(NamedOps)
      BY <1>1, <2>1 DEF IInv
    <3>2. NamedOps = Planned(Root)
      BY DEF NamedOps, Planned, Operation
    <3> DEFINE P == Planned(Root)
    <3>3. ops \in Seq(P)
      BY <3>1, <3>2
    <3> HIDE DEF P
    <3>4. S \in SUBSET P
      BY <3>3, SetOfSeq
    <3> QED BY <3>3, <3>4 DEF P
  <2>5. Reversible(S) /\ Recalls(installed, S) /\ Packages(installed)
    BY <1>1, <2>1 DEF UndoInv, HistoryInv, IInv, TypeOK, Packages
  <2>6. installed' = Effect(installed, S)
    <3>1. installed \in [Root -> SUBSET Catalog] /\ OneOpEach(ToSet(ops))
      BY <2>5 DEF Packages, Reversible
    <3> QED BY <2>1, <2>4, <3>1, RunEffect
  <2>7. Before(installed', S) = installed
    BY <2>1, <2>4, <2>5, <2>6, BeforeEffect
  <2> HIDE DEF ops, j
  <2>8. ASSUME NEW r \in Root, last'[r] # None
        PROVE  LET T == ToSet(last'[r].ops)
               IN (\A op \in T : op.root = r) /\ Whole(Before(installed', T))
    <3>1. CASE r \in planRoots(ops)
      <4>1. last'[r].ops = ops
        BY <2>1, <3>1
      <4>2. r = j.at
        BY <2>3, <3>1 DEF planRoots
      <4> QED BY <2>3, <2>7, <4>1, <4>2 DEF WholeInv
    <3>2. CASE r \notin planRoots(ops)
      <4>1. last'[r] = last[r]
        BY <2>1, <3>2
      <4>2. \A op \in S : op.root # r
        BY <3>2 DEF planRoots
      <4>3. installed'[r] = installed[r]
        BY <1>1, <2>6, <4>2 DEF Effect, Untouched, IInv, TypeOK
      <4> DEFINE T == Undone(r)
      <4>4. (\A op \in T : op.root = r) /\ Whole(Before(installed, T))
        BY <2>8, <4>1 DEF HistoryInv
      <4>5. T \in SUBSET Planned(Root)
        <5>1. last[r].ops \in Seq(NamedOps)
          BY <1>1, <2>8, <4>1 DEF IInv
        <5>2. T \in SUBSET NamedOps
          BY <5>1, SetOfSeq DEF Undone
        <5> QED BY <5>2 DEF NamedOps, Planned, Operation
      <4>6. /\ installed \in [Root -> SUBSET Catalog] /\ installed' \in [Root -> SUBSET Catalog]
            /\ Whole(installed')
        BY <1>1 DEF WholeInv, IInv, TypeOK
      <4> HIDE DEF T
      <4>7. Whole(Before(installed', T))
        BY <4>3, <4>4, <4>5, <4>6, BeforeElsewhere
      <4>8. T = ToSet(last'[r].ops)
        BY <4>1 DEF T, Undone
      <4> QED BY <4>4, <4>7, <4>8
    <3> QED BY <3>1, <3>2
  <2> QED BY <2>2, <2>8 DEF HistoryInv, Undone
<1>5. ASSUME NEW p \in Process, Abandon(p) PROVE HistoryInv'
  BY <1>1, <1>2, <1>5 DEF Abandon
<1>6. CASE UNCHANGED <<installed, job, last>>
  BY <1>2, <1>6
<1>7. CASE UNCHANGED vars
  BY <1>2, <1>7 DEF vars
<1> QED BY <1>1, <1>3, <1>4, <1>5, <1>6, <1>7, <1>8, OtherUndo

(* An undo brings back no package that replaces one that stays.            *)
Yielding ==
  \A p \in Process : job[p] # None /\ job[p].verb = "undo" => Yields(installed, Undone(job[p].at))

(* UndoRestores: on a system with one root and one operator running an     *)
(* undo puts every package the last transaction touched back to the        *)
(* version it had and leaves every other alone, unless one that comes back *)
(* replaces another (cmdUndo, inverseRequest).                             *)
THEOREM OneRootUndoes ==
  ASSUME OneBuildPerVersion, DepsStayHere, \A p, q \in Process : p = q, \A r \in Root : Below[r] = {}
  PROVE  Spec /\ []Yielding => UndoRestores
<1>1. Init => WholeInv /\ UndoInv /\ HistoryInv
  <2> SUFFICES ASSUME Init PROVE WholeInv /\ UndoInv /\ HistoryInv
    OBVIOUS
  <2>1. (\A p \in Process : job[p] = None) /\ (\A r \in Root : last[r] = None)
    BY DEF Init
  <2> QED BY <2>1, IInvInit, EmptyWhole DEF WholeInv, UndoInv, HistoryInv
<1>2. WholeInv => Alone /\ InPlace /\ Sighted
  BY PlainRun DEF Alone, Sighted, WholeInv
<1>3. WholeInv /\ HistoryInv /\ Yielding => Undoable
  <2> SUFFICES ASSUME WholeInv, HistoryInv, Yielding, NEW p \in Process, job[p] # None, job[p].verb = "undo"
               PROVE  LET S == Undone(job[p].at)
                      IN /\ \A op \in S : op.root \in Reach(job[p].at)
                         /\ Whole(Before(installed, S)) /\ Yields(installed, S)
    BY DEF Undoable
  <2>1. job[p].at \in Root /\ last[job[p].at] # None
    BY DEF HistoryInv, WholeInv, IInv, TypeOK, Shown
  <2>2. \A op \in Undone(job[p].at) : op.root = job[p].at
    BY <2>1 DEF HistoryInv
  <2>3. Whole(Before(installed, Undone(job[p].at))) /\ Yields(installed, Undone(job[p].at))
    BY <2>1 DEF HistoryInv, Yielding
  <2> QED BY <2>2, <2>3 DEF Reach
<1>4. WholeInv /\ UndoInv /\ HistoryInv /\ [Next]_vars => WholeInv' /\ HistoryInv'
  <2> SUFFICES ASSUME WholeInv, UndoInv, HistoryInv, [Next]_vars PROVE WholeInv' /\ HistoryInv'
    OBVIOUS
  <2>1. Sighted'
    BY DEF Sighted
  <2>2. WholeInv'
    BY <1>2, <2>1, WholeStep
  <2> QED BY <1>2, <2>2, HistoryStep
<1>5. WholeInv /\ UndoInv /\ [Next]_vars /\ Undoable' => UndoInv'
  BY <1>2, UndoStep
<1> QED BY <1>1, <1>2, <1>3, <1>4, <1>5, UndoesExactly, PTL DEF Spec
=============================================================================
