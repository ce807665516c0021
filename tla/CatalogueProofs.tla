--------------------------- MODULE CatalogueProofs ---------------------------
(***************************************************************************)
(* Theorems about Catalogue, for whatever names, suites and components     *)
(* aptly's mirrors have, and whatever sets an operator defines.            *)
(***************************************************************************)
EXTENDS Catalogue, FiniteSetTheorems, SequenceTheorems, TLAPS

\* Reading a mirror's name and putting the parts together again ends at the name, whichever
\* of the two namings it follows.  [split_mirror_name, mirror_name]
THEOREM SplitNamesTheMirror ==
    ASSUME NEW m, NEW x \in Splits(m)
    PROVE  /\ MirrorName(x.pattern, x.set, x.suite, x.component) = m.name
           /\ m.components = {x.component} /\ x.suite = m.suite
<1>1. PICK pattern \in Patterns, c \in m.components : Fits(m, pattern, c) /\ x = Split(m, pattern, c)
  BY DEF Splits
<1>2. x.pattern = pattern /\ x.suite = m.suite /\ x.component = c
      /\ x.set = IF pattern = SetSuiteComponent THEN Prefix(m, c) ELSE SuiteStem(m.suite)
  BY <1>1 DEF Split
<1>3. MirrorName(pattern, x.set, m.suite, c) = MirrorName(pattern, Prefix(m, c), m.suite, c)
  BY <1>2 DEF MirrorName
<1> QED
  BY <1>1, <1>2, <1>3 DEF Fits

\* the mirrors of a proposal are what its grid was made of
Grouped(p, group) ==
    \A m \in group : \E x \in Splits(m) :
        x.set = p.name /\ x.pattern = p.pattern /\ x.suite \in p.suites /\ x.component \in p.components

LEMMA GroupedMeansExpected ==
    ASSUME NEW p, NEW group, Grouped(p, group)
    PROVE  NamesOf(group) \subseteq Expected(p)
<1> SUFFICES ASSUME NEW m \in group PROVE m.name \in Expected(p)
  BY DEF NamesOf
<1>1. PICK x \in Splits(m) :
        x.set = p.name /\ x.pattern = p.pattern /\ x.suite \in p.suites /\ x.component \in p.components
  BY DEF Grouped
<1> QED
  BY <1>1, SplitNamesTheMirror DEF Expected

LEMMA ProposalsAreGrouped ==
    ASSUME NEW ms, NEW rows, NEW p \in Proposals(ms, rows)
    PROVE  /\ Grouped(p, p.shows)
           /\ p.shows \subseteq ms
           /\ \A m \in p.shows : m.url = p.url
           /\ p.suites = SuitesOf(p.shows) /\ p.components = ComponentsOf(p.shows)
           /\ p.complete = (Cardinality(p.shows) = Cardinality(p.suites) * Cardinality(p.components))
<1>1. PICK key : p = Proposal(key, {m \in Unmanaged(ms, rows) : key \in Keys(m)})
  BY DEF Proposals
<1> DEFINE group == {m \in Unmanaged(ms, rows) : key \in Keys(m)}
<1>2. /\ p.name = key.set /\ p.url = key.url /\ p.pattern = key.pattern /\ p.shows = group
      /\ p.suites = SuitesOf(group) /\ p.components = ComponentsOf(group)
      /\ p.complete = (Cardinality(group) = Cardinality(SuitesOf(group)) * Cardinality(ComponentsOf(group)))
  BY <1>1 DEF Proposal
<1>3. ASSUME NEW m \in group
      PROVE  m.url = p.url /\ \E x \in Splits(m) :
                x.set = p.name /\ x.pattern = p.pattern /\ x.suite \in p.suites /\ x.component \in p.components
  <2>1. PICK x \in Splits(m) : key = [set |-> x.set, url |-> m.url, pattern |-> x.pattern]
    BY <1>3 DEF Keys
  <2>2. x.suite \in SuitesOf(group) /\ x.component \in ComponentsOf(group)
    BY <1>3 DEF SuitesOf, ComponentsOf
  <2> QED
    BY <2>1, <2>2, <1>2
<1>4. group \subseteq ms
  BY DEF Unmanaged
<1> HIDE DEF group
<1> QED
  BY <1>2, <1>3, <1>4 DEF Grouped

-----------------------------------------------------------------------------
(* Words. *)

LEMMA WordsJoin ==
    ASSUME NEW v \in Words, NEW w \in Words
    PROVE  v \o w \in Words /\ Len(v \o w) \in Nat
<1>1. v \in Seq(STRING) /\ w \in Seq(STRING) /\ v # <<>>
  BY DEF Words
<1>2. v \o w \in Seq(STRING) /\ Len(v \o w) = Len(v) + Len(w)
      /\ Len(v) \in Nat /\ Len(w) \in Nat /\ Len(v) # 0
  BY <1>1, ConcatProperties, LenProperties, EmptySeq
<1>3. v \o w # <<>>
  BY <1>2
<1> QED
  BY <1>2, <1>3 DEF Words

LEMMA NamesAreWords ==
    ASSUME NEW pattern, NEW set \in Words, NEW suite \in Words, NEW component \in Words
    PROVE  MirrorName(pattern, set, suite, component) \in Words
<1>1. suite \o component \in Words /\ set \o suite \in Words /\ (set \o suite) \o component \in Words
  BY WordsJoin
<1>2. <<>> \o suite = suite
  BY DEF Words
<1> QED
  BY <1>1, <1>2 DEF MirrorName

LEMMA PartOfWords ==
    ASSUME NEW w \in Words, NEW k \in Int, k <= Len(w)
    PROVE  /\ SubSeq(w, 1, k) \in Seq(STRING)
           /\ SubSeq(w, 1, k) = <<>> <=> k <= 0
<1>1. w \in Seq(STRING) /\ Len(w) \in Nat
  BY LenProperties DEF Words
<1>2. CASE k <= 0
  BY <1>1, <1>2, SubSeqProperties
<1>3. CASE k > 0
  BY <1>1, <1>3, SubSeqProperties
<1> QED
  BY <1>2, <1>3

\* what is read back from a name has no empty part
LEMMA SplitsAreTyped ==
    ASSUME NEW m, IsMirror(m), NEW x \in Splits(m)
    PROVE  x.set \in Words /\ x.suite \in Words /\ x.component \in Words /\ x.pattern \in Patterns
<1>1. PICK pattern \in Patterns, c \in m.components : Fits(m, pattern, c) /\ x = Split(m, pattern, c)
  BY DEF Splits
<1>2. m.name \in Words /\ m.suite \in Words /\ c \in Words /\ Len(m.name) \in Nat
  BY LenProperties DEF IsMirror, Words
<1>3. x.pattern = pattern /\ x.suite = m.suite /\ x.component = c
      /\ x.set = IF pattern = SetSuiteComponent THEN Prefix(m, c) ELSE SuiteStem(m.suite)
  BY <1>1 DEF Split
<1>4. Prefix(m, c) \in Seq(STRING)
  <2> DEFINE n == Len(m.name)
             l == Len(m.suite \o c)
             k == n - l
  <2>0. n \in Nat /\ l \in Nat
    BY <1>2, WordsJoin
  <2> HIDE DEF n, l
  <2>1. k \in Int /\ k <= n
    BY <2>0
  <2> HIDE DEF k
  <2>2. SubSeq(m.name, 1, k) \in Seq(STRING)
    BY <1>2, <2>1, PartOfWords DEF n
  <2> QED
    BY <2>2 DEF Prefix, k, n, l
<1>5. pattern = SetSuiteComponent => Prefix(m, c) # <<>>
  BY <1>1 DEF Fits
<1>6. SuiteStem(m.suite) \in Words
  <2> DEFINE k == Len(m.suite) - 1
  <2>1. Len(m.suite) \in Nat /\ k \in Int /\ k <= Len(m.suite)
    BY <1>2, LenProperties DEF Words
  <2>2. Len(m.suite) > 1 => ~(k <= 0)
    BY <2>1
  <2>3. SuiteStem(m.suite) = m.suite \/ (Len(m.suite) > 1 /\ SuiteStem(m.suite) = SubSeq(m.suite, 1, k))
    BY DEF SuiteStem
  <2> HIDE DEF k
  <2>4. SubSeq(m.suite, 1, k) \in Seq(STRING) /\ (SubSeq(m.suite, 1, k) = <<>> <=> k <= 0)
    BY <1>2, <2>1, PartOfWords
  <2>5. Len(m.suite) > 1 => SubSeq(m.suite, 1, k) \in Words
    BY <2>2, <2>4 DEF Words
  <2> QED
    BY <1>2, <2>3, <2>5
<1> QED
  BY <1>2, <1>3, <1>4, <1>5, <1>6 DEF Words

\* A mirror belongs to one set, whatever dashes there are: only another suite or component
\* would make another set of the same name.  [split_mirror_name]
THEOREM OneSetPerMirror ==
    ASSUME NEW m, IsMirror(m), NEW n, IsMirror(n), m.name = n.name, SamePlace(m, n),
           NEW x \in Splits(m), NEW y \in Splits(n)
    PROVE  x = y
<1>1. PICK p \in Patterns, c \in m.components : Fits(m, p, c) /\ x = Split(m, p, c)
  BY DEF Splits
<1>2. PICK q \in Patterns, d \in n.components : Fits(n, q, d) /\ y = Split(n, q, d)
  BY DEF Splits
<1>3. m.suite = n.suite /\ d = c
  BY <1>1, <1>2 DEF SamePlace, Fits
<1>4. Prefix(m, c) = Prefix(n, d)
  BY <1>3 DEF Prefix
\* without a prefix, the suite and the component are the whole name
<1>5. ASSUME m.name = m.suite \o c PROVE Prefix(m, c) = <<>>
  <2>1. m.suite \o c \in Words /\ Len(m.suite \o c) \in Nat
    BY WordsJoin DEF IsMirror
  <2> QED
    BY <1>5, <2>1, PartOfWords DEF Prefix
<1>6. p = q
  <2>1. MirrorName(SuiteComponent, Prefix(m, c), m.suite, c) = m.suite \o c
    <3>1. <<>> \o m.suite = m.suite
      BY DEF IsMirror, Words
    <3> QED
      BY <3>1 DEF MirrorName, SuiteComponent, SetSuiteComponent
  <2>2. p = SuiteComponent \/ q = SuiteComponent => m.name = m.suite \o c
    BY <1>1, <1>2, <1>3, <1>4, <2>1 DEF Fits
  <2>3. p = SetSuiteComponent \/ q = SetSuiteComponent => Prefix(m, c) # <<>>
    BY <1>1, <1>2, <1>4 DEF Fits
  <2>4. p \in {SetSuiteComponent, SuiteComponent} /\ q \in {SetSuiteComponent, SuiteComponent}
    BY DEF Patterns
  <2> QED
    BY <1>5, <2>2, <2>3, <2>4
<1> QED
  BY <1>1, <1>2, <1>3, <1>4, <1>6 DEF Split

-----------------------------------------------------------------------------
(* What a proposal that counts as complete is. *)

LEMMA ImageIsFinite ==
    ASSUME NEW S, NEW T, NEW f \in [S -> T], IsFiniteSet(S), \A t \in T : \E s \in S : f[s] = t
    PROVE  IsFiniteSet(T) /\ Cardinality(T) <= Cardinality(S)
<1>1. f \in Surjection(S, T)
  BY DEF Surjection
<1> QED
  BY <1>1, FS_Surjection

LEMMA SuitesAreFinite ==
    ASSUME NEW group, IsFiniteSet(group), \A m \in group : Splits(m) # {}
    PROVE  IsFiniteSet(SuitesOf(group))
<1> DEFINE f == [m \in group |-> m.suite]
<1>1. \A m \in group : \A x \in Splits(m) : x.suite = m.suite
  BY SplitNamesTheMirror
<1>2. f \in [group -> SuitesOf(group)]
  <2>1. SUFFICES ASSUME NEW m \in group PROVE m.suite \in SuitesOf(group)
    OBVIOUS
  <2>2. PICK x \in Splits(m) : TRUE
    OBVIOUS
  <2> QED
    BY <2>2, <1>1 DEF SuitesOf
<1>3. \A t \in SuitesOf(group) : \E m \in group : f[m] = t
  BY <1>1 DEF SuitesOf
<1> QED
  BY <1>2, <1>3, ImageIsFinite

LEMMA ComponentsAreFinite ==
    ASSUME NEW group, IsFiniteSet(group), \A m \in group : Splits(m) # {}
    PROVE  IsFiniteSet(ComponentsOf(group))
<1> DEFINE f == [m \in group |-> CHOOSE c : c \in m.components]
<1>1. \A m \in group : \A x \in Splits(m) : x.component = CHOOSE c : c \in m.components
  BY SplitNamesTheMirror
<1>2. f \in [group -> ComponentsOf(group)]
  <2>1. SUFFICES ASSUME NEW m \in group PROVE (CHOOSE c : c \in m.components) \in ComponentsOf(group)
    OBVIOUS
  <2>2. PICK x \in Splits(m) : TRUE
    OBVIOUS
  <2> QED
    BY <2>2, <1>1 DEF ComponentsOf
<1>3. \A t \in ComponentsOf(group) : \E m \in group : f[m] = t
  BY <1>1 DEF ComponentsOf
<1> QED
  BY <1>2, <1>3, ImageIsFinite

LEMMA ExpectedIsBounded ==
    ASSUME NEW p, IsFiniteSet(p.suites), IsFiniteSet(p.components)
    PROVE  /\ IsFiniteSet(Expected(p))
           /\ Cardinality(Expected(p)) <= Cardinality(p.suites) * Cardinality(p.components)
<1> DEFINE pairs == p.suites \X p.components
<1> DEFINE f == [x \in pairs |-> MirrorName(p.pattern, p.name, x[1], x[2])]
<1>1. IsFiniteSet(pairs) /\ Cardinality(pairs) = Cardinality(p.suites) * Cardinality(p.components)
  BY FS_Product
<1>2. f \in [pairs -> Expected(p)]
  BY DEF Expected
<1>3. \A t \in Expected(p) : \E x \in pairs : f[x] = t
  <2> SUFFICES ASSUME NEW t \in Expected(p) PROVE \E x \in pairs : f[x] = t
    OBVIOUS
  <2>1. PICK suite \in p.suites, component \in p.components :
          t = MirrorName(p.pattern, p.name, suite, component)
    BY DEF Expected
  <2>2. <<suite, component>> \in pairs /\ f[<<suite, component>>] = t
    BY <2>1
  <2> QED
    BY <2>2
<1> HIDE DEF f, pairs
<1> QED
  BY <1>1, <1>2, <1>3, ImageIsFinite

LEMMA NamesAreAsManyAsMirrors ==
    ASSUME NEW group, IsFiniteSet(group), OneMirrorPerName(group)
    PROVE  IsFiniteSet(NamesOf(group)) /\ Cardinality(NamesOf(group)) = Cardinality(group)
<1> DEFINE f == [m \in group |-> m.name]
<1>1. f \in Surjection(group, NamesOf(group))
  BY DEF Surjection, NamesOf
<1>2. f \in Injection(group, NamesOf(group))
  BY <1>1 DEF Injection, IsInjective, OneMirrorPerName, NamesOf, Surjection
<1> HIDE DEF f
<1> QED
  BY <1>1, <1>2, FS_Surjection

\* The two numbers that "complete" compares are equal only if the grid is what the proposal
\* shows: no mirror is counted for a combination that does not exist.  [complete, missing]
THEOREM CountingIsEnough ==
    ASSUME NEW ms, NEW rows, IsFiniteSet(ms), OneMirrorPerName(ms),
           NEW p \in Proposals(ms, rows), p.complete
    PROVE  Expected(p) = NamesOf(p.shows)
<1>1. /\ p.shows \subseteq ms /\ Grouped(p, p.shows)
      /\ p.suites = SuitesOf(p.shows) /\ p.components = ComponentsOf(p.shows)
      /\ Cardinality(p.shows) = Cardinality(p.suites) * Cardinality(p.components)
  BY ProposalsAreGrouped
<1>2. IsFiniteSet(p.shows) /\ OneMirrorPerName(p.shows)
  BY <1>1, FS_Subset DEF OneMirrorPerName
<1>3. \A m \in p.shows : Splits(m) # {}
  BY <1>1 DEF Grouped
<1>4. IsFiniteSet(p.suites) /\ IsFiniteSet(p.components)
  BY <1>1, <1>2, <1>3, SuitesAreFinite, ComponentsAreFinite
<1>5. IsFiniteSet(Expected(p)) /\ Cardinality(Expected(p)) <= Cardinality(p.shows)
  BY <1>1, <1>4, ExpectedIsBounded
<1>6. Cardinality(NamesOf(p.shows)) = Cardinality(p.shows)
  BY <1>2, NamesAreAsManyAsMirrors
<1>7. NamesOf(p.shows) \subseteq Expected(p)
  BY <1>1, GroupedMeansExpected
<1>8. Cardinality(NamesOf(p.shows)) <= Cardinality(Expected(p))
      /\ Cardinality(NamesOf(p.shows)) \in Nat /\ Cardinality(Expected(p)) \in Nat
  BY <1>2, <1>5, <1>7, FS_Subset, FS_CardinalityType, NamesAreAsManyAsMirrors
<1>9. Cardinality(NamesOf(p.shows)) = Cardinality(Expected(p))
  BY <1>5, <1>6, <1>8
<1> QED
  BY <1>5, <1>7, <1>9, FS_Subset

\* A proposal has the filter its mirrors have, or none and a notice.  [_build]
LEMMA FiltersAgree ==
    ASSUME NEW ms, NEW rows, IsFiniteSet(ms), NEW p \in Proposals(ms, rows), NEW m \in p.shows
    PROVE  p.filter = m.filter \/ (p.filter = NoFilter /\ p.inconsistent)
<1> DEFINE filters == {n.filter : n \in p.shows}
<1>1. p.shows \subseteq ms /\ IsFiniteSet(p.shows)
  BY ProposalsAreGrouped, FS_Subset
<1>2. p.filter = CommonFilter(p.shows) /\ p.inconsistent = (Cardinality(filters) > 1)
  <2>1. PICK key : p = Proposal(key, {n \in Unmanaged(ms, rows) : key \in Keys(n)})
    BY DEF Proposals
  <2> DEFINE group == {n \in Unmanaged(ms, rows) : key \in Keys(n)}
  <2>2. p.shows = group /\ p.filter = CommonFilter(group)
        /\ p.inconsistent = (Cardinality({n.filter : n \in group}) > 1)
    BY <2>1 DEF Proposal
  <2> HIDE DEF group
  <2> QED
    BY <2>2
<1>3. IsFiniteSet(filters) /\ Cardinality(filters) \in Nat
  <2> DEFINE f == [n \in p.shows |-> n.filter]
  <2>1. f \in [p.shows -> filters] /\ \A t \in filters : \E n \in p.shows : f[n] = t
    OBVIOUS
  <2> HIDE DEF f, filters
  <2> QED
    BY <1>1, <2>1, ImageIsFinite, FS_CardinalityType
<1>4. m.filter \in filters
  OBVIOUS
<1>5. CASE Cardinality(filters) = 1
  <2>1. PICK x : filters = {x}
    BY <1>3, <1>5, FS_Singleton
  <2>2. (CHOOSE n \in p.shows : TRUE) \in p.shows
    OBVIOUS
  <2>3. (CHOOSE n \in p.shows : TRUE).filter = m.filter
    BY <2>1, <2>2, <1>4
  <2> QED
    BY <1>2, <1>5, <2>3 DEF CommonFilter
<1>6. CASE Cardinality(filters) # 1
  <2>1. Cardinality(filters) # 0
    BY <1>3, <1>4, FS_EmptySet
  <2>2. Cardinality(filters) > 1
    BY <1>3, <1>6, <2>1
  <2>3. p.inconsistent
    BY <1>2, <2>2
  <2>4. p.filter = NoFilter
    BY <1>2, <1>6 DEF CommonFilter
  <2> QED
    BY <2>3, <2>4
<1> QED
  BY <1>5, <1>6

-----------------------------------------------------------------------------
(* The inductive invariant: what a form shows stays what its grid was made of, on the     *)
(* page and in the row, whatever becomes of aptly's mirrors.                              *)

OneOfEach(ms) == IsFiniteSet(ms) /\ OneMirrorPerName(ms)

GoodForm(p) ==
    /\ Grouped(p, p.shows)
    /\ \A m \in p.shows : m.url = p.url
    /\ p.complete => Expected(p) = NamesOf(p.shows)
    /\ \A m \in p.shows : p.filter = m.filter \/ (p.filter = NoFilter /\ p.inconsistent)

GoodRow(s) == s.adopted =>
    /\ Grouped(s, s.shown)
    /\ s.complete => Expected(s) = NamesOf(s.shown)
    /\ \A m \in s.shown : s.filter = m.filter \/ (s.filter = NoFilter /\ s.inconsistent)

CatalogueInv ==
    /\ OneOfEach(mirrors) /\ OneOfEach(view)
    /\ \A p \in forms : GoodForm(p)
    /\ \A s \in sets : GoodRow(s)

LEMMA CatalogueInvInit == CatalogueInit => CatalogueInv
BY FoundAssumption DEF CatalogueInit, CatalogueInv, OneOfEach

LEMMA OneMore ==
    ASSUME NEW ms, OneOfEach(ms), NEW m, m.name \notin NamesOf(ms)
    PROVE  OneOfEach(ms \union {m})
<1>1. IsFiniteSet(ms \union {m})
  BY FS_AddElement DEF OneOfEach
<1>2. OneMirrorPerName(ms \union {m})
  BY DEF OneOfEach, OneMirrorPerName, NamesOf
<1> QED
  BY <1>1, <1>2 DEF OneOfEach

LEMMA OneLess ==
    ASSUME NEW ms, OneOfEach(ms), NEW m
    PROVE  OneOfEach(ms \ {m})
<1>1. IsFiniteSet(ms \ {m})
  BY FS_Subset DEF OneOfEach
<1> QED
  BY <1>1 DEF OneOfEach, OneMirrorPerName

LEMMA ProposalsAreGood ==
    ASSUME CatalogueInv, NEW p \in Proposals(view, sets)
    PROVE  GoodForm(p)
<1>1. p.complete => Expected(p) = NamesOf(p.shows)
  BY CountingIsEnough DEF CatalogueInv, OneOfEach
<1>2. \A m \in p.shows : p.filter = m.filter \/ (p.filter = NoFilter /\ p.inconsistent)
  BY FiltersAgree DEF CatalogueInv, OneOfEach
<1> QED
  BY <1>1, <1>2, ProposalsAreGrouped DEF GoodForm

LEMMA RowsAreGood ==
    ASSUME NEW p, NEW adopted, adopted => GoodForm(p)
    PROVE  GoodRow(Row(p, adopted))
<1>1. /\ Row(p, adopted).name = p.name /\ Row(p, adopted).pattern = p.pattern
      /\ Row(p, adopted).suites = p.suites /\ Row(p, adopted).components = p.components
      /\ Row(p, adopted).shown = p.shows /\ Row(p, adopted).adopted = adopted
      /\ Row(p, adopted).filter = p.filter /\ Row(p, adopted).inconsistent = p.inconsistent
      /\ Row(p, adopted).complete = p.complete
  BY DEF Row
<1>2. Expected(Row(p, adopted)) = Expected(p)
  BY <1>1 DEF Expected
<1> QED
  BY <1>1, <1>2 DEF GoodRow, GoodForm, Grouped

LEMMA CatalogueInvNext == CatalogueInv /\ [CatalogueNext]_catalogue => CatalogueInv'
<1> SUFFICES ASSUME CatalogueInv, [CatalogueNext]_catalogue PROVE CatalogueInv'
  OBVIOUS
<1>1. ASSUME ReadMirrors PROVE CatalogueInv'
  BY <1>1 DEF CatalogueInv, ReadMirrors
<1>2. ASSUME NEW p \in Proposals(view, sets), AdoptForm(p) PROVE CatalogueInv'
  BY <1>2, ProposalsAreGood DEF CatalogueInv, AdoptForm
<1>3. ASSUME NEW p \in forms, CloseForm(p) PROVE CatalogueInv'
  BY <1>3 DEF CatalogueInv, CloseForm
<1>4. ASSUME NEW p \in forms, AdoptSubmit(p) PROVE CatalogueInv'
  <2>1. GoodRow(Row(p, TRUE))
    BY RowsAreGood DEF CatalogueInv
  <2> QED
    BY <1>4, <2>1 DEF CatalogueInv, AdoptSubmit, Insert
<1>5. ASSUME NEW d \in Drafts, NewSetSubmit(d) PROVE CatalogueInv'
  <2>1. GoodRow(Row(d, FALSE))
    BY RowsAreGood
  <2> QED
    BY <1>5, <2>1 DEF CatalogueInv, NewSetSubmit, Insert
<1>6. ASSUME NEW s \in sets, Forget(s) PROVE CatalogueInv'
  BY <1>6 DEF CatalogueInv, Forget
<1>7. ASSUME NEW s \in sets, NEW x \in s.suites, NEW c \in s.components, CreateMirror(s, x, c)
      PROVE  CatalogueInv'
  <2>1. OneOfEach(mirrors')
    <3> DEFINE name == MirrorName(s.pattern, s.name, x, c)
    <3> DEFINE m == [name |-> name, url |-> s.url, suite |-> x, components |-> {c}, filter |-> s.filter]
    <3>1. mirrors' = mirrors \union {m} /\ m.name \notin NamesOf(mirrors)
      BY <1>7 DEF CreateMirror
    <3> HIDE DEF m
    <3> QED
      BY <3>1, OneMore DEF CatalogueInv
  <2> QED
    BY <1>7, <2>1 DEF CatalogueInv, CreateMirror
<1>8. ASSUME NEW m \in Foreign, OthersCreate(m) PROVE CatalogueInv'
  BY <1>8, OneMore DEF CatalogueInv, OthersCreate
<1>9. ASSUME NEW m \in mirrors, OthersDrop(m) PROVE CatalogueInv'
  BY <1>9, OneLess DEF CatalogueInv, OthersDrop
<1>10. CASE UNCHANGED catalogue
  BY <1>10 DEF CatalogueInv, catalogue
<1> QED
  BY <1>1, <1>2, <1>3, <1>4, <1>5, <1>6, <1>7, <1>8, <1>9, <1>10 DEF CatalogueNext

LEMMA CatalogueInvAlways == CatalogueSpec => []CatalogueInv
BY CatalogueInvInit, CatalogueInvNext, PTL DEF CatalogueSpec

-----------------------------------------------------------------------------
(* The types: a set has a name of its own, and its mirrors can be named.                  *)

TypedForm(p) ==
    /\ IsDefinition(p) /\ p.shows # {} /\ OneMirrorPerName(p.shows)
    /\ \A m \in p.shows : IsMirror(m)

TypedRow(s) ==
    /\ IsDefinition(s)
    /\ s.adopted => s.shown # {} /\ \A m \in s.shown : IsMirror(m)

CatalogueTyped ==
    /\ \A m \in mirrors \union view : IsMirror(m)
    /\ \A p \in forms : TypedForm(p)
    /\ \A s \in sets : TypedRow(s)
    /\ \A s, t \in sets : s.name = t.name => s = t
    /\ IsFiniteSet(sets) /\ Cardinality(sets) <= MaxSets
    /\ IsFiniteSet(forms) /\ Cardinality(forms) <= MaxForms
    /\ changes \in 0..MaxChanges

LEMMA ProposalsAreTyped ==
    ASSUME CatalogueInv, CatalogueTyped, NEW p \in Proposals(view, sets)
    PROVE  TypedForm(p)
<1>1. PICK key \in UNION {Keys(m) : m \in Unmanaged(view, sets)} :
        p = Proposal(key, {m \in Unmanaged(view, sets) : key \in Keys(m)})
  BY DEF Proposals
<1> DEFINE group == {m \in Unmanaged(view, sets) : key \in Keys(m)}
<1>2. PICK m \in group : TRUE
  BY <1>1
<1>3. PICK x \in Splits(m) : key = [set |-> x.set, url |-> m.url, pattern |-> x.pattern]
  BY <1>2 DEF Keys
<1>4. group \subseteq view /\ \A n \in group : IsMirror(n)
  BY DEF Unmanaged, CatalogueTyped
<1>5. key.set \in Words /\ key.pattern \in Patterns
  BY <1>2, <1>3, <1>4, SplitsAreTyped
<1>6. SuitesOf(group) \subseteq Words /\ ComponentsOf(group) \subseteq Words
  BY <1>4, SplitsAreTyped DEF SuitesOf, ComponentsOf
<1>7. /\ p.name = key.set /\ p.pattern = key.pattern /\ p.shows = group
      /\ p.suites = SuitesOf(group) /\ p.components = ComponentsOf(group)
  BY <1>1 DEF Proposal
<1>8. p.filter \in Filters
  <2>1. m \in p.shows /\ m.filter \in Filters
    BY <1>2, <1>4, <1>7 DEF IsMirror
  <2>2. p.filter = m.filter \/ p.filter = NoFilter
    BY <2>1, ProposalsAreGood DEF GoodForm
  <2> QED
    BY <2>1, <2>2 DEF Filters
<1>9. OneMirrorPerName(group)
  BY <1>4 DEF CatalogueInv, OneOfEach, OneMirrorPerName
<1> HIDE DEF group
<1> QED
  BY <1>2, <1>4, <1>5, <1>6, <1>7, <1>8, <1>9 DEF TypedForm, IsDefinition

LEMMA RowsAreTyped ==
    ASSUME NEW p, NEW adopted, IsDefinition(p), adopted => TypedForm(p)
    PROVE  TypedRow(Row(p, adopted)) /\ Row(p, adopted).name = p.name
<1>1. /\ Row(p, adopted).name = p.name /\ Row(p, adopted).pattern = p.pattern
      /\ Row(p, adopted).suites = p.suites /\ Row(p, adopted).components = p.components
      /\ Row(p, adopted).shown = p.shows /\ Row(p, adopted).adopted = adopted
      /\ Row(p, adopted).filter = p.filter
  BY DEF Row
<1> QED
  BY <1>1 DEF TypedRow, TypedForm, IsDefinition

LEMMA OneMoreRow ==
    ASSUME CatalogueTyped, NEW row, TypedRow(row), row.name \notin NamesOf(sets), Insert(row)
    PROVE  CatalogueTyped'
<1>1. IsFiniteSet(sets') /\ Cardinality(sets') <= MaxSets
  <2>1. sets' = sets \union {row} /\ row \notin sets
    BY DEF Insert, NamesOf
  <2>2. IsFiniteSet(sets') /\ Cardinality(sets') = Cardinality(sets) + 1 /\ Cardinality(sets) \in Nat
    BY <2>1, FS_AddElement, FS_CardinalityType DEF CatalogueTyped
  <2>3. Cardinality(sets) < MaxSets /\ MaxSets \in Nat
    BY BoundsAssumption DEF Insert
  <2> QED
    BY <2>2, <2>3
<1>2. \A s, t \in sets' : s.name = t.name => s = t
  BY DEF Insert, NamesOf, CatalogueTyped
<1>3. \A s \in sets' : TypedRow(s)
  BY DEF Insert, CatalogueTyped
<1> QED
  BY <1>1, <1>2, <1>3 DEF Insert, CatalogueTyped

LEMMA CatalogueTypedInit == CatalogueInit => CatalogueTyped
<1>1. IsFiniteSet({}) /\ Cardinality({}) = 0
  BY FS_EmptySet
<1> QED
  BY <1>1, FoundAssumption, BoundsAssumption DEF CatalogueInit, CatalogueTyped

LEMMA CatalogueTypedNext == CatalogueInv /\ CatalogueTyped /\ [CatalogueNext]_catalogue => CatalogueTyped'
<1> SUFFICES ASSUME CatalogueInv, CatalogueTyped, [CatalogueNext]_catalogue PROVE CatalogueTyped'
  OBVIOUS
<1>1. ASSUME ReadMirrors PROVE CatalogueTyped'
  BY <1>1 DEF CatalogueTyped, ReadMirrors
<1>2. ASSUME NEW p \in Proposals(view, sets), AdoptForm(p) PROVE CatalogueTyped'
  <2>1. TypedForm(p)
    BY ProposalsAreTyped
  <2>2. IsFiniteSet(forms') /\ Cardinality(forms') <= MaxForms
    BY <1>2, FS_AddElement DEF AdoptForm, CatalogueTyped
  <2> QED
    BY <1>2, <2>1, <2>2 DEF CatalogueTyped, AdoptForm
<1>3. ASSUME NEW p \in forms, CloseForm(p) PROVE CatalogueTyped'
  <2>1. IsFiniteSet(forms') /\ Cardinality(forms') <= Cardinality(forms)
    BY <1>3, FS_Subset DEF CloseForm, CatalogueTyped
  <2>2. Cardinality(forms) \in Nat /\ Cardinality(forms') \in Nat /\ MaxForms \in Nat
    BY <2>1, FS_CardinalityType, BoundsAssumption DEF CatalogueTyped
  <2> QED
    BY <1>3, <2>1, <2>2 DEF CatalogueTyped, CloseForm
<1>4. ASSUME NEW p \in forms, AdoptSubmit(p) PROVE CatalogueTyped'
  <2>1. TypedRow(Row(p, TRUE)) /\ Row(p, TRUE).name = p.name
    BY RowsAreTyped DEF CatalogueTyped, TypedForm
  <2> QED
    BY <1>4, <2>1, OneMoreRow DEF AdoptSubmit
<1>5. ASSUME NEW d \in Drafts, NewSetSubmit(d) PROVE CatalogueTyped'
  <2>1. TypedRow(Row(d, FALSE)) /\ Row(d, FALSE).name = d.name
    BY RowsAreTyped, DraftsAssumption
  <2> QED
    BY <1>5, <2>1, OneMoreRow DEF NewSetSubmit
<1>6. ASSUME NEW s \in sets, Forget(s) PROVE CatalogueTyped'
  <2>1. sets' \subseteq sets
    BY <1>6 DEF Forget
  <2>2. IsFiniteSet(sets') /\ Cardinality(sets') <= Cardinality(sets)
    BY <2>1, FS_Subset DEF CatalogueTyped
  <2>3. Cardinality(sets) \in Nat /\ Cardinality(sets') \in Nat /\ MaxSets \in Nat
    BY <2>2, FS_CardinalityType, BoundsAssumption DEF CatalogueTyped
  <2> QED
    BY <1>6, <2>1, <2>2, <2>3 DEF CatalogueTyped, Forget
<1>7. ASSUME NEW s \in sets, NEW x \in s.suites, NEW c \in s.components, CreateMirror(s, x, c)
      PROVE  CatalogueTyped'
  <2> DEFINE m == [name |-> MirrorName(s.pattern, s.name, x, c), url |-> s.url, suite |-> x,
                   components |-> {c}, filter |-> s.filter]
  <2>1. IsDefinition(s)
    BY DEF CatalogueTyped, TypedRow
  <2>2. MirrorName(s.pattern, s.name, x, c) \in Words
    BY <2>1, NamesAreWords DEF IsDefinition
  <2>3. IsMirror(m)
    BY <2>1, <2>2 DEF IsMirror, IsDefinition
  <2>4. mirrors' = mirrors \union {m}
    BY <1>7 DEF CreateMirror
  <2> HIDE DEF m
  <2> QED
    BY <1>7, <2>3, <2>4 DEF CatalogueTyped, CreateMirror
<1>8. ASSUME NEW m \in Foreign, OthersCreate(m) PROVE CatalogueTyped'
  BY <1>8, ForeignAssumption, BoundsAssumption DEF CatalogueTyped, OthersCreate
<1>9. ASSUME NEW m \in mirrors, OthersDrop(m) PROVE CatalogueTyped'
  BY <1>9, BoundsAssumption DEF CatalogueTyped, OthersDrop
<1>10. CASE UNCHANGED catalogue
  BY <1>10 DEF CatalogueTyped, catalogue
<1> QED
  BY <1>1, <1>2, <1>3, <1>4, <1>5, <1>6, <1>7, <1>8, <1>9, <1>10 DEF CatalogueNext

LEMMA CatalogueTypedAlways == CatalogueSpec => []CatalogueTyped
BY CatalogueTypedInit, CatalogueTypedNext, CatalogueInvAlways, PTL DEF CatalogueSpec

-----------------------------------------------------------------------------
(* The theorems. *)

\* Every variable stays in its type: what is read back from a name, shown in a form, stored
\* in a row and joined to a name again has no empty part.  [split_mirror_name, mirror_name]
THEOREM CatalogueTypeCorrect == CatalogueSpec => []CatalogueTypeOK
<1>1. CatalogueInv /\ CatalogueTyped => CatalogueTypeOK
  BY DEF CatalogueInv, OneOfEach, CatalogueTyped, TypedForm, TypedRow, CatalogueTypeOK
<1> QED
  BY <1>1, CatalogueInvAlways, CatalogueTypedAlways, PTL

\* No mirror is adopted twice, and sets that were adopted while complete share no name, except
\* one that a mirror of another suite or component took over.  [propose_sets, adopt_submit]
THEOREM AdoptionsNeverEverOverlap == CatalogueSpec => []AdoptionsNeverOverlap
<1>1. ASSUME CatalogueInv, CatalogueTyped, NEW s \in sets, NEW t \in sets,
             s.adopted, t.adopted, s # t,
             NEW m \in s.shown, NEW n \in t.shown, m.name = n.name
      PROVE  ~SamePlace(m, n)
  <2>1. PICK x \in Splits(m) : x.set = s.name
    BY <1>1 DEF CatalogueInv, GoodRow, Grouped
  <2>2. PICK y \in Splits(n) : y.set = t.name
    BY <1>1 DEF CatalogueInv, GoodRow, Grouped
  <2>3. IsMirror(m) /\ IsMirror(n) /\ s.name # t.name
    BY <1>1 DEF CatalogueTyped, TypedRow
  <2> QED
    BY <1>1, <2>1, <2>2, <2>3, OneSetPerMirror
<1>2. CatalogueInv /\ CatalogueTyped => AdoptionsNeverOverlap
  <2> SUFFICES ASSUME CatalogueInv, CatalogueTyped, NEW s \in sets, NEW t \in sets,
                      s.adopted, t.adopted, s # t
               PROVE  /\ s.shown \intersect t.shown = {}
                      /\ s.complete /\ t.complete /\ (\A m \in s.shown, n \in t.shown : SamePlace(m, n)) =>
                            Expected(s) \intersect Expected(t) = {}
    BY DEF AdoptionsNeverOverlap
  <2>1. s.shown \intersect t.shown = {}
    BY <1>1 DEF SamePlace
  <2>2. (s.complete => Expected(s) = NamesOf(s.shown)) /\ (t.complete => Expected(t) = NamesOf(t.shown))
    BY DEF CatalogueInv, GoodRow
  <2>3. ASSUME s.complete, t.complete, \A m \in s.shown, n \in t.shown : SamePlace(m, n),
               NEW name \in Expected(s) \intersect Expected(t)
        PROVE  FALSE
    <3>1. PICK m \in s.shown : m.name = name
      BY <2>2, <2>3 DEF NamesOf
    <3>2. PICK n \in t.shown : n.name = name
      BY <2>2, <2>3 DEF NamesOf
    <3> QED
      BY <1>1, <2>3, <3>1, <3>2
  <2> QED
    BY <2>1, <2>3
<1> QED
  BY <1>2, CatalogueInvAlways, CatalogueTypedAlways, PTL

\* A set that was adopted manages every mirror its form showed.  [adopt_submit]
THEOREM AdoptedSetsAlwaysCover == CatalogueSpec => []AdoptedSetsCoverTheirMirrors
<1>1. CatalogueInv => AdoptedSetsCoverTheirMirrors
  BY GroupedMeansExpected DEF CatalogueInv, GoodRow, AdoptedSetsCoverTheirMirrors
<1> QED
  BY <1>1, CatalogueInvAlways, PTL

\* A set never narrows a mirror to a filter it did not have.  [_build, adopt_submit]
THEOREM AdoptedSetsAlwaysKeepFilters == CatalogueSpec => []AdoptedSetsKeepFilters
<1>1. CatalogueInv => AdoptedSetsKeepFilters
  BY DEF CatalogueInv, GoodRow, AdoptedSetsKeepFilters
<1> QED
  BY <1>1, CatalogueInvAlways, PTL

\* A complete proposal stands for exactly the mirrors it shows.  [complete]
THEOREM CompleteAlwaysMeansExact == CatalogueSpec => []CompleteMeansExact
<1>1. CatalogueInv => CompleteMeansExact
  BY DEF CatalogueInv, GoodForm, CompleteMeansExact
<1> QED
  BY <1>1, CatalogueInvAlways, PTL

\* Forgetting a set that was adopted changes nothing in aptly and offers its mirrors again.
\* [set_delete]
THEOREM ForgettingIsAlwaysTheInverse == CatalogueSpec => ForgettingIsTheInverse
<1> DEFINE Step == \A s \in sets \ sets' : s.adopted =>
        /\ mirrors' = mirrors
        /\ \A m \in s.shown \intersect view : m.name \in Managed(sets') \/
              \E p \in Proposals(view, sets') :
                  p.name = s.name /\ p.pattern = s.pattern /\ m \in p.shows
<1>1. CatalogueInv /\ [CatalogueNext]_catalogue => [Step]_catalogue
  <2> SUFFICES ASSUME CatalogueInv, [CatalogueNext]_catalogue, NEW s \in sets \ sets', s.adopted
               PROVE  /\ mirrors' = mirrors
                      /\ \A m \in s.shown \intersect view : m.name \in Managed(sets') \/
                            \E p \in Proposals(view, sets') :
                                p.name = s.name /\ p.pattern = s.pattern /\ m \in p.shows
    OBVIOUS
  <2>1. PICK t \in sets : Forget(t)
    BY DEF CatalogueNext, catalogue, ReadMirrors, AdoptForm, CloseForm, AdoptSubmit, NewSetSubmit,
           Insert, CreateMirror, OthersCreate, OthersDrop
  <2>2. mirrors' = mirrors
    BY <2>1 DEF Forget
  <2>3. ASSUME NEW m \in s.shown \intersect view, m.name \notin Managed(sets')
        PROVE  \E p \in Proposals(view, sets') :
                   p.name = s.name /\ p.pattern = s.pattern /\ m \in p.shows
    <3>1. PICK x \in Splits(m) : x.set = s.name /\ x.pattern = s.pattern
      BY DEF CatalogueInv, GoodRow, Grouped
    <3> DEFINE key == [set |-> x.set, url |-> m.url, pattern |-> x.pattern]
    <3> DEFINE group == {n \in Unmanaged(view, sets') : key \in Keys(n)}
    <3>2. key \in Keys(m) /\ m \in Unmanaged(view, sets')
      BY <2>3 DEF Keys, Unmanaged
    <3>3. Proposal(key, group) \in Proposals(view, sets')
      BY <3>2 DEF Proposals
    <3>4. /\ Proposal(key, group).name = s.name /\ Proposal(key, group).pattern = s.pattern
          /\ Proposal(key, group).shows = group
      BY <3>1 DEF Proposal
    <3> QED
      BY <3>2, <3>3, <3>4
  <2> QED
    BY <2>2, <2>3
<1> QED
  BY <1>1, CatalogueInvAlways, PTL DEF CatalogueSpec, ForgettingIsTheInverse
=============================================================================
