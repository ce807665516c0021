------------------------------ MODULE Catalogue ------------------------------
(***************************************************************************)
(* Which mirrors of aptly belong to which mirror set: services/naming.py,  *)
(* services/adoption.py, and the handlers of web/app.py that adopt, define *)
(* and forget a set.                                                       *)
(*                                                                         *)
(* A name is a sequence of words, which the program joins with dashes: the *)
(* set, the suite and the component of a mirror's name may each hold some. *)
(* Jobs and other programs create and drop mirrors while a page is open.   *)
(***************************************************************************)
EXTENDS Integers, Sequences, FiniteSets

CONSTANTS Found,      \* what aptly may hold when the program starts
          Foreign,    \* the mirrors that others may create later
          Drafts,     \* the definitions an operator may fill into the form of a new set
          MaxSets,    \* bound: mirror sets at a time
          MaxForms,   \* bound: proposals on the pages that are open
          MaxChanges  \* bound: mirrors that others create or drop while the program runs

OneMirrorPerName(ms) == \A m, n \in ms : m.name = n.name => m = n

\* a string, cut at its dashes
Words == Seq(STRING) \ {<<>>}

NoFilter == "none"
Filters  == STRING \union {NoFilter}

IsMirror(m) ==
    m.name \in Words /\ m.suite \in Words /\ m.components \subseteq Words /\ m.filter \in Filters

ASSUME FoundAssumption ==
    \A ms \in Found : IsFiniteSet(ms) /\ OneMirrorPerName(ms) /\ \A m \in ms : IsMirror(m)
ASSUME ForeignAssumption == \A m \in Foreign : IsMirror(m)
ASSUME BoundsAssumption  == MaxSets \in Nat /\ MaxForms \in Nat /\ MaxChanges \in Nat

VARIABLES
    mirrors,  \* aptly's mirrors
    view,     \* the mirrors a page of adoptions has read: a state of aptly, now or earlier
    forms,    \* the proposals on the pages that are open
    sets,     \* rows of mirror_sets
    changes   \* mirrors that others have created or dropped

catalogue == <<mirrors, view, forms, sets, changes>>

-----------------------------------------------------------------------------
(* services/naming.py *)

SetSuiteComponent == "{set}-{suite}-{component}"
SuiteComponent    == "{suite}-{component}"

Patterns == {SetSuiteComponent, SuiteComponent}

\* the definition of a set, in a form or a row
IsDefinition(d) ==
    /\ d.name \in Words /\ d.pattern \in Patterns
    /\ d.suites \subseteq Words /\ d.components \subseteq Words /\ d.filter \in Filters

ASSUME DraftsAssumption == \A d \in Drafts : IsDefinition(d)

MirrorName(pattern, set, suite, component) ==
    (IF pattern = SetSuiteComponent THEN set ELSE <<>>) \o suite \o component

Pockets == {"updates", "security", "backports", "proposed"}

\* noble-updates and noble-security both belong to noble
SuiteStem(suite) ==
    IF Len(suite) > 1 /\ suite[Len(suite)] \in Pockets
    THEN SubSeq(suite, 1, Len(suite) - 1)
    ELSE suite

\* what is before the suite and the component in a mirror's name
Prefix(m, component) ==
    SubSeq(m.name, 1, Len(m.name) - Len(m.suite \o component))

\* mutant: nothing is a prefix as well
SplitsWithoutPrefix(m) ==
    {[set |-> Prefix(m, c), suite |-> m.suite, component |-> c, pattern |-> SetSuiteComponent] :
        c \in {x \in m.components : /\ m.components = {x}
                                   /\ m.name = Prefix(m, x) \o m.suite \o x}}

\* the name ends in the suite and the one component, under this naming
Fits(m, pattern, component) ==
    /\ m.components = {component}
    /\ m.name = MirrorName(pattern, Prefix(m, component), m.suite, component)
    /\ pattern = SetSuiteComponent => Prefix(m, component) \notin {<<>>, <<"">>}

Split(m, pattern, component) ==
    [set |-> IF pattern = SetSuiteComponent THEN Prefix(m, component) ELSE SuiteStem(m.suite),
     suite |-> m.suite, component |-> component, pattern |-> pattern]

\* the set, suite, component and naming of a mirror: one, or none
Splits(m) ==
    UNION {{Split(m, pattern, c) : c \in {x \in m.components : Fits(m, pattern, x)}} :
              pattern \in Patterns}

-----------------------------------------------------------------------------
(* Mirror sets, and services/adoption.py *)

Expected(s) ==
    {MirrorName(s.pattern, s.name, suite, component) :
        suite \in s.suites, component \in s.components}

Managed(rows) == UNION {Expected(s) : s \in rows}

NamesOf(things) == {x.name : x \in things}

Unmanaged(ms, rows) == {m \in ms : m.name \notin Managed(rows)}

\* mutant: the filter of any mirror of the group
SomeFilter(group) == (CHOOSE m \in group : TRUE).filter

CommonFilter(group) ==
    IF Cardinality({m.filter : m \in group}) = 1
    THEN (CHOOSE m \in group : TRUE).filter
    ELSE NoFilter

SuitesOf(group)     == {x.suite : x \in UNION {Splits(m) : m \in group}}
ComponentsOf(group) == {x.component : x \in UNION {Splits(m) : m \in group}}

Proposal(key, group) ==
    LET suites     == SuitesOf(group)
        components == ComponentsOf(group)
    IN [name |-> key.set, url |-> key.url, pattern |-> key.pattern,
        suites |-> suites, components |-> components,
        filter |-> CommonFilter(group),
        inconsistent |-> Cardinality({m.filter : m \in group}) > 1,
        complete |-> Cardinality(group) = Cardinality(suites) * Cardinality(components),
        shows |-> group]

Keys(m) == {[set |-> x.set, url |-> m.url, pattern |-> x.pattern] : x \in Splits(m)}

\* mutant: mirrors of different upstreams are grouped together
ProposalsOfAnyUpstream(ms, rows) ==
    LET todo == Unmanaged(ms, rows)
    IN {Proposal(key, {m \in todo : \E k \in Keys(m) : k.set = key.set /\ k.pattern = key.pattern}) :
            key \in UNION {Keys(m) : m \in todo}}

Proposals(ms, rows) ==
    {Proposal(key, {m \in Unmanaged(ms, rows) : key \in Keys(m)}) :
        key \in UNION {Keys(m) : m \in Unmanaged(ms, rows)}}

-----------------------------------------------------------------------------
\* mutant: the naming is not recorded
RowOfDefaultPattern(p, adopted) ==
    [id |-> CHOOSE n \in 1..MaxSets : n \notin {s.id : s \in sets}, name |-> p.name,
     url |-> p.url, pattern |-> SetSuiteComponent, suites |-> p.suites,
     components |-> p.components, filter |-> p.filter, adopted |-> adopted,
     complete |-> p.complete, inconsistent |-> p.inconsistent, shown |-> p.shows]

\* a number that no other row has
FreeId == CHOOSE n \in 1..MaxSets : n \notin {s.id : s \in sets}

\* a row, with what the form showed
Row(p, adopted) ==
    [id |-> FreeId, name |-> p.name, url |-> p.url, pattern |-> p.pattern, suites |-> p.suites,
     components |-> p.components, filter |-> p.filter, adopted |-> adopted,
     complete |-> p.complete, inconsistent |-> p.inconsistent, shown |-> p.shows]

CatalogueInit ==
    /\ mirrors \in Found
    /\ view = mirrors
    /\ forms = {}
    /\ sets = {}
    /\ changes = 0

\* the page of adoptions: the state of aptly, which may be an older copy ...
ReadMirrors ==
    /\ view' = mirrors
    /\ UNCHANGED <<mirrors, forms, sets, changes>>

\* ... and then the rows, which leave a form for each proposal
AdoptForm(p) ==
    /\ p \in Proposals(view, sets)
    /\ Cardinality(forms \union {p}) <= MaxForms
    /\ forms' = forms \union {p}
    /\ UNCHANGED <<mirrors, view, sets, changes>>

CloseForm(p) ==
    /\ forms' = forms \ {p}
    /\ UNCHANGED <<mirrors, view, sets, changes>>

Insert(row) ==
    /\ Cardinality(sets) < MaxSets
    /\ sets' = sets \union {row}
    /\ UNCHANGED <<mirrors, view, forms, changes>>

\* mutant: the name of a set is not unique
AdoptWithoutKey(p) == Insert(Row(p, TRUE))

\* the form may be sent again, and a name that is taken is an IntegrityError
AdoptSubmit(p) ==
    /\ p.name \notin NamesOf(sets)
    /\ Insert(Row(p, TRUE))

NewSetSubmit(d) ==
    /\ d.name \notin NamesOf(sets)
    /\ Insert(Row(d, FALSE))

\* one step of a create job, which may stop after any of them
CreateMirror(s, suite, component) ==
    LET name == MirrorName(s.pattern, s.name, suite, component)
    IN /\ name \notin NamesOf(mirrors)
       /\ mirrors' = mirrors \union {[name |-> name, url |-> s.url, suite |-> suite,
                                      components |-> {component}, filter |-> s.filter]}
       /\ UNCHANGED <<view, forms, sets, changes>>

\* mutant: forgetting a set drops its mirrors
ForgetAndDelete(s) ==
    /\ sets' = sets \ {s}
    /\ mirrors' = {m \in mirrors : m.name \notin Expected(s)}
    /\ UNCHANGED <<view, forms, changes>>

Forget(s) ==
    /\ sets' = sets \ {s}
    /\ UNCHANGED <<mirrors, view, forms, changes>>

OthersCreate(m) ==
    /\ changes < MaxChanges
    /\ m.name \notin NamesOf(mirrors)
    /\ mirrors' = mirrors \union {m}
    /\ changes' = changes + 1
    /\ UNCHANGED <<view, forms, sets>>

OthersDrop(m) ==
    /\ changes < MaxChanges
    /\ mirrors' = mirrors \ {m}
    /\ changes' = changes + 1
    /\ UNCHANGED <<view, forms, sets>>

CatalogueNext ==
    \/ ReadMirrors
    \/ \E p \in Proposals(view, sets) : AdoptForm(p)
    \/ \E p \in forms : CloseForm(p) \/ AdoptSubmit(p)
    \/ \E d \in Drafts : NewSetSubmit(d)
    \/ \E s \in sets : Forget(s) \/ \E x \in s.suites, c \in s.components : CreateMirror(s, x, c)
    \/ \E m \in Foreign : OthersCreate(m)
    \/ \E m \in mirrors : OthersDrop(m)

CatalogueSpec == CatalogueInit /\ [][CatalogueNext]_catalogue

-----------------------------------------------------------------------------
(* Properties. *)

(* aptly and every page hold one mirror of a name, and a set has a definition from which  *)
(* its mirrors can be named, and, if it was adopted, the mirrors its form showed.         *)
CatalogueTypeOK ==
    /\ OneMirrorPerName(mirrors) /\ OneMirrorPerName(view)
    /\ \A m \in mirrors \union view : IsMirror(m)
    /\ \A p \in forms : IsDefinition(p) /\ p.shows # {} /\ OneMirrorPerName(p.shows)
    /\ \A s \in sets : IsDefinition(s) /\ (s.adopted => s.shown # {})
    /\ Cardinality(sets) <= MaxSets /\ Cardinality(forms) <= MaxForms
    /\ changes \in 0..MaxChanges

(* Reading the set, the suite and the component back from a mirror's name and putting     *)
(* them together again ends at that name, with dashes in all three and under both         *)
(* namings: a set that was adopted manages every mirror its form showed.                  *)
AdoptedSetsCoverTheirMirrors ==
    \A s \in sets : s.adopted => NamesOf(s.shown) \subseteq Expected(s)

(* "complete" compares two numbers, and means more than that: the combinations of a       *)
(* complete proposal are its mirrors, one each, all of its own upstream and nobody's else. *)
CompleteMeansExact ==
    \A p \in forms : p.complete =>
        /\ Expected(p) = NamesOf(p.shows)
        /\ \A m \in p.shows : m.url = p.url

(* No mirror is adopted twice, and sets that were adopted while complete never manage the *)
(* same mirror, whatever pages they were adopted from, in whatever order, sent once or    *)
(* twice.  The exception is a name that a mirror of another suite or component took over  *)
(* between the two pages: a name with dashes can be read in more than one way.            *)
SamePlace(m, n) == m.name = n.name => m.suite = n.suite /\ m.components = n.components

AdoptionsNeverOverlap ==
    \A s, t \in sets : s.adopted /\ t.adopted /\ s # t =>
        /\ s.shown \intersect t.shown = {}
        /\ s.complete /\ t.complete /\ (\A m \in s.shown, n \in t.shown : SamePlace(m, n)) =>
              Expected(s) \intersect Expected(t) = {}

(* A set never narrows a mirror it was adopted with to a filter the mirror did not have,  *)
(* and widens one only if its form said that the filters differ.                          *)
AdoptedSetsKeepFilters ==
    \A s \in sets : s.adopted => \A m \in s.shown :
        s.filter = m.filter \/ (s.filter = NoFilter /\ s.inconsistent)

(* "Forgetting is the inverse of adoption": aptly keeps every mirror, and what the set    *)
(* was adopted with and no other set manages is offered again under the same name and     *)
(* naming.                                                                                *)
ForgettingIsTheInverse ==
    [][\A s \in sets \ sets' : s.adopted =>
        /\ mirrors' = mirrors
        /\ \A m \in s.shown \intersect view : m.name \in Managed(sets') \/
              \E p \in Proposals(view, sets') :
                  p.name = s.name /\ p.pattern = s.pattern /\ m \in p.shows]_catalogue

-----------------------------------------------------------------------------
(* What the documents say and the code does not do. *)

(* src/README.md:9, "Existing mirrors can be adopted into sets": the name of a set that   *)
(* was adopted is not offered again, for mirrors of another upstream or a later one,      *)
(* where its form can only fail.                                                          *)
OffersCanBeAdopted ==
    \A p \in Proposals(mirrors, sets), s \in sets : s.adopted => p.name # s.name
=============================================================================
