---------------------------- MODULE MCCatalogue ----------------------------
(***************************************************************************)
(* Mirrors named in both ways, of two upstreams, with a filter and without, *)
(* one that carries two components and one that has none: found as a whole  *)
(* grid, in parts, or mixed, while others create or drop one more.          *)
(***************************************************************************)
EXTENDS Catalogue

Mirror(name, url, suite, components, filter) ==
    [name |-> name, url |-> url, suite |-> suite, components |-> components, filter |-> filter]

noble   == <<"noble">>
updates == <<"noble", "updates">>
main    == <<"main">>
extra   == <<"non", "free">>

Named(url, suite, component, filter) ==
    Mirror(<<"u">> \o suite \o component, url, suite, {component}, filter)

Bare(url, suite, component) ==
    Mirror(suite \o component, url, suite, {component}, "none")

Both == Mirror(<<"u", "noble">>, "a", noble, {main, extra}, "none")

\* the name of a mirror of the grid, cut at other dashes
Otherwise == Mirror(<<"u">> \o updates \o main, "a", <<"updates">>, {main}, "none")

Grid == {Named("a", suite, component, "f") : suite \in {noble, updates}, component \in {main, extra}}

MCFound == {
    Grid,
    {Both, Named("a", noble, main, "none"), Named("a", updates, main, "none"),
     Named("a", updates, extra, "f"), Named("b", noble, extra, "none")},
    {Bare("a", noble, main), Bare("a", updates, main),
     Named("a", noble, main, "none"), Named("b", noble, extra, "none")},
    {Bare("a", noble, main), Bare("b", updates, main),
     Mirror(noble \o noble \o extra, "a", noble, {extra}, "none")},
    {Otherwise, Mirror(<<"flat">>, "a", <<".">>, {}, "none")}}

MCForeign == {Named("a", noble, extra, "f"), Named("a", noble, main, "none"),
              Bare("a", noble, main), Bare("b", updates, main)}

Draft(name, pattern, suites) ==
    [name |-> name, url |-> "a", pattern |-> pattern, suites |-> suites, components |-> {main},
     filter |-> "none", complete |-> FALSE, inconsistent |-> FALSE, shows |-> {}]

MCDrafts == {Draft(<<"u">>, SetSuiteComponent, {noble, updates}),
             Draft(<<"mine">>, SuiteComponent, {noble})}
=============================================================================
