----------------------------- MODULE MCWorkflow -----------------------------
(***************************************************************************)
(* Values for the constants of Workflow: one set, and two suites of which  *)
(* the second comes after the first however the operator typed them.       *)
(***************************************************************************)
EXTENDS Workflow

Base    == <<0, 1>>
Updates == <<1, 1>>

MCSuites      == {Base, Updates}
MCSuiteList   == <<Updates, Base>>
MCOneSuite    == {Base}
MCOneList     == <<Base>>
MCContinues   == {<<<<"jammy", Base>>, <<"jammy", Updates>>>>}
MCInitialSets == {[i \in SetIds |-> "jammy"]}
=============================================================================
