--------------------------- MODULE MigrationScripts ---------------------------
(***************************************************************************)
(* The five scripts of migrations/versions and the markers of              *)
(* db/migrate.py, as values of the constants of Migrations.                *)
(***************************************************************************)
EXTENDS Migrations

\* acaffe887f68
InitialSchema ==
    << Table("app_settings"), Table("audit_log"), Table("mirror_sets"), Table("jobs"),
       Table("job_steps"), Table("snapshot_sets") >>

\* 1d98f4a90784
DownloadProgress ==
    << <<"job_steps", "total_bytes">>, <<"job_steps", "remaining_bytes">>,
       <<"job_steps", "total_packages">>, <<"job_steps", "remaining_packages">> >>

\* 2595a4d32cad
ExpectedStepCount == << <<"jobs", "expected_steps">> >>

\* f8cd439d47f7
Users == << Table("users") >>

\* a2df56007c76
NamingPattern ==
    << <<"mirror_sets", "publish_endpoint">>, <<"mirror_sets", "public_url">>,
       <<"mirror_sets", "mirror_pattern">> >>

Scripts == <<InitialSchema, DownloadProgress, ExpectedStepCount, Users, NamingPattern>>

AdoptionMarkers ==
    << Table("mirror_sets"), <<"job_steps", "total_bytes">>, <<"jobs", "expected_steps">>,
       Table("users"), <<"mirror_sets", "mirror_pattern">> >>
=============================================================================
