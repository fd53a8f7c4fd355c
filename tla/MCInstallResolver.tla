-------------------------- MODULE MCInstallResolver --------------------------
(* Model checking of InstallResolver: any two of these runs start. *)
EXTENDS InstallResolver

MCVersions == <<"v1", "v2">>

MCJobs == {<<"cli", "v1", 1>>, <<"cli", "v2", 2>>, <<"gui", "v2", 2>>,
           <<"gui", "nightly", 3>>, <<"gui", "nightly", 4>>, <<"cli", "nightly", 3>>,
           <<"cli", "xenage-standalone-dev", 5>>, <<"cli", "xenage-standalone-dev", 6>>}

=============================================================================
