----------------------------- MODULE MCLifecycle -----------------------------
(* Instance of Lifecycle for TLC: a release with one migration and its       *)
(* successor with two.                                                       *)
EXTENDS Lifecycle

CONSTANTS a, b

McVersions == {1, 2}
McReleases == {{1}, {1, 2}}
=============================================================================
