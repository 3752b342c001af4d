--------------------------- MODULE MCReleaseUpload ---------------------------
(* Small instances of ReleaseUpload for TLC. *)
EXTENDS ReleaseUpload, TLC

\* sessions and requests are interchangeable
Interchangeable == Permutations(Upload) \cup Permutations(Request)
=============================================================================
