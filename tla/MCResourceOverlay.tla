------------------------- MODULE MCResourceOverlay -------------------------
(* ResourceOverlay with two payload files and two later releases.          *)
EXTENDS ResourceOverlay

MCPayload == {"font", "theme"}
MCReleases == {2, 3}
=============================================================================
