---------------------------- MODULE MCClaimQueue ----------------------------
(* Two issues, the newer one listed first as the forge does.                *)
EXTENDS ClaimQueue

CONSTANTS i1, i2

TwoIssues == {i1, i2}
NewestFirst == <<i2, i1>>

LiveOnly == {"live"}
AllModes == {"shadow", "spec-only", "live"}
=============================================================================
