------------------------------ MODULE MCUpdater ------------------------------
(* Small instances of Updater.                                               *)
EXTENDS Updater, TLC

Release(n, draft, pre, assets) == [v |-> n, draft |-> draft, pre |-> pre, assets |-> assets]
All == {"archive", "installer"}

(* Nothing new; a release with everything, behind a draft; the same before    *)
(* its installer is there, and ahead of a release that has no archive; and   *)
(* as a prerelease.                                                          *)
OneRelease ==
  {{},
   {Release(1, FALSE, FALSE, All), Release(2, FALSE, FALSE, All), Release(3, TRUE, FALSE, All)},
   {Release(2, FALSE, FALSE, {"archive"}), Release(3, FALSE, FALSE, {})},
   {Release(2, FALSE, TRUE, All)}}
=============================================================================
