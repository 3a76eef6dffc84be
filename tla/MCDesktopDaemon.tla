--------------------------- MODULE MCDesktopDaemon ---------------------------
(* Instances of DesktopDaemon for TLC.                                     *)
EXTENDS DesktopDaemon, TLC

CONSTANTS ann, bob, p1

=============================================================================
