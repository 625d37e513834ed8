-------------------------- MODULE MCFrontmatterIndex --------------------------
(***************************************************************************)
(* Small instances of FrontmatterIndex.                                    *)
(***************************************************************************)
EXTENDS FrontmatterIndex

MCBothModes == {TRUE, FALSE}
=============================================================================
