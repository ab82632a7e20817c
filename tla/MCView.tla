------------------------------- MODULE MCView -------------------------------
(***************************************************************************)
(* Two commits; b is committed on top of a.                                *)
(***************************************************************************)
EXTENDS View

CONSTANTS a, b

MCCommit == {a, b}
MCRanges == {<<a>>, <<b, a>>}
MCFirst == <<a>>
=============================================================================
