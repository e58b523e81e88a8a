------------------------------- MODULE LineFeed -------------------------------
(***************************************************************************)
(* The byte that the stream framing and the readers of lines share.        *)
(***************************************************************************)
CONSTANT LF
=============================================================================
