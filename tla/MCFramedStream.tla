---------------------------- MODULE MCFramedStream ----------------------------
\* Two documents: an empty one, and one that looks like the header of a frame.
EXTENDS FramedStream

MCMessages == {<<>>, <<0, LF>>}
=============================================================================
