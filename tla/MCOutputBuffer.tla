--------------------------- MODULE MCOutputBuffer ---------------------------
(* Small instances of the output of one process for TLC.                    *)
EXTENDS OutputBuffer

CONSTANTS A, MaxChunk

\* every text of at most MaxChunk characters
Texts == BoundedSeq({A, Newline}, MaxChunk)
Words == BoundedSeq({A}, MaxChunk)
Literals == {<<A>>, <<A, A>>, <<Newline, A>>}
Literal == {<<A, A>>}
Shortest == {<<A>>}
=============================================================================
