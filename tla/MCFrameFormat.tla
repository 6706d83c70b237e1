----------------------------- MODULE MCFrameFormat -----------------------------
(***************************************************************************)
(* FrameFormat with four byte values, for TLC.                             *)
(***************************************************************************)
EXTENDS FrameFormat, Bitwise

MCXor(a, b) == a ^^ b

\* Two bits a byte: one of size, one of "more follows".
MCMagic == <<0, 1>>

\* A payload of one byte (the marker's value), and one of six - a size of
\* three groups, for which 3 * 6 wraps in a word of 16 - that lies in the file
\* as a frame itself, <<3, 3, 1, 0, 3>>, and a byte more.
MCPayloads == {<<3>>, <<2, 1, 0, 2, 2, 2>>}

\* The magic cut short, another magic, no marker where a frame should start,
\* a size field that does not end.
MCStrangers == {<<0>>, <<1, 1, 3>>, <<0, 1, 2>>, <<0, 1, 3, 0, 0, 3, 3, 3, 3>>}

\* A payload that holds the marker and no frame this library would write.
MCSynthetic == {<<3, 0>>}

================================================================================
