--------------------------- MODULE MCMagicForward ---------------------------
(* Model-checking instance of MagicForward.  z stands for the zero byte of     *)
(* protocol::MAGIC.                                                            *)
EXTENDS MagicForward

CONSTANTS z, a, b

ThreeBytes == {z, a, b}

\* A word that overlaps itself like MAGIC: it begins and ends with the zero byte,
\* has another one inside, and repeats a letter.
SmallMagic == <<z, a, a, z, b, z>>
=============================================================================
