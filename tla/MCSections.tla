----------------------------- MODULE MCSections -----------------------------
(* Instances of Sections for TLC: every well-formed text of at most MaxPieces *)
(* pieces.                                                                    *)
EXTENDS Sections

CONSTANT MaxPieces

MCTexts == {t \in UNION {[1..n -> Piece] : n \in 0..MaxPieces} : WellFormed(t)}
=============================================================================
