---------------------------- MODULE MCFdtString ----------------------------
(***************************************************************************)
(* Model-checking instance of FdtString: tables of up to five bytes over  *)
(* two characters and NUL, so that a needle occurs twice, as the suffix   *)
(* of a longer string, at the last start position or not at all.         *)
(***************************************************************************)
EXTENDS FdtString

(* The same lookup written with the subsequence search of SequencesExt,  *)
(* as a cross-check of FirstOccurrence on every input of the run.         *)
SX == INSTANCE SequencesExt

RefFind(buf, size, str) ==
  LET t == SubSeq(buf, 1, size)
      w == Needle(str)
  IN IF w \in SX!SubSeqs(t) THEN SX!IndexFirstSubSeq(w, t) - 1 ELSE NULL

MCChars == {1, 2}

ASSUME ReferenceAgrees ==
  \A buf \in SX!BoundedSeq(MCChars \cup {0}, 5), str \in SX!BoundedSeq(MCChars, 2) :
    \A size \in 0 .. Len(buf) : FirstOccurrence(buf, size, str) = RefFind(buf, size, str)

=============================================================================
