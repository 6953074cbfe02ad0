--------------------------- MODULE FdtStringProofs ---------------------------
(***************************************************************************)
(* Proofs about the string table lookup fdt_find_string_() (FdtString),   *)
(* for every alphabet and every bound: the loop compares only bytes of   *)
(* the table and returns the first occurrence of the needle with its NUL.*)
(***************************************************************************)
EXTENDS FdtString, SequenceTheorems, TLAPS

BufChars == Chars \cup {0}

(* What a buffer and a needle are, as sequences.                          *)
LEMMA BufferIsSeq ==
  ASSUME NEW b \in Buffers
  PROVE  b \in Seq(BufChars) /\ Len(b) \in 0 .. MaxTab
<1>1. PICK m \in 0 .. MaxTab : b \in [1 .. m -> BufChars]
  BY StringAssumption DEF Buffers, BoundedSeq, SeqOf, BufChars
<1>2. b \in Seq(BufChars)
  BY <1>1, SeqDef, StringAssumption
<1>3. b \in [1 .. Len(b) -> BufChars] /\ Len(b) \in Nat
  BY <1>2, LenProperties
<1>4. Len(b) = m
  BY <1>1, <1>3, StringAssumption
<1> QED
  BY <1>2, <1>4

LEMMA NeedleIsSeq ==
  ASSUME NEW str \in Needles
  PROVE  str \in Seq(Chars) /\ str \in Seq(BufChars)
<1>1. PICK m \in 0 .. MaxNeedle : str \in [1 .. m -> Chars]
  BY StringAssumption DEF Needles, BoundedSeq, SeqOf
<1>2. str \in Seq(Chars)
  BY <1>1, SeqDef, StringAssumption
<1> QED
  BY <1>2, SeqMonotonic DEF BufChars

(* The needle with its terminator is a sequence of len bytes.             *)
LEMMA NeedleProps ==
  ASSUME NEW str \in Seq(BufChars)
  PROVE  /\ Needle(str) \in Seq(BufChars)
         /\ Len(Needle(str)) = Len1(str)
         /\ Len1(str) \in Nat \ {0}
<1>1. <<0>> \in Seq(BufChars) /\ Len(<<0>>) = 1
  BY DEF BufChars
<1> QED
  BY <1>1, ConcatProperties, LenProperties DEF Needle, Len1

(* memcmp(p, s, len) == 0 is the occurrence of the needle at p, when the  *)
(* len bytes from p lie in the table.                                      *)
LEMMA MatchIsOccurrence ==
  ASSUME NEW buf \in Seq(BufChars), NEW size \in 0 .. Len(buf),
         NEW str \in Seq(BufChars), NEW off \in Nat,
         off + Len1(str) <= size
  PROVE  Match(buf, off, str) <=> Occurs(buf, size, str, off)
<1> DEFINE L == Len1(str)
           sub == SubSeq(buf, off + 1, off + L)
           w == Needle(str)
<1>1. L \in Nat \ {0} /\ w \in Seq(BufChars) /\ Len(w) = L
  BY NeedleProps
<1>2. Len(buf) \in Nat /\ buf \in [1 .. Len(buf) -> BufChars]
  BY LenProperties
<1>3. \A i \in off + 1 .. off + L : buf[i] \in BufChars
  BY <1>1, <1>2
<1>4. /\ sub \in Seq(BufChars)
      /\ Len(sub) = L
      /\ \A i \in 1 .. L : sub[i] = buf[off + i]
  BY <1>1, <1>3, SubSeqProperties
<1>5. \A k \in 1 .. L : BufAt(buf, off + k) = buf[off + k]
  BY <1>1, <1>2 DEF BufAt
<1>6. Match(buf, off, str) <=> \A k \in 1 .. L : sub[k] = w[k]
  BY <1>4, <1>5 DEF Match
<1>7. (sub = w) <=> \A k \in 1 .. L : sub[k] = w[k]
  BY <1>1, <1>4, SeqEqual
<1> QED
  BY <1>6, <1>7 DEF Occurs

-----------------------------------------------------------------------------
(* The inductive invariant: while the loop runs, no start position below *)
(* p holds the needle, and the result is still NULL.                     *)
LoopInv ==
  pc = "loop" =>
    /\ ret = NULL
    /\ \A j \in 0 .. p - 1 : ~Occurs(strtab, tabsize, s, j)

IInv == TypeOK /\ LoopInv /\ FindIsFirstOccurrence /\ ComparesInTable

LEMMA InitIInv == Init => IInv
<1> SUFFICES ASSUME Init PROVE IInv
  OBVIOUS
<1>1. TypeOK
  BY StringAssumption DEF Init, TypeOK, NULL
<1> QED
  BY <1>1 DEF Init, IInv, LoopInv, FindIsFirstOccurrence, ComparesInTable

(* The facts about the state that every step uses.                        *)
LEMMA StateFacts ==
  ASSUME TypeOK
  PROVE  /\ strtab \in Seq(BufChars) /\ Len(strtab) \in 0 .. MaxTab
         /\ s \in Seq(BufChars)
         /\ Len1(s) \in Nat \ {0}
         /\ tabsize \in 0 .. Len(strtab)
         /\ p \in 0 .. MaxTab
BY BufferIsSeq, NeedleIsSeq, NeedleProps DEF TypeOK

(* A matching iteration returns the first occurrence.                     *)
LEMMA FoundIsFirst ==
  ASSUME TypeOK, LoopInv, pc = "loop",
         p <= LastOff(tabsize, s), Match(strtab, p, s)
  PROVE  FirstOccurrence(strtab, tabsize, s) = p
<1> DEFINE Occ(j) == Occurs(strtab, tabsize, s, j)
           P(j) == Occ(j) /\ \A i \in 0 .. j - 1 : ~Occ(i)
<1>1. /\ strtab \in Seq(BufChars) /\ s \in Seq(BufChars)
      /\ Len1(s) \in Nat \ {0} /\ tabsize \in 0 .. Len(strtab) /\ p \in Nat
      /\ p + Len1(s) <= tabsize
  BY StateFacts DEF LastOff
<1>2. Occ(p)
  BY <1>1, MatchIsOccurrence
<1>3. p \in 0 .. tabsize /\ P(p)
  BY <1>1, <1>2 DEF LoopInv
<1>4. \A j \in 0 .. tabsize : P(j) => j = p
  BY <1>1, <1>3
<1>5. \E j \in 0 .. tabsize : Occ(j)
  BY <1>3
<1>6. LET c == CHOOSE j \in 0 .. tabsize : P(j) IN c \in 0 .. tabsize /\ P(c)
  BY <1>3
<1> QED
  BY <1>4, <1>5, <1>6 DEF FirstOccurrence

(* A loop that has passed every start position finds nothing.             *)
LEMMA ExhaustedIsNull ==
  ASSUME TypeOK, LoopInv, pc = "loop", p > LastOff(tabsize, s)
  PROVE  FirstOccurrence(strtab, tabsize, s) = NULL
<1>1. /\ Len1(s) \in Nat \ {0} /\ tabsize \in Nat /\ p \in Nat
  BY StateFacts
<1>2. \A j \in 0 .. tabsize : ~Occurs(strtab, tabsize, s, j)
  BY <1>1 DEF LoopInv, Occurs, LastOff
<1> QED
  BY <1>2 DEF FirstOccurrence

(* A step that keeps the call's arguments and moves the other variables *)
(* within their ranges keeps the type.                                     *)
LEMMA TypeStep ==
  ASSUME TypeOK, UNCHANGED <<strtab, tabsize, s>>,
         p' \in 0 .. MaxTab, pc' \in {"loop", "done"},
         ret' \in {NULL} \cup 0 .. MaxTab - 1, rd' \subseteq 0 .. MaxTab
  PROVE  TypeOK'
BY DEF TypeOK

LEMMA StepIInv == IInv /\ [Next]_vars => IInv'
<1> SUFFICES ASSUME IInv, [Next]_vars PROVE IInv'
  OBVIOUS
<1>0. /\ TypeOK /\ LoopInv
      /\ strtab \in Seq(BufChars) /\ Len(strtab) \in 0 .. MaxTab
      /\ Len1(s) \in Nat \ {0}
      /\ tabsize \in 0 .. Len(strtab) /\ p \in 0 .. MaxTab
  BY StateFacts DEF IInv
<1>1. ASSUME Iterate PROVE IInv'
  <2>1. pc = "loop" /\ p + Len1(s) <= tabsize
    <3>1. pc = "loop" /\ p <= tabsize - Len1(s)
      BY <1>1 DEF Iterate, LastOff
    <3> QED
      BY <1>0, <3>1
  <2>2. rd' = p .. p + Len1(s) - 1
    BY <1>1 DEF Iterate, Compared
  <2>3. rd' \subseteq 0 .. tabsize - 1 /\ rd' \subseteq 0 .. MaxTab
    BY <1>0, <2>1, <2>2, StringAssumption
  <2>4. UNCHANGED <<strtab, tabsize, s>>
    BY <1>1 DEF Iterate
  <2>5. p \in 0 .. MaxTab - 1
    BY <1>0, <2>1, StringAssumption
  <2>6. ASSUME Match(strtab, p, s) PROVE IInv'
    <3>1. pc' = "done" /\ ret' = p /\ p' = p
      BY <1>1, <2>6 DEF Iterate
    <3>2. FirstOccurrence(strtab, tabsize, s) = p
      BY <1>0, <2>1, <2>6, FoundIsFirst DEF LastOff
    <3>3. TypeOK'
      BY <1>0, <2>3, <2>4, <2>5, <3>1, TypeStep
    <3> QED
      BY <2>3, <2>4, <3>1, <3>2, <3>3
         DEF IInv, LoopInv, FindIsFirstOccurrence, ComparesInTable
  <2>7. ASSUME ~Match(strtab, p, s) PROVE IInv'
    <3>1. pc' = "loop" /\ ret' = ret /\ p' = p + 1
      BY <1>1, <2>7 DEF Iterate
    <3>2. ~Occurs(strtab, tabsize, s, p)
      BY <1>0, <2>1, <2>7, StateFacts, MatchIsOccurrence
    <3>3. \A j \in 0 .. p : ~Occurs(strtab, tabsize, s, j)
      BY <1>0, <2>1, <3>2 DEF LoopInv
    <3>4. ret = NULL
      BY <1>0, <2>1 DEF LoopInv
    <3>5. TypeOK'
      <4>1. p' \in 0 .. MaxTab /\ ret' \in {NULL} \cup 0 .. MaxTab - 1
        BY <2>5, <3>1, <3>4, StringAssumption
      <4> QED
        BY <1>0, <2>3, <2>4, <3>1, <4>1, TypeStep
    <3>6. LoopInv'
      BY <1>0, <2>4, <3>1, <3>3, <3>4 DEF LoopInv
    <3> QED
      BY <2>3, <2>4, <3>1, <3>5, <3>6
         DEF IInv, FindIsFirstOccurrence, ComparesInTable
  <2> QED
    BY <2>6, <2>7
<1>2. ASSUME NotFound PROVE IInv'
  <2>1. pc = "loop" /\ p > LastOff(tabsize, s)
    BY <1>2 DEF NotFound
  <2>2. FirstOccurrence(strtab, tabsize, s) = NULL
    BY <1>0, <2>1, ExhaustedIsNull
  <2>3. TypeOK'
    BY <1>0, <1>2, TypeStep DEF NotFound
  <2> QED
    BY <1>2, <2>2, <2>3 DEF NotFound, IInv, LoopInv, FindIsFirstOccurrence, ComparesInTable
<1>3. ASSUME UNCHANGED vars PROVE IInv'
  BY <1>3 DEF vars, IInv, TypeOK, LoopInv, FindIsFirstOccurrence, ComparesInTable
<1> QED
  BY <1>1, <1>2, <1>3 DEF Next

(* The lookup keeps its type.                                             *)
THEOREM TypeCorrect == Spec => []TypeOK
<1>1. IInv => TypeOK
  BY DEF IInv
<1> QED
  BY InitIInv, StepIInv, <1>1, PTL DEF Spec

(* fdt_find_string_() returns the first NUL-inclusive occurrence of the  *)
(* needle in the table, or NULL, for every table, size and needle.       *)
THEOREM FindIsFirstOccurrenceInvariant == Spec => []FindIsFirstOccurrence
<1>1. IInv => FindIsFirstOccurrence
  BY DEF IInv
<1> QED
  BY InitIInv, StepIInv, <1>1, PTL DEF Spec

(* Its memcmp() reads only bytes of the table.                            *)
THEOREM ComparesInTableInvariant == Spec => []ComparesInTable
<1>1. IInv => ComparesInTable
  BY DEF IInv
<1> QED
  BY InitIInv, StepIInv, <1>1, PTL DEF Spec

=============================================================================
