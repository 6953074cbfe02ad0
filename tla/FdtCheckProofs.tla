--------------------------- MODULE FdtCheckProofs ---------------------------
(***************************************************************************)
(* Proofs about the header validator for every Width, every assumption    *)
(* mask and every blob: fdt_check_header() returns one of its error codes *)
(* and loads only header bytes (TypeCorrect), and it returns exactly what *)
(* the spec's validator returns in mathematical integers                  *)
(* (HeaderMatchesSpec, CheckMatchesSpecInvariant).                        *)
(***************************************************************************)
EXTENDS FdtCheck, FdtHeaderProofs

-----------------------------------------------------------------------------
(* The check of a block.                                                 *)

(* check_block_() with its overflow comparison is the bound of the spec   *)
(* in mathematical integers, whenever totalsize is a word.                *)
LEMMA CheckBlockIsInBounds ==
  ASSUME NEW h \in Int, NEW t \in Word, NEW base \in Word, NEW size \in Word
  PROVE  CheckBlock(h, t, base, size) <=> InBoundsBlock(h, t, base, size)
<1>1. U32(base + size) = IF base + size < WordBase THEN base + size
                                                   ELSE base + size - WordBase
  BY U32Sum
<1>2. CASE base + size < WordBase
  BY <1>1, <1>2, WordBaseType, SMT DEF CheckBlock, CheckOff, InBoundsBlock, InBoundsOff, Word
<1>3. CASE base + size >= WordBase
  <2>1. ~CheckBlock(h, t, base, size)
    BY <1>1, <1>3, WordBaseType, SMT DEF CheckBlock, Word
  <2>2. ~InBoundsBlock(h, t, base, size)
    BY <1>3, WordBaseType, SMT DEF InBoundsBlock, InBoundsOff, Word
  <2>. QED BY <2>1, <2>2
<1>. QED BY <1>2, <1>3, WordBaseType, SMT DEF Word

-----------------------------------------------------------------------------
(* The validator's early returns.                                         *)

(* Check i of a list of checks returns.                                   *)
Fails(s, i) == s[i].live /\ s[i].fails

(* The checks as the code writes them: one early return after another.   *)
EarlyReturn(s) ==
  IF Fails(s, 1) THEN -s[1].err
  ELSE IF Fails(s, 2) THEN -s[2].err
  ELSE IF Fails(s, 3) THEN -s[3].err
  ELSE IF Fails(s, 4) THEN -s[4].err
  ELSE IF Fails(s, 5) THEN -s[5].err
  ELSE IF Fails(s, 6) THEN -s[6].err
  ELSE IF Fails(s, 7) THEN -s[7].err
  ELSE IF Fails(s, 8) THEN -s[8].err
  ELSE IF Fails(s, 9) THEN -s[9].err
  ELSE IF Fails(s, 10) THEN -s[10].err
  ELSE IF Fails(s, 11) THEN -s[11].err
  ELSE IF Fails(s, 12) THEN -s[12].err
  ELSE 0

(* fdt_check_header() is its checks tried in order, the first that fails *)
(* returning its error.                                                   *)
LEMMA CheckHeaderChain ==
  ASSUME NEW b
  PROVE  FdtCheckHeader(b) = EarlyReturn(CheckSteps(b))
<1> DEFINE s == CheckSteps(b)
<1>1. FailingSteps(b) = {i \in 1 .. NumCheckSteps : Fails(s, i)}
  BY DEF FailingSteps, Fails
<1>2. CASE FailingSteps(b) = {}
  <2>1. \A i \in 1 .. 12 : ~Fails(s, i)
    BY <1>1, <1>2 DEF NumCheckSteps
  <2>. QED BY <2>1, <1>2, SMT DEF FdtCheckHeader, EarlyReturn
<1>3. CASE FailingSteps(b) # {}
  <2>1. \E k \in FailingSteps(b) : \A j \in FailingSteps(b) : k <= j
    BY <1>1, <1>3, LeastCheck
  <2> DEFINE k == FirstFailing(b)
  <2>2. k \in FailingSteps(b) /\ \A j \in FailingSteps(b) : k <= j
    BY <2>1 DEF FirstFailing
  <2>3. k \in 1 .. 12 /\ Fails(s, k) /\ \A j \in 1 .. k - 1 : ~Fails(s, j)
    BY <2>2, <1>1, SMT DEF NumCheckSteps
  <2>4. EarlyReturn(s) = -s[k].err
    BY <2>3, SMT DEF EarlyReturn
  <2>. QED BY <2>4, <1>3 DEF FdtCheckHeader
<1>. QED BY <1>2, <1>3

(* fdt_check_header() returns what the spec's validator returns, for      *)
(* every blob, Width and assumption mask: the u32 sums of check_block_()  *)
(* with the wrap-around guard decide exactly the bounds of the spec.      *)
LEMMA HeaderMatchesSpec ==
  ASSUME NEW b, IsBlob(b)
  PROVE  FdtCheckHeader(b) = SpecCheckHeader(b)
<1> DEFINE ts == Hdr(b, "totalsize")
           hs == HeaderSize(b)
<1>1. ts \in Word
  BY HdrType
<1>2. hs \in Int
  BY DEF HeaderSize, HeaderSizeOf, FDT_V17_SIZE, FDT_V1_SIZE, FDT_V2_SIZE,
         FDT_V3_SIZE, FDT_V16_SIZE
<1>3. CheckBlock(hs, ts, Hdr(b, "off_dt_struct"), Hdr(b, "size_dt_struct"))
        <=> InBoundsBlock(hs, ts, Hdr(b, "off_dt_struct"), Hdr(b, "size_dt_struct"))
  BY <1>1, <1>2, HdrType, CheckBlockIsInBounds
<1>4. CheckBlock(hs, ts, Hdr(b, "off_dt_strings"), Hdr(b, "size_dt_strings"))
        <=> InBoundsBlock(hs, ts, Hdr(b, "off_dt_strings"), Hdr(b, "size_dt_strings"))
  BY <1>1, <1>2, HdrType, CheckBlockIsInBounds
<1>5. FdtCheckHeader(b) = EarlyReturn(CheckSteps(b))
  BY CheckHeaderChain
<1>6. /\ Fails(CheckSteps(b), 1) <=> (TRUE) /\ (b.addr % 8 # 0)
      /\ CheckSteps(b)[1].err = FDT_ERR_ALIGNMENT
  BY DEF Fails, CheckSteps, HeaderSize
<1>7. /\ Fails(CheckSteps(b), 2) <=> (TRUE) /\ (Hdr(b, "magic") # FDT_MAGIC)
      /\ CheckSteps(b)[2].err = FDT_ERR_BADMAGIC
  BY DEF Fails, CheckSteps, HeaderSize
<1>8. /\ Fails(CheckSteps(b), 3) <=> (~CanAssume("LATEST")) /\ (Hdr(b, "version") < FDT_FIRST_SUPPORTED_VERSION)
      /\ CheckSteps(b)[3].err = FDT_ERR_BADVERSION
  BY DEF Fails, CheckSteps, HeaderSize
<1>9. /\ Fails(CheckSteps(b), 4) <=> (~CanAssume("LATEST")) /\ (Hdr(b, "last_comp_version") > FDT_LAST_SUPPORTED_VERSION)
      /\ CheckSteps(b)[4].err = FDT_ERR_BADVERSION
  BY DEF Fails, CheckSteps, HeaderSize
<1>10. /\ Fails(CheckSteps(b), 5) <=> (~CanAssume("LATEST")) /\ (Hdr(b, "version") < Hdr(b, "last_comp_version"))
      /\ CheckSteps(b)[5].err = FDT_ERR_BADVERSION
  BY DEF Fails, CheckSteps, HeaderSize
<1>11. /\ Fails(CheckSteps(b), 6) <=> (~CanAssume("LATEST")) /\ (FALSE)
      /\ CheckSteps(b)[6].err = 0
  BY DEF Fails, CheckSteps, HeaderSize
<1>12. /\ Fails(CheckSteps(b), 7) <=> (~CanAssume("VALID_DTB")) /\ (ts < hs \/ ts > INT_MAX)
      /\ CheckSteps(b)[7].err = FDT_ERR_TRUNCATED
  BY DEF Fails, CheckSteps, HeaderSize
<1>13. /\ Fails(CheckSteps(b), 8) <=> (~CanAssume("VALID_DTB")) /\ (~CheckOff(hs, ts, Hdr(b, "off_mem_rsvmap")))
      /\ CheckSteps(b)[8].err = FDT_ERR_TRUNCATED
  BY DEF Fails, CheckSteps, HeaderSize
<1>14. /\ Fails(CheckSteps(b), 9) <=> (~CanAssume("VALID_DTB") /\ ~CanAssume("LATEST")) /\ (FALSE)
      /\ CheckSteps(b)[9].err = 0
  BY DEF Fails, CheckSteps, HeaderSize
<1>15. /\ Fails(CheckSteps(b), 10) <=> (~CanAssume("VALID_DTB") /\ ~CanAssume("LATEST") /\ Hdr(b, "version") < 17) /\ (~CheckOff(hs, ts, Hdr(b, "off_dt_struct")))
      /\ CheckSteps(b)[10].err = FDT_ERR_TRUNCATED
  BY DEF Fails, CheckSteps, HeaderSize
<1>16. /\ Fails(CheckSteps(b), 11) <=> (~CanAssume("VALID_DTB") /\ (CanAssume("LATEST") \/ Hdr(b, "version") >= 17)) /\ (~CheckBlock(hs, ts, Hdr(b, "off_dt_struct"), Hdr(b, "size_dt_struct")))
      /\ CheckSteps(b)[11].err = FDT_ERR_TRUNCATED
  BY DEF Fails, CheckSteps, HeaderSize
<1>17. /\ Fails(CheckSteps(b), 12) <=> (~CanAssume("VALID_DTB")) /\ (~CheckBlock(hs, ts, Hdr(b, "off_dt_strings"), Hdr(b, "size_dt_strings")))
      /\ CheckSteps(b)[12].err = FDT_ERR_TRUNCATED
  BY DEF Fails, CheckSteps, HeaderSize
<1>18. EarlyReturn(CheckSteps(b)) =
          IF Fails(CheckSteps(b), 1) THEN -CheckSteps(b)[1].err
          ELSE IF Fails(CheckSteps(b), 2) THEN -CheckSteps(b)[2].err
          ELSE IF Fails(CheckSteps(b), 3) THEN -CheckSteps(b)[3].err
          ELSE IF Fails(CheckSteps(b), 4) THEN -CheckSteps(b)[4].err
          ELSE IF Fails(CheckSteps(b), 5) THEN -CheckSteps(b)[5].err
          ELSE IF Fails(CheckSteps(b), 6) THEN -CheckSteps(b)[6].err
          ELSE IF Fails(CheckSteps(b), 7) THEN -CheckSteps(b)[7].err
          ELSE IF Fails(CheckSteps(b), 8) THEN -CheckSteps(b)[8].err
          ELSE IF Fails(CheckSteps(b), 9) THEN -CheckSteps(b)[9].err
          ELSE IF Fails(CheckSteps(b), 10) THEN -CheckSteps(b)[10].err
          ELSE IF Fails(CheckSteps(b), 11) THEN -CheckSteps(b)[11].err
          ELSE IF Fails(CheckSteps(b), 12) THEN -CheckSteps(b)[12].err
          ELSE 0
  BY DEF EarlyReturn
<1>19. FdtCheckHeader(b) =
          IF (TRUE) /\ (b.addr % 8 # 0) THEN -FDT_ERR_ALIGNMENT
          ELSE IF (TRUE) /\ (Hdr(b, "magic") # FDT_MAGIC) THEN -FDT_ERR_BADMAGIC
          ELSE IF (~CanAssume("LATEST")) /\ (Hdr(b, "version") < FDT_FIRST_SUPPORTED_VERSION) THEN -FDT_ERR_BADVERSION
          ELSE IF (~CanAssume("LATEST")) /\ (Hdr(b, "last_comp_version") > FDT_LAST_SUPPORTED_VERSION) THEN -FDT_ERR_BADVERSION
          ELSE IF (~CanAssume("LATEST")) /\ (Hdr(b, "version") < Hdr(b, "last_comp_version")) THEN -FDT_ERR_BADVERSION
          ELSE IF (~CanAssume("LATEST")) /\ (FALSE) THEN -0
          ELSE IF (~CanAssume("VALID_DTB")) /\ (ts < hs \/ ts > INT_MAX) THEN -FDT_ERR_TRUNCATED
          ELSE IF (~CanAssume("VALID_DTB")) /\ (~CheckOff(hs, ts, Hdr(b, "off_mem_rsvmap"))) THEN -FDT_ERR_TRUNCATED
          ELSE IF (~CanAssume("VALID_DTB") /\ ~CanAssume("LATEST")) /\ (FALSE) THEN -0
          ELSE IF (~CanAssume("VALID_DTB") /\ ~CanAssume("LATEST") /\ Hdr(b, "version") < 17) /\ (~CheckOff(hs, ts, Hdr(b, "off_dt_struct"))) THEN -FDT_ERR_TRUNCATED
          ELSE IF (~CanAssume("VALID_DTB") /\ (CanAssume("LATEST") \/ Hdr(b, "version") >= 17)) /\ (~CheckBlock(hs, ts, Hdr(b, "off_dt_struct"), Hdr(b, "size_dt_struct"))) THEN -FDT_ERR_TRUNCATED
          ELSE IF (~CanAssume("VALID_DTB")) /\ (~CheckBlock(hs, ts, Hdr(b, "off_dt_strings"), Hdr(b, "size_dt_strings"))) THEN -FDT_ERR_TRUNCATED
          ELSE 0
  BY <1>5, <1>18, <1>6, <1>7, <1>8, <1>9, <1>10, <1>11, <1>12, <1>13, <1>14, <1>15, <1>16, <1>17, SMT
<1>20. INT_MAX \in Int
  BY WordBaseType, SMT DEF INT_MAX
<1>21. /\ Hdr(b, "version") \in Int /\ Hdr(b, "last_comp_version") \in Int
       /\ Hdr(b, "off_mem_rsvmap") \in Int /\ Hdr(b, "off_dt_struct") \in Int
  BY HdrType DEF Word
<1>. QED
  BY <1>1, <1>2, <1>3, <1>4, <1>19, <1>20, <1>21, SMT
  DEF SpecCheckHeader, HeaderSize, CheckOff, InBoundsOff, Word,
      FDT_FIRST_SUPPORTED_VERSION, FDT_LAST_SUPPORTED_VERSION

-----------------------------------------------------------------------------
(* The result and the bytes read.                                         *)

(* fdt_check_header() returns 0 or one of its four negated error codes.   *)
LEMMA CheckHeaderResultType ==
  ASSUME NEW b, IsBlob(b)
  PROVE  FdtCheckHeader(b) \in ResultCodes
<1>1. SpecCheckHeader(b) \in ResultCodes
  BY DEF SpecCheckHeader, ResultCodes
<1>. QED BY <1>1, HeaderMatchesSpec

-----------------------------------------------------------------------------
(* The invariants of the validator component.                             *)

(* A call of fdt_check_header() keeps the component well typed.          *)
LEMMA TypeOKStep == TypeOK /\ [Next]_vars => TypeOK'
<1> SUFFICES ASSUME TypeOK, [Next]_vars PROVE TypeOK'
  OBVIOUS
<1>1. CASE Check
  BY <1>1, CheckHeaderResultType, CheckHeaderReadsType DEF TypeOK, Check
<1>2. CASE UNCHANGED vars
  BY <1>2 DEF TypeOK, vars
<1>. QED BY <1>1, <1>2 DEF Next

(* Type correctness: whatever blob the caller holds, the validator's last *)
(* result is one of its codes and the bytes it loaded are header bytes.   *)
THEOREM TypeCorrect == Spec => []TypeOK
<1>1. Init => TypeOK
  BY BlobsAssumption DEF Init, TypeOK, ResultCodes
<1>. QED BY <1>1, TypeOKStep, PTL DEF Spec

(* Whenever fdt_check_header() has run, it has returned what the spec's   *)
(* validator returns for the blob, for every Width: the wrap-around guard *)
(* of check_block_() makes the u32 bounds checks exact.                   *)
THEOREM CheckMatchesSpecInvariant == Spec => []CheckMatchesSpec
<1> DEFINE Inv == TypeOK /\ CheckMatchesSpec
<1>1. Init => Inv
  BY BlobsAssumption DEF Init, TypeOK, ResultCodes, CheckMatchesSpec
<1>2. Inv /\ [Next]_vars => Inv'
  <2> SUFFICES ASSUME Inv, [Next]_vars PROVE Inv'
    OBVIOUS
  <2>1. TypeOK'
    BY TypeOKStep DEF Inv
  <2>2. ASSUME Check PROVE CheckMatchesSpec'
    BY <2>2, HeaderMatchesSpec DEF Inv, TypeOK, Check, CheckMatchesSpec
  <2>3. ASSUME UNCHANGED vars PROVE CheckMatchesSpec'
    BY <2>3 DEF Inv, CheckMatchesSpec, vars
  <2>4. CheckMatchesSpec'
    BY <2>2, <2>3 DEF Next
  <2>. QED BY <2>1, <2>4 DEF Inv
<1>. QED BY <1>1, <1>2, PTL DEF Spec

=============================================================================
