--------------------------- MODULE FdtHeaderProofs ---------------------------
(***************************************************************************)
(* Facts about the header model and validator of FdtHeader that the      *)
(* proofs of its callers share: header fields are words, the u32 sum of  *)
(* two words, the checks that fail have a first one, and the checks that *)
(* run load header bytes only.                                            *)
(***************************************************************************)
EXTENDS FdtHeader, TLAPS

-----------------------------------------------------------------------------
(* Arithmetic of words.                                                   *)

(* A byte of a blob is a byte value.                                      *)
LEMMA ByteAtType ==
  ASSUME NEW b, IsBlob(b), NEW i
  PROVE  ByteAt(b.bytes, i) \in Byte
BY ByteBaseAssumption DEF IsBlob, ByteAt, Byte

(* Four bytes composed big-endian make a word.                            *)
LEMMA Ld32Type ==
  ASSUME NEW b, IsBlob(b), NEW off
  PROVE  Ld32(b.bytes, off) \in Word
<1> DEFINE B == ByteBase
           b0 == ByteAt(b.bytes, off)
           b1 == ByteAt(b.bytes, off + 1)
           b2 == ByteAt(b.bytes, off + 2)
           b3 == ByteAt(b.bytes, off + 3)
<1>1. /\ b0 \in 0 .. B - 1 /\ b1 \in 0 .. B - 1
      /\ b2 \in 0 .. B - 1 /\ b3 \in 0 .. B - 1
  BY ByteAtType DEF Byte
<1>2. b0 * B + b1 \in 0 .. B * B - 1
  BY <1>1, ByteBaseAssumption, SMT
<1>3. (b0 * B + b1) * B + b2 \in 0 .. B * B * B - 1
  BY <1>1, <1>2, ByteBaseAssumption, SMT
<1>4. ((b0 * B + b1) * B + b2) * B + b3 \in 0 .. B * B * B * B - 1
  BY <1>1, <1>3, ByteBaseAssumption, SMT
<1>. QED BY <1>4 DEF Ld32, Word, WordBase

(* Every header field of a blob is a word.                                *)
LEMMA HdrType ==
  ASSUME NEW b, IsBlob(b), NEW f
  PROVE  Hdr(b, f) \in Word
BY Ld32Type DEF Hdr

(* 2^Width is a positive number larger than every header size.          *)
LEMMA WordBaseType == WordBase \in Nat /\ WordBase >= 256
BY ByteBaseAssumption, SMT DEF WordBase

(* The u32 sum of two words: the sum itself, or the sum less 2^Width.     *)
LEMMA U32Sum ==
  ASSUME NEW x \in Word, NEW y \in Word
  PROVE  U32(x + y) = IF x + y < WordBase THEN x + y ELSE x + y - WordBase
BY WordBaseType, SMT DEF U32, Word

-----------------------------------------------------------------------------
(* A nonempty set of check indices has a least element.                   *)
LEMMA LeastCheck ==
  ASSUME NEW F, F \subseteq 1 .. NumCheckSteps, F # {}
  PROVE  \E k \in F : \A j \in F : k <= j
<1>1. CASE 1 \in F /\ \A m \in 1 .. 0 : m \notin F
  BY <1>1, SMT
<1>2. CASE 2 \in F /\ \A m \in 1 .. 1 : m \notin F
  BY <1>2, SMT
<1>3. CASE 3 \in F /\ \A m \in 1 .. 2 : m \notin F
  BY <1>3, SMT
<1>4. CASE 4 \in F /\ \A m \in 1 .. 3 : m \notin F
  BY <1>4, SMT
<1>5. CASE 5 \in F /\ \A m \in 1 .. 4 : m \notin F
  BY <1>5, SMT
<1>6. CASE 6 \in F /\ \A m \in 1 .. 5 : m \notin F
  BY <1>6, SMT
<1>7. CASE 7 \in F /\ \A m \in 1 .. 6 : m \notin F
  BY <1>7, SMT
<1>8. CASE 8 \in F /\ \A m \in 1 .. 7 : m \notin F
  BY <1>8, SMT
<1>9. CASE 9 \in F /\ \A m \in 1 .. 8 : m \notin F
  BY <1>9, SMT
<1>10. CASE 10 \in F /\ \A m \in 1 .. 9 : m \notin F
  BY <1>10, SMT
<1>11. CASE 11 \in F /\ \A m \in 1 .. 10 : m \notin F
  BY <1>11, SMT
<1>12. CASE 12 \in F /\ \A m \in 1 .. 11 : m \notin F
  BY <1>12, SMT
<1>. QED
  <2>1. 1 \notin F \/ \E k \in F : \A j \in F : k <= j
    BY <1>1
  <2>2. (\A m \in 1 .. 2 : m \notin F) \/ \E k \in F : \A j \in F : k <= j
    BY <2>1, <1>2, SMT
  <2>3. (\A m \in 1 .. 3 : m \notin F) \/ \E k \in F : \A j \in F : k <= j
    BY <2>2, <1>3, SMT
  <2>4. (\A m \in 1 .. 4 : m \notin F) \/ \E k \in F : \A j \in F : k <= j
    BY <2>3, <1>4, SMT
  <2>5. (\A m \in 1 .. 5 : m \notin F) \/ \E k \in F : \A j \in F : k <= j
    BY <2>4, <1>5, SMT
  <2>6. (\A m \in 1 .. 6 : m \notin F) \/ \E k \in F : \A j \in F : k <= j
    BY <2>5, <1>6, SMT
  <2>7. (\A m \in 1 .. 7 : m \notin F) \/ \E k \in F : \A j \in F : k <= j
    BY <2>6, <1>7, SMT
  <2>8. (\A m \in 1 .. 8 : m \notin F) \/ \E k \in F : \A j \in F : k <= j
    BY <2>7, <1>8, SMT
  <2>9. (\A m \in 1 .. 9 : m \notin F) \/ \E k \in F : \A j \in F : k <= j
    BY <2>8, <1>9, SMT
  <2>10. (\A m \in 1 .. 10 : m \notin F) \/ \E k \in F : \A j \in F : k <= j
    BY <2>9, <1>10, SMT
  <2>11. (\A m \in 1 .. 11 : m \notin F) \/ \E k \in F : \A j \in F : k <= j
    BY <2>10, <1>11, SMT
  <2>12. (\A m \in 1 .. 12 : m \notin F) \/ \E k \in F : \A j \in F : k <= j
    BY <2>11, <1>12, SMT
  <2>13. PICK x \in F : TRUE
    OBVIOUS
  <2>14. x \in 1 .. 12
    BY <2>13 DEF NumCheckSteps
  <2>. QED BY <2>12, <2>13, <2>14


(* Header fields lie in the 40 bytes of a version-17 header.             *)
LEMMA HeaderBytesInHeader ==
  ASSUME NEW S \in SUBSET Fields
  PROVE  HeaderBytes(S) \subseteq 0 .. FDT_V17_SIZE - 1
<1>1. \A f \in Fields : FieldBytes(f) \subseteq 0 .. FDT_V17_SIZE - 1
  BY SMT DEF Fields, FieldOff, FieldBytes, FDT_V17_SIZE
<1>. QED BY <1>1 DEF HeaderBytes

(* The checks that run load header bytes only.                            *)
LEMMA CheckHeaderReadsType ==
  ASSUME NEW b
  PROVE  CheckHeaderReads(b) \subseteq 0 .. FDT_V17_SIZE - 1
<1>1. /\ {} \subseteq 0 .. FDT_V17_SIZE - 1
      /\ HeaderBytes({"magic"}) \subseteq 0 .. FDT_V17_SIZE - 1
      /\ HeaderBytes({"version"}) \subseteq 0 .. FDT_V17_SIZE - 1
      /\ HeaderBytes({"last_comp_version"}) \subseteq 0 .. FDT_V17_SIZE - 1
      /\ HeaderBytes({"version", "last_comp_version"}) \subseteq 0 .. FDT_V17_SIZE - 1
      /\ HeaderBytes({"totalsize"}) \subseteq 0 .. FDT_V17_SIZE - 1
      /\ HeaderBytes({"totalsize", "off_mem_rsvmap"}) \subseteq 0 .. FDT_V17_SIZE - 1
      /\ HeaderBytes({"totalsize", "off_dt_struct"}) \subseteq 0 .. FDT_V17_SIZE - 1
      /\ HeaderBytes({"totalsize", "off_dt_struct", "size_dt_struct"}) \subseteq 0 .. FDT_V17_SIZE - 1
      /\ HeaderBytes({"totalsize", "off_dt_strings", "size_dt_strings"}) \subseteq 0 .. FDT_V17_SIZE - 1
  <2>. \A S \in {{"magic"}, {"version"}, {"last_comp_version"}, {"version", "last_comp_version"}, {"totalsize"}, {"totalsize", "off_mem_rsvmap"}, {"totalsize", "off_dt_struct"}, {"totalsize", "off_dt_struct", "size_dt_struct"}, {"totalsize", "off_dt_strings", "size_dt_strings"}} : S \in SUBSET Fields
    BY DEF Fields, FieldOff
  <2>. QED BY HeaderBytesInHeader
<1>2. \A i \in 1 .. NumCheckSteps : CheckSteps(b)[i].reads \subseteq 0 .. FDT_V17_SIZE - 1
  BY <1>1, SMT DEF CheckSteps, NumCheckSteps
<1> DEFINE last == IF FailingSteps(b) = {} THEN NumCheckSteps ELSE FirstFailing(b)
<1>3. last \in 1 .. NumCheckSteps
  <2>1. CASE FailingSteps(b) # {}
    <3>1. FailingSteps(b) \subseteq 1 .. NumCheckSteps
      BY DEF FailingSteps
    <3>2. \E k \in FailingSteps(b) : \A j \in FailingSteps(b) : k <= j
      BY <2>1, <3>1, LeastCheck
    <3>. QED BY <2>1, <3>1, <3>2 DEF FirstFailing
  <2>. QED BY <2>1 DEF NumCheckSteps
<1>. SUFFICES ASSUME NEW x \in CheckHeaderReads(b) PROVE x \in 0 .. FDT_V17_SIZE - 1
  OBVIOUS
<1>4. PICK i \in 1 .. last : x \in CheckSteps(b)[i].reads
  BY DEF CheckHeaderReads
<1>5. i \in 1 .. NumCheckSteps
  BY <1>3, SMT DEF NumCheckSteps
<1>. QED BY <1>2, <1>4, <1>5

(* fdt_check_header() returns an integer: 0 or the negation of the error *)
(* of its first failing check.                                            *)
LEMMA CheckHeaderInt ==
  ASSUME NEW b
  PROVE  FdtCheckHeader(b) \in Int
<1>1. \A i \in 1 .. NumCheckSteps : CheckSteps(b)[i].err \in Nat
  BY SMT DEF CheckSteps, NumCheckSteps, FDT_ERR_ALIGNMENT, FDT_ERR_BADMAGIC,
             FDT_ERR_BADVERSION, FDT_ERR_TRUNCATED
<1>2. CASE FailingSteps(b) # {}
  <2>1. FailingSteps(b) \subseteq 1 .. NumCheckSteps
    BY DEF FailingSteps
  <2>2. \E k \in FailingSteps(b) : \A j \in FailingSteps(b) : k <= j
    BY <1>2, <2>1, LeastCheck
  <2>3. FirstFailing(b) \in 1 .. NumCheckSteps
    BY <2>1, <2>2 DEF FirstFailing
  <2>. QED BY <1>1, <1>2, <2>3 DEF FdtCheckHeader
<1>. QED BY <1>2 DEF FdtCheckHeader

=============================================================================
