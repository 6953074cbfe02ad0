---------------------------- MODULE FdtWalkProofs ----------------------------
(***************************************************************************)
(* Proofs about the tag walker and the tree traversal for every Width,    *)
(* every blob that holds totalsize bytes and every offset a caller may    *)
(* pass, in a build that keeps the checks of fdt_offset_ptr() and         *)
(* fdt_next_tag() (neither VALID_DTB nor VALID_INPUT assumed): the walker *)
(* stays well typed, reads only bytes of the structure block, never      *)
(* dereferences an out-of-blob pointer, and visits only offsets where    *)
(* FDT_BEGIN_NODE is stored.  In every build: no byte of a rejected blob *)
(* is read.                                                               *)
(***************************************************************************)
EXTENDS FdtWalk, FdtHeaderProofs, WellFoundedInduction, FiniteSetTheorems

(* The build keeps the run-time checks of the walker.                     *)
ChecksKept == ~CanAssume("VALID_DTB") /\ ~CanAssume("VALID_INPUT")

(* The offsets the walker's int variables can hold: ints, so at most      *)
(* INT_MAX (negative values are error codes or -1).                       *)
OffsetVal == {x \in Int : x <= INT_MAX}

-----------------------------------------------------------------------------
(* Arithmetic.                                                            *)

(* A nonempty set of naturals has a least element: < is well founded on *)
(* Nat.                                                                   *)
LEMMA NatLeast ==
  ASSUME NEW T \in SUBSET Nat, T # {}
  PROVE  \E t \in T : \A y \in T : t <= y
<1>1. PICK t \in T : \A y \in T : ~(<<y, t>> \in OpToRel(<, Nat))
  BY NatLessThanWellFounded, WFMin
<1>2. ASSUME NEW y \in T, y < t PROVE <<y, t>> \in OpToRel(<, Nat)
  <2>1. <<y, t>> \in Nat \X Nat
    OBVIOUS
  <2>. QED BY <2>1, <1>2, Zenon DEF OpToRel
<1>3. \A y \in T : ~(y < t)
  BY <1>1, <1>2, Zenon
<1>. QED BY <1>3, SMT

(* A nonempty set of integers bounded below has a least element.         *)
LEMMA LeastAbove ==
  ASSUME NEW lo \in Int, NEW S \in SUBSET {x \in Int : x >= lo}, S # {}
  PROVE  \E m \in S : \A k \in S : m <= k
<1> DEFINE T == {x - lo : x \in S}
<1>1. T \subseteq Nat /\ T # {}
  <2>1. \A x \in S : x - lo \in Nat
    BY SMT
  <2>. QED BY <2>1, Zenon
<1>2. PICK t \in T : \A y \in T : t <= y
  BY <1>1, NatLeast
<1>3. PICK m \in S : t = m - lo
  OBVIOUS
<1>4. ASSUME NEW k \in S PROVE m <= k
  <2>1. k - lo \in T
    OBVIOUS
  <2>2. t <= k - lo
    BY <1>2, <2>1
  <2>. QED BY <2>2, <1>3, SMT
<1>. QED BY <1>4

(* The int value of a bit pattern is at most INT_MAX.                     *)
LEMMA ToIntBound ==
  ASSUME NEW x \in Int
  PROVE  ToInt(x) \in OffsetVal
BY WordBaseType, SMT DEF ToInt, U32, OffsetVal, INT_MAX

(* FDT_TAGALIGN of an int is an int.                                      *)
LEMMA TagAlignBound ==
  ASSUME NEW x \in Int
  PROVE  TagAlign(x) \in OffsetVal
<1> DEFINE y == ToInt(x + FDT_TAGSIZE - 1)
<1>1. y \in Int /\ y <= INT_MAX
  BY ToIntBound DEF FDT_TAGSIZE, OffsetVal
<1>2. \A z \in Int : z - (z % 4) <= z
  BY SMT
<1>3. y - (y % FDT_TAGSIZE) \in Int /\ y - (y % FDT_TAGSIZE) <= INT_MAX
  BY <1>1, <1>2, WordBaseType, SMT DEF FDT_TAGSIZE, INT_MAX
<1>. QED BY <1>3 DEF TagAlign, OffsetVal

(* fdt_offset_ptr(fdt, o, len) returns a pointer only to len bytes of the *)
(* structure block that lie below totalsize, when it checks its bounds:  *)
(* the u32 comparisons catch every sum that wraps.                        *)
LEMMA OffsetPtrBounds ==
  ASSUME ~CanAssume("VALID_INPUT"), NEW b, IsBlob(b),
         NEW o \in Word, NEW len \in Word, OffsetPtrOk(b, o, len)
  PROVE  /\ Ptr(b, o) \in Nat
         /\ Ptr(b, o) + len <= Hdr(b, "totalsize")
         /\ Ptr(b, o) .. Ptr(b, o) + len - 1 \subseteq WalkableBytes(b)
<1> DEFINE so == StructOff(b)
           ts == Hdr(b, "totalsize")
           sz == Hdr(b, "size_dt_struct")
<1>1. so \in Word /\ ts \in Word /\ sz \in Word
  BY HdrType DEF StructOff
<1>2. U32(o) = o
  BY WordBaseType, SMT DEF U32, Word
<1>3. ~(U32(o + so) < U32(o))
  BY DEF OffsetPtrOk, StructOff
<1>4. o + so < WordBase
  <2>1. U32(o + so) = IF o + so < WordBase THEN o + so ELSE o + so - WordBase
    BY <1>1, U32Sum
  <2>. QED BY <1>1, <1>2, <1>3, <2>1, WordBaseType, SMT DEF Word
<1>5. U32(o + so) = o + so /\ o + so \in Word
  BY <1>1, <1>4, WordBaseType, SMT DEF U32, Word
<1>6. ~(U32(U32(o + so) + len) < U32(o + so)) /\ ~(U32(U32(o + so) + len) > ts)
  BY DEF OffsetPtrOk, StructOff
<1>7. o + so + len <= ts
  <2>1. U32(o + so + len) = IF o + so + len < WordBase THEN o + so + len
                                                     ELSE o + so + len - WordBase
    BY <1>5, U32Sum
  <2>. QED BY <1>1, <1>5, <1>6, <2>1, WordBaseType, SMT DEF Word
<1>8. CASE CanAssume("LATEST") \/ Version(b) >= 17
  <2>1. ~(U32(U32(o) + len) < U32(o)) /\ ~(U32(o + len) > sz)
    BY <1>8 DEF OffsetPtrOk
  <2>2. U32(o + len) = IF o + len < WordBase THEN o + len ELSE o + len - WordBase
    BY U32Sum
  <2>3. o + len <= sz
    BY <1>2, <2>1, <2>2, <1>1, WordBaseType, SMT DEF Word
  <2>. QED BY <1>1, <1>7, <1>8, <2>3, SMT DEF WalkableBytes, Ptr, Word
<1>9. CASE ~(CanAssume("LATEST") \/ Version(b) >= 17)
  BY <1>1, <1>7, <1>9, SMT DEF WalkableBytes, Ptr, Word
<1>. QED BY <1>8, <1>9

(* A blob of the model holds every byte below its totalsize.              *)
LEMMA BelowTotalsizeInBlob ==
  ASSUME NEW b \in Blobs, NEW i \in 0 .. Hdr(b, "totalsize") - 1
  PROVE  i \in DOMAIN b.bytes
BY WalkBlobsAssumption

(* So what fdt_offset_ptr() accepts is in the blob and in the structure   *)
(* block.                                                                 *)
LEMMA OffsetPtrInBlob ==
  ASSUME ~CanAssume("VALID_INPUT"), NEW b \in Blobs,
         NEW o \in Word, NEW len \in Word, OffsetPtrOk(b, o, len)
  PROVE  /\ Ptr(b, o) .. Ptr(b, o) + len - 1 \subseteq WalkableBytes(b)
         /\ Ptr(b, o) .. Ptr(b, o) + len - 1 \subseteq DOMAIN b.bytes
         /\ Ptr(b, o) + len <= Hdr(b, "totalsize")
<1>1. IsBlob(b)
  BY WalkBlobsAssumption
<1>2. /\ Ptr(b, o) \in Nat
      /\ Ptr(b, o) + len <= Hdr(b, "totalsize")
      /\ Ptr(b, o) .. Ptr(b, o) + len - 1 \subseteq WalkableBytes(b)
  BY <1>1, OffsetPtrBounds
<1>3. Ptr(b, o) .. Ptr(b, o) + len - 1 \subseteq 0 .. Hdr(b, "totalsize") - 1
  BY <1>1, <1>2, HdrType, SMT DEF Word
<1>. QED BY <1>2, <1>3, BelowTotalsizeInBlob

-----------------------------------------------------------------------------
(* The name scan of FDT_BEGIN_NODE.                                       *)

(* The scan stops at the first offset from o where it must, and no later *)
(* than hi.                                                               *)
LEMMA ScanStopFirst ==
  ASSUME NEW b \in Blobs, NEW o \in Int
  PROVE  /\ ScanStop(b, o) \in o .. o + Cardinality(DOMAIN b.bytes)
         /\ \A j \in o .. ScanStop(b, o) - 1 : ~Stops(b, j)
<1> DEFINE hi == o + Cardinality(DOMAIN b.bytes)
           S == {k \in o .. hi : k = hi \/ Stops(b, k)}
<1>1. Cardinality(DOMAIN b.bytes) \in Nat
  BY WalkBlobsAssumption, FS_CardinalityType
<1>2. hi \in S
  BY <1>1, SMT
<1>3. S \in SUBSET {x \in Int : x >= o}
  BY <1>1, SMT
<1>4. PICK m \in S : \A k \in S : m <= k
  BY <1>2, <1>3, LeastAbove
<1>5. ASSUME NEW j \in o .. m - 1 PROVE ~Stops(b, j)
  <2>1. j \in o .. hi /\ j < m /\ j # hi
    BY <1>1, <1>4, SMT
  <2>2. ~(m <= j)
    BY <2>1, <1>4, SMT
  <2>. QED BY <2>1, <2>2, <1>4
<1>6. m \in o .. hi /\ (m = hi \/ Stops(b, m))
  BY <1>4
<1>. QED BY <1>5, <1>6, Zenon DEF ScanStop

(* Every byte the scan reads before it stops is a byte of the structure  *)
(* block held by the blob, and the scan stops on a word offset: the      *)
(* checks of fdt_offset_ptr() end it before an offset can wrap.           *)
LEMMA ScanBounds ==
  ASSUME ~CanAssume("VALID_INPUT"), NEW b \in Blobs, NEW o \in Word
  PROVE  /\ ScanStop(b, o) \in o .. WordBase - 1
         /\ {Ptr(b, j) : j \in o .. ScanStop(b, o) - 1} \subseteq WalkableBytes(b)
         /\ {Ptr(b, j) : j \in o .. ScanStop(b, o) - 1} \subseteq DOMAIN b.bytes
<1> DEFINE k == ScanStop(b, o)
<1>1. k \in Int /\ k >= o /\ \A j \in o .. k - 1 : OffsetPtrOk(b, j, 1)
  <2>1. o \in Int
    BY WordBaseType DEF Word
  <2>2. k \in o .. o + Cardinality(DOMAIN b.bytes) /\ \A j \in o .. k - 1 : ~Stops(b, j)
    BY <2>1, ScanStopFirst
  <2>3. Cardinality(DOMAIN b.bytes) \in Nat
    BY WalkBlobsAssumption, FS_CardinalityType
  <2>4. k \in Int /\ k >= o
    BY <2>1, <2>2, <2>3, SMT
  <2>. QED BY <2>2, <2>4, Zenon DEF Stops
<1>2. 1 \in Word
  BY WordBaseType DEF Word
<1>3. k <= WordBase - 1
  <2>1. SUFFICES ASSUME k >= WordBase PROVE FALSE
    BY <1>1, WordBaseType, SMT
  <2>2. WordBase - 1 \in o .. k - 1 /\ WordBase - 1 \in Word
    BY <1>1, <2>1, WordBaseType, SMT DEF Word
  <2>3. Ptr(b, WordBase - 1) + 1 <= Hdr(b, "totalsize")
    BY <1>1, <1>2, <2>2, OffsetPtrInBlob
  <2>4. StructOff(b) \in Word /\ Hdr(b, "totalsize") \in Word
    BY WalkBlobsAssumption, HdrType DEF StructOff
  <2>. QED BY <2>3, <2>4, WordBaseType, SMT DEF Ptr, Word
<1>4. ASSUME NEW j \in o .. k - 1
      PROVE  Ptr(b, j) \in WalkableBytes(b) /\ Ptr(b, j) \in DOMAIN b.bytes
  <2>1. j \in Word
    BY <1>1, <1>3, WordBaseType, SMT DEF Word
  <2>2. Ptr(b, j) \in Ptr(b, j) .. Ptr(b, j) + 1 - 1
    BY <2>1, WalkBlobsAssumption, HdrType, SMT DEF Ptr, StructOff, Word
  <2>. QED BY <1>1, <1>2, <2>1, <2>2, OffsetPtrInBlob
<1>. QED BY <1>1, <1>3, <1>4, SMT

-----------------------------------------------------------------------------
(* fdt_next_tag().                                                        *)

(* What a call of fdt_next_tag() must satisfy: no dereference beyond the *)
(* blob, reads in the structure block, a tag the switch of its callers  *)
(* handles, and an int left in nextoffset.                                *)
SafeTag(b, t) ==
  /\ ~t.fault
  /\ t.tag \in TagNames
  /\ t.reads \subseteq WalkableBytes(b)
  /\ t.next \in OffsetVal

(* An error code is an int.                                               *)
LEMMA ErrorVal ==
  ASSUME NEW e \in Nat
  PROVE  -e \in OffsetVal
BY WordBaseType, SMT DEF OffsetVal, INT_MAX

(* The common tail of the tag cases returns what it was given to return. *)
LEMMA FinishSafe ==
  ASSUME NEW b, NEW start \in Int, NEW off \in Int,
         NEW reads \in SUBSET WalkableBytes(b), NEW tg \in TagNames
  PROVE  SafeTag(b, Finish(b, start, off, reads, tg))
<1>1. TagAlign(off) \in OffsetVal
  BY TagAlignBound
<1>2. -FDT_ERR_BADSTRUCTURE \in OffsetVal
  BY ErrorVal DEF FDT_ERR_BADSTRUCTURE
<1>. QED BY <1>1, <1>2, Zenon DEF Finish, Ret, SafeTag, TagNames

(* An early return of fdt_next_tag() that reports a bad structure.        *)
LEMMA BadStructureSafe ==
  ASSUME NEW b, NEW reads \in SUBSET WalkableBytes(b)
  PROVE  SafeTag(b, Ret("END", -FDT_ERR_BADSTRUCTURE, reads))
<1>1. -FDT_ERR_BADSTRUCTURE \in OffsetVal
  BY ErrorVal DEF FDT_ERR_BADSTRUCTURE
<1>. QED BY <1>1 DEF Ret, SafeTag, TagNames

(* With its checks kept, fdt_next_tag() from any int offset reads only   *)
(* bytes of the structure block, never faults and leaves an int in        *)
(* nextoffset: every pointer it dereferences is one fdt_offset_ptr()     *)
(* accepted.                                                              *)
LEMMA NextTagSafe ==
  ASSUME ChecksKept, NEW b \in Blobs, NEW start \in OffsetVal
  PROVE  SafeTag(b, NextTag(b, start))
<1> DEFINE valid == CanAssume("VALID_DTB")
           tagok == OffsetPtrOk(b, start, FDT_TAGSIZE)
           tag == TagOf(Ld32(b.bytes, Ptr(b, start)))
           o1 == start + FDT_TAGSIZE
           treads == Bytes4(b, start)
<1>1. ~valid /\ ~CanAssume("VALID_INPUT")
  BY DEF ChecksKept
<1>2. CASE ~tagok
  <2>1. -FDT_ERR_TRUNCATED \in OffsetVal
    BY ErrorVal DEF FDT_ERR_TRUNCATED
  <2>2. SafeTag(b, Ret("END", -FDT_ERR_TRUNCATED, {}))
    BY <2>1 DEF Ret, SafeTag, TagNames
  <2>. QED BY <1>1, <1>2, <2>2, Zenon DEF NextTag
<1>3. CASE tagok
  <2>1. start \in Word /\ 4 \in Word
    BY <1>3, WordBaseType, SMT DEF OffsetPtrOk, OffsetVal, Word, INT_MAX, FDT_TAGSIZE
  <2>2. treads = Ptr(b, start) .. Ptr(b, start) + 4 - 1
    BY SMT DEF Bytes4
  <2>3. /\ treads \subseteq WalkableBytes(b)
        /\ treads \subseteq DOMAIN b.bytes
        /\ Ptr(b, start) + 4 <= Hdr(b, "totalsize")
    BY <1>1, <1>3, <2>1, <2>2, OffsetPtrInBlob DEF FDT_TAGSIZE
  <2>4. o1 \in Word
    <3>1. StructOff(b) \in Word /\ Hdr(b, "totalsize") \in Word
      BY WalkBlobsAssumption, HdrType DEF StructOff
    <3>. QED BY <2>1, <2>3, <3>1, WordBaseType, SMT DEF Ptr, Word, FDT_TAGSIZE
  <2>5. CASE tag = "BEGIN_NODE"
    <3> DEFINE k == ScanStop(b, start + FDT_TAGSIZE)
               nreads == {Ptr(b, j) : j \in o1 .. k - 1} \cup
                         (IF OffsetPtrOk(b, k, 1) THEN {Ptr(b, k)} ELSE {})
    <3>1. /\ k \in o1 .. WordBase - 1
          /\ {Ptr(b, j) : j \in o1 .. k - 1} \subseteq WalkableBytes(b)
      BY <1>1, <2>4, ScanBounds
    <3>2. k \in Word /\ 1 \in Word
      BY <2>4, <3>1, WordBaseType, SMT DEF Word
    <3>3. OffsetPtrOk(b, k, 1) =>
            /\ Ptr(b, k) \in WalkableBytes(b)
            /\ InBlob(b, Ptr(b, k))
      <4>1. Ptr(b, k) \in Ptr(b, k) .. Ptr(b, k) + 1 - 1
        BY <3>2, WalkBlobsAssumption, HdrType, SMT DEF Ptr, StructOff, Word
      <4>. QED BY <1>1, <3>2, <4>1, OffsetPtrInBlob DEF InBlob
    <3>4. treads \cup nreads \subseteq WalkableBytes(b)
      BY <2>3, <3>1, <3>3
    <3>5. k + 1 \in Int
      BY <3>2, WordBaseType, SMT DEF Word
    <3>6. /\ SafeTag(b, Ret("END", -FDT_ERR_BADSTRUCTURE, treads \cup nreads))
          /\ SafeTag(b, Finish(b, start, k + 1, treads \cup nreads, tag))
      <4>1. tag \in TagNames
        BY <2>5 DEF TagNames
      <4>. QED BY <2>1, <3>4, <3>5, <4>1, BadStructureSafe, FinishSafe, WordBaseType DEF Word
    <3>. QED BY <1>1, <1>3, <2>3, <2>5, <3>3, <3>6, Zenon DEF NextTag
  <2>6. CASE tag = "PROP"
    <3> DEFINE lenok == OffsetPtrOk(b, o1, 4)
               len == Ld32(b.bytes, Ptr(b, o1))
               lreads == treads \cup Bytes4(b, o1)
               o2 == ToInt(o1 + 8 + len)
               o3 == IF LegacyAlignPad(b, o2, len) THEN ToInt(o2 + 4) ELSE o2
    <3>1. SafeTag(b, Ret("END", -FDT_ERR_BADSTRUCTURE, treads))
      BY <2>3, BadStructureSafe
    <3>2. CASE lenok
      <4>1. Bytes4(b, o1) = Ptr(b, o1) .. Ptr(b, o1) + 4 - 1
        BY SMT DEF Bytes4
      <4>2. Bytes4(b, o1) \subseteq WalkableBytes(b) /\ Bytes4(b, o1) \subseteq DOMAIN b.bytes
        BY <1>1, <2>1, <2>4, <3>2, <4>1, OffsetPtrInBlob
      <4>3. len \in Word
        BY WalkBlobsAssumption, Ld32Type
      <4>4. o2 \in OffsetVal
        BY <2>4, <4>3, ToIntBound, WordBaseType, SMT DEF Word
      <4>5. o3 \in Int
        <5>1. ToInt(o2 + 4) \in OffsetVal
          BY <4>4, ToIntBound, SMT DEF OffsetVal
        <5>. QED BY <4>4, <5>1 DEF OffsetVal
      <4>6. SafeTag(b, Finish(b, start, o3, lreads, tag))
        <5>1. tag \in TagNames
          BY <2>6 DEF TagNames
        <5>. QED BY <2>1, <2>3, <4>2, <4>5, <5>1, FinishSafe, WordBaseType DEF Word
      <4>. QED BY <1>1, <1>3, <2>3, <2>6, <3>2, <4>2, <4>6, Zenon DEF NextTag
    <3>3. CASE ~lenok
      BY <1>1, <1>3, <2>3, <2>6, <3>1, <3>3, Zenon DEF NextTag
    <3>. QED BY <3>2, <3>3
  <2>7. CASE tag \in {"END", "END_NODE", "NOP"}
    <3>1. SafeTag(b, Finish(b, start, o1, treads, tag))
      <4>1. tag \in TagNames
        BY <2>7 DEF TagNames
      <4>. QED BY <2>1, <2>3, <2>4, <4>1, FinishSafe, WordBaseType DEF Word
    <3>2. tag # "BEGIN_NODE" /\ tag # "PROP"
      BY <2>7
    <3>. QED BY <1>1, <1>3, <2>3, <2>7, <3>1, <3>2, Zenon DEF NextTag
  <2>8. CASE tag \notin {"BEGIN_NODE", "PROP", "END", "END_NODE", "NOP"}
    <3>1. SafeTag(b, Ret("END", -FDT_ERR_BADSTRUCTURE, treads))
      BY <2>3, BadStructureSafe
    <3>. QED BY <1>1, <1>3, <2>3, <2>8, <3>1, Zenon DEF NextTag
  <2>. QED BY <2>5, <2>6, <2>7, <2>8
<1>. QED BY <1>2, <1>3

(* fdt_check_node_offset_() and fdt_check_prop_offset_() from any int    *)
(* offset: no fault, reads in the structure block, an int returned.      *)
SafeCheck(b, c) ==
  /\ ~c.fault
  /\ c.reads \subseteq WalkableBytes(b)
  /\ c.val \in OffsetVal

LEMMA CheckOffsetSafe ==
  ASSUME ChecksKept, NEW b \in Blobs, NEW o \in OffsetVal, NEW want
  PROVE  SafeCheck(b, CheckOffset(b, o, want))
<1>1. -FDT_ERR_BADOFFSET \in OffsetVal
  BY ErrorVal DEF FDT_ERR_BADOFFSET
<1>2. SafeTag(b, NextTag(b, o))
  BY NextTagSafe
<1>. QED BY <1>1, <1>2, Zenon DEF CheckOffset, SafeCheck, SafeTag

-----------------------------------------------------------------------------
(* The inductive invariant.                                               *)

(* The walker is well typed, holds a blob of the model, keeps ints in its *)
(* offsets, and has read only structure-block bytes.  The offsets are     *)
(* the strengthening: an offset beyond the int range would let           *)
(* fdt_offset_ptr() accept a pointer whose u32 offset wrapped.            *)
IInv ==
  /\ WalkTypeOK
  /\ blob \in Blobs
  /\ offset \in OffsetVal
  /\ nextoffset \in OffsetVal
  /\ ReadsInStructBlock

PCs == {"probe", "check", "loop", "prop", "done", "fault"}
Callers == {"client", "first_subnode", "next_subnode"}
YRec == [off : Nat, depth : Int]

(* The offsets callers pass are ints.                                     *)
LEMMA ParentsVal == Parents \subseteq OffsetVal /\ -1 \in OffsetVal /\ 0 \in OffsetVal
BY ParentsAssumption, WordBaseType, SMT DEF OffsetVal, INT_MAX

(* The structure block lies at natural offsets.                           *)
LEMMA WalkableNat ==
  ASSUME NEW b, IsBlob(b)
  PROVE  WalkableBytes(b) \subseteq Nat
<1>1. StructOff(b) \in Nat
  BY HdrType, WordBaseType, SMT DEF StructOff, Word
<1>. QED BY <1>1, SMT DEF WalkableBytes

(* IInv after a step, from its conjuncts.                                 *)
LEMMA Assemble ==
  ASSUME blob' \in Blobs, job' \in Jobs, pc' \in PCs, pc' # "fault",
         caller' \in Callers, offset' \in OffsetVal, nextoffset' \in OffsetVal,
         depth' \in Int, yielded' \in Seq(YRec), result' \in Int,
         rd' \subseteq WalkableBytes(blob')
  PROVE  IInv'
<1>1. IsBlob(blob')
  BY WalkBlobsAssumption
<1>2. rd' \subseteq Nat
  BY <1>1, WalkableNat
<1>. QED BY <1>1, <1>2 DEF IInv, WalkTypeOK, ReadsInStructBlock, OffsetVal, PCs,
                          Callers, YRec

(* A visit appends a record of a node offset and a depth.                *)
LEMMA VisitType ==
  ASSUME NEW o \in Nat, NEW d \in Int, job \in Jobs, yielded \in Seq(YRec), Visit(o, d)
  PROVE  yielded' \in Seq(YRec)
<1>1. [off |-> o, depth |-> IF job.kind = "traverse" THEN d ELSE 0] \in YRec
  BY DEF YRec
<1>. QED BY <1>1, SMT DEF Visit

(* What the callers of fdt_next_node() do with its return keeps the      *)
(* variables typed and the offsets ints.                                   *)
LEMMA ReturnNextNodeStep ==
  ASSUME NEW r \in OffsetVal, NEW d \in Int,
         caller \in Callers, job \in Jobs, yielded \in Seq(YRec), result \in Int,
         offset \in OffsetVal, nextoffset \in OffsetVal,
         ReturnNextNode(r, d)
  PROVE  /\ pc' \in {"check", "loop", "done"}
         /\ caller' \in Callers
         /\ offset' \in OffsetVal /\ nextoffset' \in OffsetVal
         /\ depth' \in Int /\ yielded' \in Seq(YRec) /\ result' \in Int
<1>1. -FDT_ERR_NOTFOUND \in OffsetVal /\ 0 \in OffsetVal /\ 1 \in Int
  BY ErrorVal, ParentsVal DEF FDT_ERR_NOTFOUND
<1>2. r \in Int
  BY DEF OffsetVal
<1>3. r >= 0 => r \in Nat
  BY <1>2, SMT
<1>4. CASE caller = "client"
  <2>1. CASE r >= 0
    <3>1. Visit(r, d) /\ CallNextNode(r, d, "client") /\ UNCHANGED result
      BY <1>4, <2>1 DEF ReturnNextNode
    <3>. QED BY <1>1, <1>3, <2>1, <3>1, VisitType DEF CallNextNode, Callers
  <2>2. CASE ~(r >= 0)
    <3>1. Finished(r, d)
      BY <1>4, <2>2 DEF ReturnNextNode
    <3>. QED BY <1>2, <3>1 DEF Finished
  <2>. QED BY <2>1, <2>2
<1>5. CASE caller = "first_subnode"
  <2>1. CASE r < 0 \/ d # 1
    <3>1. Finished(-FDT_ERR_NOTFOUND, d)
      BY <1>5, <2>1 DEF ReturnNextNode
    <3>. QED BY <1>1, <3>1 DEF Finished, OffsetVal
  <2>2. CASE ~(r < 0 \/ d # 1)
    <3>1. Visit(r, d) /\ CallNextNode(r, 1, "next_subnode") /\ UNCHANGED result
      BY <1>5, <2>2 DEF ReturnNextNode
    <3>2. r >= 0
      BY <1>2, <2>2, SMT
    <3>. QED BY <1>1, <1>3, <3>1, <3>2, VisitType DEF CallNextNode, Callers
  <2>. QED BY <2>1, <2>2
<1>6. CASE caller = "next_subnode"
  <2>1. CASE r < 0 \/ d < 1
    <3>1. Finished(-FDT_ERR_NOTFOUND, d)
      BY <1>6, <2>1 DEF ReturnNextNode
    <3>. QED BY <1>1, <3>1 DEF Finished, OffsetVal
  <2>2. CASE ~(r < 0 \/ d < 1) /\ d > 1
    <3>1. CallNextNode(r, d, "next_subnode") /\ UNCHANGED <<yielded, result>>
      BY <1>6, <2>2 DEF ReturnNextNode
    <3>. QED BY <1>1, <3>1 DEF CallNextNode, Callers
  <2>3. CASE ~(r < 0 \/ d < 1) /\ ~(d > 1)
    <3>1. Visit(r, d) /\ CallNextNode(r, 1, "next_subnode") /\ UNCHANGED result
      BY <1>6, <2>3 DEF ReturnNextNode
    <3>2. r >= 0
      BY <1>2, <2>3, SMT
    <3>. QED BY <1>1, <1>3, <3>1, <3>2, VisitType DEF CallNextNode, Callers
  <2>. QED BY <2>1, <2>2, <2>3
<1>. QED BY <1>4, <1>5, <1>6 DEF Callers

(* Every step of the walker keeps IInv.                                   *)
LEMMA IInvStep ==
  ASSUME ChecksKept
  PROVE  IInv /\ [Next]_vars => IInv'
<1> SUFFICES ASSUME IInv, [Next]_vars PROVE IInv'
  OBVIOUS
<1>1. /\ blob \in Blobs /\ job \in Jobs /\ caller \in Callers
      /\ offset \in OffsetVal /\ nextoffset \in OffsetVal /\ depth \in Int
      /\ yielded \in Seq(YRec) /\ result \in Int /\ pc \in PCs
  BY DEF IInv, WalkTypeOK, Callers, YRec, PCs
<1>2. ParentsVal!1 /\ -1 \in OffsetVal /\ 0 \in OffsetVal
  BY ParentsVal
<1>3. CASE Probe
  <2> DEFINE r == FdtCheckHeader(blob)
  <2>1. rd' = {} /\ blob' = blob /\ job' = job
    BY <1>3 DEF Probe
  <2>2. r \in Int
    BY CheckHeaderInt
  <2>3. CASE r # 0
    <3>1. pc' = "done" /\ result' = r
          /\ UNCHANGED <<caller, offset, nextoffset, depth, yielded>>
      BY <1>3, <2>3 DEF Probe
    <3>. QED BY <1>1, <2>1, <2>2, <3>1, Assemble DEF PCs
  <2>4. CASE r = 0 /\ job.kind \in {"traverse", "nodepth"}
    <3>1. CallNextNode(-1, 0, "client") /\ UNCHANGED <<yielded, result>>
      BY <1>3, <2>4 DEF Probe
    <3>. QED BY <1>1, <1>2, <2>1, <3>1, Assemble DEF CallNextNode, PCs, Callers
  <2>5. CASE r = 0 /\ job.kind = "subnodes"
    <3>1. CallNextNode(job.parent, 0, "first_subnode") /\ UNCHANGED <<yielded, result>>
      BY <1>3, <2>5 DEF Probe
    <3>2. job.parent \in OffsetVal
      BY <1>1, <1>2, <2>5 DEF Jobs
    <3>. QED BY <1>1, <1>2, <2>1, <3>1, <3>2, Assemble DEF CallNextNode, PCs, Callers
  <2>6. CASE r = 0 /\ job.kind = "prop"
    <3>1. pc' = "prop" /\ UNCHANGED <<caller, offset, nextoffset, depth, yielded, result>>
      BY <1>3, <2>6 DEF Probe
    <3>. QED BY <1>1, <2>1, <3>1, Assemble DEF PCs
  <2>. QED BY <1>1, <2>3, <2>4, <2>5, <2>6 DEF Jobs
<1>4. CASE CheckProp
  <2> DEFINE c == CheckOffset(blob, job.parent, "PROP")
  <2>1. job.parent \in OffsetVal
    BY <1>1, <1>2 DEF Jobs
  <2>2. SafeCheck(blob, c)
    BY <1>1, <2>1, CheckOffsetSafe
  <2>3. /\ pc' = "done" /\ result' = c.val /\ rd' = c.reads
        /\ UNCHANGED <<blob, job, caller, offset, nextoffset, depth, yielded>>
    BY <1>4, <2>2 DEF CheckProp, SafeCheck
  <2>. QED BY <1>1, <2>2, <2>3, Assemble DEF SafeCheck, OffsetVal, PCs
<1>5. CASE NextNodeCheck
  <2> DEFINE c == CheckOffset(blob, offset, "BEGIN_NODE")
  <2>1. SafeCheck(blob, c)
    BY <1>1, CheckOffsetSafe
  <2>2. rd' = c.reads /\ blob' = blob /\ job' = job
    BY <1>5 DEF NextNodeCheck
  <2>3. CASE c.val < 0
    <3>1. ReturnNextNode(c.val, depth)
      BY <1>5, <2>1, <2>3 DEF NextNodeCheck, SafeCheck
    <3>2. /\ pc' \in {"check", "loop", "done"} /\ caller' \in Callers
          /\ offset' \in OffsetVal /\ nextoffset' \in OffsetVal
          /\ depth' \in Int /\ yielded' \in Seq(YRec) /\ result' \in Int
      BY <1>1, <2>1, <3>1, ReturnNextNodeStep DEF SafeCheck
    <3>. QED BY <1>1, <2>1, <2>2, <3>2, Assemble DEF SafeCheck, PCs
  <2>4. CASE ~(c.val < 0)
    <3>1. nextoffset' = c.val /\ pc' = "loop"
          /\ UNCHANGED <<caller, offset, depth, yielded, result>>
      BY <1>5, <2>1, <2>4 DEF NextNodeCheck, SafeCheck
    <3>. QED BY <1>1, <2>1, <2>2, <3>1, Assemble DEF SafeCheck, PCs
  <2>. QED BY <2>3, <2>4
<1>6. CASE NextNodeStep
  <2> DEFINE o == nextoffset
             tg == NextTag(blob, o)
  <2>1. SafeTag(blob, tg)
    BY <1>1, NextTagSafe
  <2>2. rd' = tg.reads /\ blob' = blob /\ job' = job
    BY <1>6 DEF NextNodeStep
  <2>3. depth + 1 \in Int /\ depth - 1 \in Int
    BY <1>1, SMT
  <2>4. CASE tg.tag \in {"PROP", "NOP"}
    <3>1. offset' = o /\ nextoffset' = tg.next
          /\ UNCHANGED <<pc, caller, depth, yielded, result>>
      BY <1>6, <2>1, <2>4 DEF NextNodeStep, SafeTag
    <3>2. pc # "fault"
      BY DEF IInv, ReadsInStructBlock
    <3>. QED BY <1>1, <2>1, <2>2, <3>1, <3>2, Assemble DEF SafeTag
  <2>5. CASE tg.tag = "BEGIN_NODE"
    <3>1. ReturnNextNode(o, IF HasDepth THEN depth + 1 ELSE depth)
      BY <1>6, <2>1, <2>5 DEF NextNodeStep, SafeTag
    <3>2. (IF HasDepth THEN depth + 1 ELSE depth) \in Int
      BY <1>1, <2>3
    <3>3. /\ pc' \in {"check", "loop", "done"} /\ caller' \in Callers
          /\ offset' \in OffsetVal /\ nextoffset' \in OffsetVal
          /\ depth' \in Int /\ yielded' \in Seq(YRec) /\ result' \in Int
      BY <1>1, <3>1, <3>2, ReturnNextNodeStep
    <3>. QED BY <1>1, <2>1, <2>2, <3>3, Assemble DEF SafeTag, PCs
  <2>6. CASE tg.tag = "END_NODE" /\ HasDepth /\ depth - 1 < 0
    <3>1. ReturnNextNode(tg.next, depth - 1)
      BY <1>6, <2>1, <2>6 DEF NextNodeStep, SafeTag
    <3>2. /\ pc' \in {"check", "loop", "done"} /\ caller' \in Callers
          /\ offset' \in OffsetVal /\ nextoffset' \in OffsetVal
          /\ depth' \in Int /\ yielded' \in Seq(YRec) /\ result' \in Int
      BY <1>1, <2>1, <2>3, <3>1, ReturnNextNodeStep DEF SafeTag
    <3>. QED BY <1>1, <2>1, <2>2, <3>2, Assemble DEF SafeTag, PCs
  <2>7. CASE tg.tag = "END_NODE" /\ ~(HasDepth /\ depth - 1 < 0)
    <3>1. /\ depth' = IF HasDepth THEN depth - 1 ELSE depth
          /\ offset' = o /\ nextoffset' = tg.next
          /\ UNCHANGED <<pc, caller, yielded, result>>
      BY <1>6, <2>1, <2>7 DEF NextNodeStep, SafeTag
    <3>2. pc # "fault"
      BY DEF IInv, ReadsInStructBlock
    <3>. QED BY <1>1, <2>1, <2>2, <2>3, <3>1, <3>2, Assemble DEF SafeTag
  <2>8. CASE tg.tag = "END"
    <3> DEFINE r == IF tg.next >= 0 \/ (tg.next = -FDT_ERR_TRUNCATED /\ ~HasDepth)
                    THEN -FDT_ERR_NOTFOUND ELSE tg.next
    <3>1. ReturnNextNode(r, depth)
      BY <1>6, <2>1, <2>8 DEF NextNodeStep, SafeTag
    <3>2. r \in OffsetVal
      BY <2>1, ErrorVal DEF SafeTag, FDT_ERR_NOTFOUND
    <3>3. /\ pc' \in {"check", "loop", "done"} /\ caller' \in Callers
          /\ offset' \in OffsetVal /\ nextoffset' \in OffsetVal
          /\ depth' \in Int /\ yielded' \in Seq(YRec) /\ result' \in Int
      BY <1>1, <3>1, <3>2, ReturnNextNodeStep
    <3>. QED BY <1>1, <2>1, <2>2, <3>3, Assemble DEF SafeTag, PCs
  <2>. QED BY <2>1, <2>4, <2>5, <2>6, <2>7, <2>8 DEF SafeTag, TagNames
<1>7. CASE NewJob
  <2>1. /\ job' \in Jobs /\ pc' = "probe"
        /\ caller' = "client" /\ offset' = 0 /\ nextoffset' = 0 /\ depth' = 0
        /\ yielded' = <<>> /\ result' = 0 /\ rd' = {} /\ blob' = blob
    BY <1>7 DEF NewJob
  <2>. QED BY <1>1, <1>2, <2>1, Assemble DEF PCs, Callers, YRec
<1>8. CASE UNCHANGED vars
  BY <1>8 DEF IInv, WalkTypeOK, ReadsInStructBlock, vars
<1>. QED BY <1>3, <1>4, <1>5, <1>6, <1>7, <1>8 DEF Next

(* The walker starts in IInv.                                             *)
LEMMA IInvInit == Init => IInv
<1> SUFFICES ASSUME Init PROVE IInv
  OBVIOUS
<1>1. blob \in Blobs /\ IsBlob(blob)
  BY WalkBlobsAssumption DEF Init
<1>2. 0 \in OffsetVal
  BY ParentsVal
<1>. QED BY <1>1, <1>2 DEF Init, IInv, WalkTypeOK, ReadsInStructBlock, OffsetVal

-----------------------------------------------------------------------------
(* Theorems.                                                              *)

(* In a build that keeps the run-time checks, the walker reads only bytes *)
(* of the structure block and never dereferences a pointer beyond the     *)
(* blob, for every Width, every blob that holds totalsize bytes, every   *)
(* job and every offset a caller passes (fdt_offset_ptr(),               *)
(* fdt_next_tag(), fdt_check_node_offset_(), fdt_check_prop_offset_(),  *)
(* fdt_next_node() and the subnode iterators).  fdt_check_header() is not *)
(* needed for it: the u32 bounds of fdt_offset_ptr() alone confine the   *)
(* reads, whatever the header says.                                       *)
THEOREM ReadsInStructBlockInvariant ==
  ASSUME ChecksKept
  PROVE  Spec => []ReadsInStructBlock
<1>1. Init => IInv
  BY IInvInit
<1>2. IInv /\ [Next]_vars => IInv'
  BY IInvStep
<1>3. IInv => ReadsInStructBlock
  BY DEF IInv
<1>. QED BY <1>1, <1>2, <1>3, PTL DEF Spec

(* In the same builds every variable of the walker keeps its type: the   *)
(* visited offsets are natural and the bytes read are at natural offsets. *)
THEOREM WalkTypeCorrect ==
  ASSUME ChecksKept
  PROVE  Spec => []WalkTypeOK
<1>1. Init => IInv
  BY IInvInit
<1>2. IInv /\ [Next]_vars => IInv'
  BY IInvStep
<1>3. IInv => WalkTypeOK
  BY DEF IInv
<1>. QED BY <1>1, <1>2, <1>3, PTL DEF Spec


-----------------------------------------------------------------------------
(* The header gate.  The walker runs (pc check, loop or prop) only on a   *)
(* blob fdt_check_header() accepted: Probe starts a job only when the     *)
(* check returns 0, and no step changes the blob.  This holds in every    *)
(* build, whatever the assumption mask.                                   *)
GateInv == pc \in {"check", "loop", "prop"} => FdtCheckHeader(blob) = 0

(* Every step keeps the blob; the steps that read start from a running pc.*)
LEMMA StepKeepsBlob ==
  ASSUME [Next]_vars PROVE blob' = blob
BY DEF Next, Probe, CheckProp, NextNodeCheck, NextNodeStep, NewJob, vars

LEMMA GateStep == GateInv /\ [Next]_vars => GateInv'
<1> SUFFICES ASSUME GateInv, [Next]_vars PROVE GateInv'
  OBVIOUS
<1>1. blob' = blob
  BY StepKeepsBlob
<1>2. CASE Probe
  <2>1. CASE FdtCheckHeader(blob) # 0
    <3>1. pc' = "done"
      BY <1>2, <2>1 DEF Probe
    <3>. QED BY <3>1 DEF GateInv
  <2>2. CASE FdtCheckHeader(blob) = 0
    BY <1>1, <2>2 DEF GateInv
  <2>. QED BY <2>1, <2>2
<1>3. CASE CheckProp \/ NextNodeCheck \/ NextNodeStep
  <2>1. pc \in {"check", "loop", "prop"}
    BY <1>3 DEF CheckProp, NextNodeCheck, NextNodeStep
  <2>. QED BY <1>1, <2>1 DEF GateInv
<1>4. CASE NewJob
  BY <1>4 DEF NewJob, GateInv
<1>5. CASE UNCHANGED vars
  BY <1>5 DEF vars, GateInv
<1>. QED BY <1>2, <1>3, <1>4, <1>5 DEF Next

(* Only the running steps read; Probe and NewJob read nothing.            *)
LEMMA GateReads ==
  GateInv /\ [Next]_vars => [rd' # {} => FdtCheckHeader(blob) = 0]_vars
<1> SUFFICES ASSUME GateInv, [Next]_vars
             PROVE  [rd' # {} => FdtCheckHeader(blob) = 0]_vars
  OBVIOUS
<1>1. CASE Probe \/ NewJob
  BY <1>1 DEF Probe, NewJob
<1>2. CASE CheckProp \/ NextNodeCheck \/ NextNodeStep
  BY <1>2 DEF CheckProp, NextNodeCheck, NextNodeStep, GateInv
<1>3. CASE UNCHANGED vars
  BY <1>3
<1>. QED BY <1>1, <1>2, <1>3 DEF Next

(* No step of the walker reads a byte of a blob that fdt_check_header()  *)
(* rejects, on any job and however many jobs the client runs, in every   *)
(* build (the client's test of the check's result in Probe is all it     *)
(* rests on).                                                             *)
THEOREM ReadsOnlyAfterAcceptHolds == Spec => ReadsOnlyAfterAccept
<1>1. Init => GateInv
  BY DEF Init, GateInv
<1>2. GateInv /\ [Next]_vars => GateInv'
  BY GateStep
<1>3. GateInv /\ [Next]_vars => [rd' # {} => FdtCheckHeader(blob) = 0]_vars
  BY GateReads
<1>. QED BY <1>1, <1>2, <1>3, PTL DEF Spec, ReadsOnlyAfterAccept


-----------------------------------------------------------------------------
(* The nodes the traversal visits.                                        *)

(* FDT_TAGALIGN of an int is a multiple of FDT_TAGSIZE.                   *)
LEMMA TagAlignAligned ==
  ASSUME NEW x \in Int
  PROVE  TagAlign(x) % FDT_TAGSIZE = 0
<1>1. ToInt(x + FDT_TAGSIZE - 1) \in Int
  BY ToIntBound DEF FDT_TAGSIZE, OffsetVal
<1>2. \A z \in Int : (z - (z % 4)) % 4 = 0
  BY SMT
<1>. QED BY <1>1, <1>2 DEF TagAlign, FDT_TAGSIZE

(* What fdt_next_tag() returns for a tag other than FDT_END without      *)
(* faulting: the tag stored at start, which fdt_offset_ptr() accepted,   *)
(* and a tag-aligned offset after it.  This holds in every build.        *)
TagFacts(b, start, t) ==
  /\ OffsetPtrOk(b, start, FDT_TAGSIZE)
  /\ TagOf(Ld32(b.bytes, Ptr(b, start))) = t.tag
  /\ t.next % FDT_TAGSIZE = 0

LEMMA FinishFacts ==
  ASSUME NEW b, NEW start, NEW off \in Int, NEW reads, NEW tg,
         Finish(b, start, off, reads, tg).tag # "END"
  PROVE  /\ Finish(b, start, off, reads, tg).tag = tg
         /\ Finish(b, start, off, reads, tg).next % FDT_TAGSIZE = 0
<1>1. TagAlign(off) % FDT_TAGSIZE = 0
  BY TagAlignAligned
<1>. QED BY <1>1, Zenon DEF Finish, Ret

LEMMA NextTagFacts ==
  ASSUME NEW b \in Blobs, NEW start \in Int,
         ~NextTag(b, start).fault, NextTag(b, start).tag # "END"
  PROVE  TagFacts(b, start, NextTag(b, start))
<1> DEFINE valid == CanAssume("VALID_DTB")
           tagok == OffsetPtrOk(b, start, FDT_TAGSIZE)
           tag == TagOf(Ld32(b.bytes, Ptr(b, start)))
           o1 == start + FDT_TAGSIZE
           treads == Bytes4(b, start)
           t == NextTag(b, start)
<1>1. tagok /\ treads \subseteq DOMAIN b.bytes
  BY Zenon DEF NextTag, Ret, Fault
<1>2. o1 \in Int
  BY DEF FDT_TAGSIZE
<1>3. CASE tag = "BEGIN_NODE"
  <2> DEFINE k == ScanStop(b, start + FDT_TAGSIZE)
             nreads == {Ptr(b, j) : j \in o1 .. k - 1} \cup
                       (IF OffsetPtrOk(b, k, 1) THEN {Ptr(b, k)} ELSE {})
  <2>1. k + 1 \in Int
    <3>1. k \in o1 .. o1 + Cardinality(DOMAIN b.bytes)
      BY <1>2, ScanStopFirst
    <3>2. Cardinality(DOMAIN b.bytes) \in Nat
      BY WalkBlobsAssumption, FS_CardinalityType
    <3>. QED BY <1>2, <3>1, <3>2, SMT
  <2>2. t = Finish(b, start, k + 1, treads \cup nreads, tag)
    BY <1>1, <1>3, Zenon DEF NextTag, Ret, Fault
  <2>. QED BY <1>1, <2>1, <2>2, FinishFacts DEF TagFacts
<1>4. CASE tag = "PROP"
  <2> DEFINE len == Ld32(b.bytes, Ptr(b, o1))
             o2 == ToInt(o1 + 8 + len)
             o3 == IF LegacyAlignPad(b, o2, len) THEN ToInt(o2 + 4) ELSE o2
  <2>1. o3 \in Int
    <3>1. len \in Word
      BY WalkBlobsAssumption, Ld32Type
    <3>2. o2 \in OffsetVal
      BY <1>2, <3>1, ToIntBound, WordBaseType, SMT DEF Word
    <3>3. ToInt(o2 + 4) \in OffsetVal
      BY <3>2, ToIntBound, SMT DEF OffsetVal
    <3>. QED BY <3>2, <3>3 DEF OffsetVal
  <2>2. t = Finish(b, start, o3, treads \cup Bytes4(b, o1), tag)
    BY <1>1, <1>4, Zenon DEF NextTag, Ret, Fault
  <2>. QED BY <1>1, <2>1, <2>2, FinishFacts DEF TagFacts
<1>5. CASE tag \in {"END", "END_NODE", "NOP"}
  <2>1. t = Finish(b, start, o1, treads, tag)
    <3>1. tag # "BEGIN_NODE" /\ tag # "PROP"
      BY <1>5
    <3>. QED BY <1>1, <1>5, <3>1, Zenon DEF NextTag
  <2>. QED BY <1>1, <1>2, <2>1, FinishFacts DEF TagFacts
<1>6. CASE tag \notin {"BEGIN_NODE", "PROP", "END", "END_NODE", "NOP"}
  BY <1>1, <1>6, Zenon DEF NextTag, Ret
<1>. QED BY <1>3, <1>4, <1>5, <1>6

(* fdt_check_node_offset_() returns an offset (not an error) only after  *)
(* fdt_next_tag() found the wanted tag at o: it returns the offset       *)
(* fdt_next_tag() left.                                                   *)
LEMMA CheckOffsetFacts ==
  ASSUME NEW b \in Blobs, NEW o \in Int, NEW want, want # "END",
         ~CheckOffset(b, o, want).fault, CheckOffset(b, o, want).val >= 0
  PROVE  /\ CheckOffset(b, o, want).val = NextTag(b, o).next
         /\ TagFacts(b, o, NextTag(b, o))
<1>1. ~(-FDT_ERR_BADOFFSET >= 0)
  BY DEF FDT_ERR_BADOFFSET
<1>2. /\ CheckOffset(b, o, want).val = NextTag(b, o).next
      /\ NextTag(b, o).tag = want
      /\ ~NextTag(b, o).fault
  BY <1>1, Zenon DEF CheckOffset
<1>. QED BY <1>2, NextTagFacts

(* The code of the callers after fdt_next_node() returns r with d in      *)
(* *depth: it calls fdt_next_node() again (nextoffset starts at 0) or    *)
(* ends the job; it hands the client to a caller other than the client's *)
(* own loop only through fdt_next_subnode(); and the one record it may   *)
(* add is r itself, with r >= 0, and only from the client's loop or at a  *)
(* depth of at least 1.                                                   *)
VisitOf(r, d) == [off |-> r, depth |-> IF job.kind = "traverse" THEN d ELSE 0]

LEMMA ReturnNextNodeShape ==
  ASSUME NEW r \in Int, NEW d \in Int, caller \in Callers, ReturnNextNode(r, d)
  PROVE  /\ nextoffset' \in {0, nextoffset}
         /\ pc' \in {"check", "loop", "done"}
         /\ caller' = "client" => caller = "client"
         /\ \/ yielded' = yielded
            \/ /\ r >= 0
               /\ yielded' = Append(yielded, VisitOf(r, d))
               /\ caller = "client" \/ d >= 1
<1>1. CASE caller = "client"
  <2>1. CASE r >= 0
    <3>1. Visit(r, d) /\ CallNextNode(r, d, "client")
      BY <1>1, <2>1 DEF ReturnNextNode
    <3>. QED BY <1>1, <2>1, <3>1 DEF Visit, VisitOf, CallNextNode
  <2>2. CASE ~(r >= 0)
    <3>1. Finished(r, d)
      BY <1>1, <2>2 DEF ReturnNextNode
    <3>. QED BY <1>1, <3>1 DEF Finished
  <2>. QED BY <2>1, <2>2
<1>2. CASE caller = "first_subnode"
  <2>1. CASE r < 0 \/ d # 1
    <3>1. Finished(-FDT_ERR_NOTFOUND, d)
      BY <1>2, <2>1 DEF ReturnNextNode
    <3>. QED BY <1>2, <3>1 DEF Finished
  <2>2. CASE ~(r < 0 \/ d # 1)
    <3>1. Visit(r, d) /\ CallNextNode(r, 1, "next_subnode")
      BY <1>2, <2>2 DEF ReturnNextNode
    <3>2. r >= 0 /\ d >= 1
      BY <2>2, SMT
    <3>. QED BY <1>2, <3>1, <3>2 DEF Visit, VisitOf, CallNextNode
  <2>. QED BY <2>1, <2>2
<1>3. CASE caller = "next_subnode"
  <2>1. CASE r < 0 \/ d < 1
    <3>1. Finished(-FDT_ERR_NOTFOUND, d)
      BY <1>3, <2>1 DEF ReturnNextNode
    <3>. QED BY <1>3, <3>1 DEF Finished
  <2>2. CASE ~(r < 0 \/ d < 1) /\ d > 1
    <3>1. CallNextNode(r, d, "next_subnode") /\ UNCHANGED yielded
      BY <1>3, <2>2 DEF ReturnNextNode
    <3>. QED BY <1>3, <3>1 DEF CallNextNode
  <2>3. CASE ~(r < 0 \/ d < 1) /\ ~(d > 1)
    <3>1. Visit(r, d) /\ CallNextNode(r, 1, "next_subnode")
      BY <1>3, <2>3 DEF ReturnNextNode
    <3>2. r >= 0 /\ d >= 1
      BY <2>3, SMT
    <3>. QED BY <1>3, <3>1, <3>2 DEF Visit, VisitOf, CallNextNode
  <2>. QED BY <2>1, <2>2, <2>3
<1>. QED BY <1>1, <1>2, <1>3 DEF Callers

(* A record appended to the visits keeps YieldsAreNodes when it is a node *)
(* of the same blob or carries a negative depth.                          *)
LEMMA YieldsAppend ==
  ASSUME NEW rec, yielded \in Seq(YRec), YieldsAreNodes, blob' = blob,
         yielded' = Append(yielded, rec),
         rec.depth >= 0 => NodeAt(blob, rec.off)
  PROVE  YieldsAreNodes'
<1>1. Len(yielded') = Len(yielded) + 1 /\ yielded'[Len(yielded) + 1] = rec
  BY SMT
<1>2. \A k \in 1 .. Len(yielded) : yielded'[k] = yielded[k]
  BY SMT
<1>3. \A k \in 1 .. Len(yielded') : k \in 1 .. Len(yielded) \/ k = Len(yielded) + 1
  BY <1>1, SMT
<1>. QED BY <1>1, <1>2, <1>3 DEF YieldsAreNodes

(* The inductive invariant of YieldsAreNodes: IInv, nextoffset always    *)
(* tag-aligned (the loop of fdt_next_node() reads its tags only where    *)
(* FDT_TAGALIGN put it), and the client's own loop running only the      *)
(* traversals (so an FDT_END_NODE return that reaches it carries its     *)
(* negative depth into the record).                                       *)
ClientRunsTraversal ==
  pc \in {"check", "loop"} /\ caller = "client" => job.kind \in {"traverse", "nodepth"}

NodesInv ==
  /\ IInv
  /\ nextoffset % FDT_TAGSIZE = 0
  /\ ClientRunsTraversal
  /\ YieldsAreNodes

(* The steps that neither visit, move nextoffset nor start the client's  *)
(* loop keep the three conjuncts.                                         *)
LEMMA QuietStep ==
  ASSUME NodesInv, blob' = blob, yielded' = yielded, nextoffset' = nextoffset,
         pc' \notin {"check", "loop"}
  PROVE  /\ nextoffset' % FDT_TAGSIZE = 0
         /\ ClientRunsTraversal'
         /\ YieldsAreNodes'
BY DEF NodesInv, ClientRunsTraversal, YieldsAreNodes

(* The return of fdt_next_node() from a running call keeps them, given   *)
(* that a record it adds with a depth >= 0 is a node.                     *)
LEMMA ReturnStep ==
  ASSUME NodesInv, pc \in {"check", "loop"}, blob' = blob, job' = job,
         NEW r \in Int, NEW d \in Int, ReturnNextNode(r, d),
         r >= 0 /\ VisitOf(r, d).depth >= 0 /\ (caller = "client" \/ d >= 1)
           => NodeAt(blob, r)
  PROVE  /\ nextoffset' % FDT_TAGSIZE = 0
         /\ ClientRunsTraversal'
         /\ YieldsAreNodes'
<1>1. caller \in Callers /\ yielded \in Seq(YRec)
  BY DEF NodesInv, IInv, WalkTypeOK, Callers, YRec
<1>2. /\ nextoffset' \in {0, nextoffset}
      /\ pc' \in {"check", "loop", "done"}
      /\ caller' = "client" => caller = "client"
      /\ \/ yielded' = yielded
         \/ /\ r >= 0
            /\ yielded' = Append(yielded, VisitOf(r, d))
            /\ caller = "client" \/ d >= 1
  BY <1>1, ReturnNextNodeShape
<1>3. nextoffset' % FDT_TAGSIZE = 0
  <2>1. nextoffset \in Int /\ nextoffset % FDT_TAGSIZE = 0
    BY DEF NodesInv, IInv, OffsetVal
  <2>2. nextoffset' = 0 \/ nextoffset' = nextoffset
    BY <1>2
  <2>3. 0 % FDT_TAGSIZE = 0
    BY SMT DEF FDT_TAGSIZE
  <2>. QED BY <2>1, <2>2, <2>3
<1>4. ClientRunsTraversal'
  BY <1>2 DEF NodesInv, ClientRunsTraversal
<1>5. YieldsAreNodes'
  <2>1. CASE yielded' = yielded
    BY <2>1 DEF NodesInv, YieldsAreNodes
  <2>2. CASE /\ r >= 0
             /\ yielded' = Append(yielded, VisitOf(r, d))
             /\ caller = "client" \/ d >= 1
    <3>1. VisitOf(r, d).off = r
      BY DEF VisitOf
    <3>. QED BY <1>1, <2>2, <3>1, YieldsAppend DEF NodesInv
  <2>. QED BY <1>2, <2>1, <2>2
<1>. QED BY <1>3, <1>4, <1>5

(* A call of fdt_next_node() that starts afresh (nextoffset = 0) from a   *)
(* caller running a traversal, or from a subnode iterator, keeps them.   *)
LEMMA StartStep ==
  ASSUME NodesInv, blob' = blob, yielded' = yielded, nextoffset' = 0,
         caller' = "client" => job'.kind \in {"traverse", "nodepth"}
  PROVE  /\ nextoffset' % FDT_TAGSIZE = 0
         /\ ClientRunsTraversal'
         /\ YieldsAreNodes'
<1>1. 0 % FDT_TAGSIZE = 0
  BY SMT DEF FDT_TAGSIZE
<1>. QED BY <1>1 DEF NodesInv, ClientRunsTraversal, YieldsAreNodes

(* Every step keeps NodesInv.                                             *)
LEMMA NodesStep ==
  ASSUME ChecksKept
  PROVE  NodesInv /\ [Next]_vars => NodesInv'
<1> SUFFICES ASSUME NodesInv, [Next]_vars PROVE NodesInv'
  OBVIOUS
<1> DEFINE Rest == /\ nextoffset' % FDT_TAGSIZE = 0
                   /\ ClientRunsTraversal'
                   /\ YieldsAreNodes'
<1>1. IInv'
  BY IInvStep DEF NodesInv
<1>2. blob' = blob
  BY StepKeepsBlob
<1>3. /\ blob \in Blobs /\ job \in Jobs /\ caller \in Callers
      /\ offset \in OffsetVal /\ nextoffset \in OffsetVal /\ depth \in Int
  BY DEF NodesInv, IInv, WalkTypeOK, Callers
<1>4. SUFFICES Rest
  BY <1>1 DEF NodesInv
<1>5. CASE Probe
  <2>1. CASE FdtCheckHeader(blob) # 0
    <3>1. pc' = "done" /\ nextoffset' = nextoffset /\ yielded' = yielded
      BY <1>5, <2>1 DEF Probe
    <3>. QED BY <1>2, <3>1, QuietStep
  <2>2. CASE FdtCheckHeader(blob) = 0 /\ job.kind \in {"traverse", "nodepth"}
    <3>0. job.kind # "subnodes" /\ job.kind # "prop"
      BY <2>2
    <3>1. CallNextNode(-1, 0, "client") /\ yielded' = yielded /\ job' = job
      BY <1>5, <2>2, <3>0, Zenon DEF Probe
    <3>2. nextoffset' = 0
      BY <3>1 DEF CallNextNode
    <3>. QED BY <1>2, <2>2, <3>1, <3>2, StartStep
  <2>3. CASE FdtCheckHeader(blob) = 0 /\ job.kind = "subnodes"
    <3>1. nextoffset' = 0 /\ yielded' = yielded /\ caller' = "first_subnode"
      BY <1>5, <2>3 DEF Probe, CallNextNode
    <3>. QED BY <1>2, <3>1, StartStep
  <2>4. CASE FdtCheckHeader(blob) = 0 /\ job.kind = "prop"
    <3>1. pc' = "prop" /\ nextoffset' = nextoffset /\ yielded' = yielded
      BY <1>5, <2>4 DEF Probe
    <3>. QED BY <1>2, <3>1, QuietStep
  <2>. QED BY <1>3, <2>1, <2>2, <2>3, <2>4 DEF Jobs
<1>6. CASE CheckProp
  <2>1. pc' \in {"fault", "done"} /\ nextoffset' = nextoffset /\ yielded' = yielded
    BY <1>6 DEF CheckProp
  <2>. QED BY <1>2, <2>1, QuietStep
<1>7. CASE NewJob
  <2>1. pc' = "probe" /\ nextoffset' = 0 /\ yielded' = <<>> /\ blob' = blob
    BY <1>7 DEF NewJob
  <2>2. 0 % FDT_TAGSIZE = 0
    BY SMT DEF FDT_TAGSIZE
  <2>. QED BY <2>1, <2>2 DEF ClientRunsTraversal, YieldsAreNodes
<1>8. CASE NextNodeCheck
  <2> DEFINE c == CheckOffset(blob, offset, "BEGIN_NODE")
  <2>1. pc = "check" /\ job' = job
    BY <1>8 DEF NextNodeCheck
  <2>2. ~c.fault /\ c.val \in OffsetVal
    BY <1>3, CheckOffsetSafe DEF SafeCheck
  <2>3. CASE c.val < 0
    <3>1. ReturnNextNode(c.val, depth)
      BY <1>8, <2>2, <2>3 DEF NextNodeCheck
    <3>2. c.val \in Int /\ ~(c.val >= 0)
      BY <2>2, <2>3, SMT DEF OffsetVal
    <3>. QED BY <1>2, <1>3, <2>1, <3>1, <3>2, ReturnStep
  <2>4. CASE ~(c.val < 0)
    <3>1. /\ nextoffset' = c.val /\ pc' = "loop" /\ caller' = caller
          /\ yielded' = yielded
      BY <1>8, <2>2, <2>4 DEF NextNodeCheck
    <3>2. c.val >= 0 /\ offset \in Int
      BY <1>3, <2>2, <2>4, SMT DEF OffsetVal
    <3>3. c.val = NextTag(blob, offset).next /\ TagFacts(blob, offset, NextTag(blob, offset))
      BY <1>3, <2>2, <3>2, CheckOffsetFacts
    <3>4. nextoffset' % FDT_TAGSIZE = 0
      BY <3>1, <3>3 DEF TagFacts
    <3>. QED BY <1>2, <2>1, <3>1, <3>4 DEF NodesInv, ClientRunsTraversal, YieldsAreNodes
  <2>. QED BY <2>3, <2>4
<1>9. CASE NextNodeStep
  <2> DEFINE o == nextoffset
             t == NextTag(blob, o)
  <2>1. pc = "loop" /\ job' = job
    BY <1>9 DEF NextNodeStep
  <2>2. SafeTag(blob, t)
    BY <1>3, NextTagSafe
  <2>3. ~t.fault /\ t.tag \in TagNames /\ t.next \in Int
    BY <2>2 DEF SafeTag, OffsetVal
  <2>4. o \in Int
    BY <1>3 DEF OffsetVal
  <2>5. CASE t.tag \in {"PROP", "NOP"}
    <3>0. t.tag # "BEGIN_NODE" /\ t.tag # "END_NODE" /\ t.tag # "END"
      BY <2>5
    <3>1. /\ nextoffset' = t.next /\ pc' = pc /\ caller' = caller
          /\ yielded' = yielded
      BY <1>9, <2>3, <2>5, <3>0, Zenon DEF NextNodeStep
    <3>2. TagFacts(blob, o, t)
      BY <1>3, <2>3, <2>4, <2>5, NextTagFacts
    <3>. QED BY <1>2, <2>1, <3>1, <3>2 DEF TagFacts, NodesInv, ClientRunsTraversal,
                                          YieldsAreNodes
  <2>6. CASE t.tag = "BEGIN_NODE"
    <3> DEFINE d == IF HasDepth THEN depth + 1 ELSE depth
    <3>1. ReturnNextNode(o, d)
      BY <1>9, <2>3, <2>6 DEF NextNodeStep
    <3>2. d \in Int
      BY <1>3
    <3>3. NodeAt(blob, o)
      <4>1. TagFacts(blob, o, t)
        BY <1>3, <2>3, <2>4, <2>6, NextTagFacts
      <4>. QED BY <2>6, <4>1 DEF TagFacts, NodeAt, NodesInv
    <3>. QED BY <1>2, <2>1, <2>4, <3>1, <3>2, <3>3, ReturnStep
  <2>7. CASE t.tag = "END_NODE" /\ HasDepth /\ depth - 1 < 0
    <3>1. ReturnNextNode(t.next, depth - 1)
      BY <1>9, <2>3, <2>7 DEF NextNodeStep
    <3>2. ~(VisitOf(t.next, depth - 1).depth >= 0 /\ (caller = "client" \/ depth - 1 >= 1))
      <4>1. ~(depth - 1 >= 1)
        BY <1>3, <2>7, SMT
      <4>2. ASSUME caller = "client" PROVE ~(VisitOf(t.next, depth - 1).depth >= 0)
        <5>1. job.kind = "traverse"
          BY <1>3, <2>1, <2>7, <4>2 DEF NodesInv, ClientRunsTraversal, HasDepth
        <5>2. VisitOf(t.next, depth - 1).depth = depth - 1
          BY <5>1 DEF VisitOf
        <5>. QED BY <1>3, <2>7, <5>2, SMT
      <4>. QED BY <4>1, <4>2
    <3>. QED BY <1>2, <1>3, <2>1, <2>3, <3>1, <3>2, ReturnStep
  <2>8. CASE t.tag = "END_NODE" /\ ~(HasDepth /\ depth - 1 < 0)
    <3>1. /\ nextoffset' = t.next /\ pc' = pc /\ caller' = caller
          /\ yielded' = yielded
      BY <1>9, <2>3, <2>8 DEF NextNodeStep
    <3>2. TagFacts(blob, o, t)
      BY <1>3, <2>3, <2>4, <2>8, NextTagFacts
    <3>. QED BY <1>2, <2>1, <3>1, <3>2 DEF TagFacts, NodesInv, ClientRunsTraversal,
                                          YieldsAreNodes
  <2>9. CASE t.tag = "END"
    <3> DEFINE r == IF t.next >= 0 \/ (t.next = -FDT_ERR_TRUNCATED /\ ~HasDepth)
                    THEN -FDT_ERR_NOTFOUND ELSE t.next
    <3>1. ReturnNextNode(r, depth)
      BY <1>9, <2>3, <2>9 DEF NextNodeStep
    <3>2. r \in Int /\ ~(r >= 0)
      BY <2>3, SMT DEF FDT_ERR_NOTFOUND
    <3>. QED BY <1>2, <1>3, <2>1, <3>1, <3>2, ReturnStep
  <2>. QED BY <2>3, <2>5, <2>6, <2>7, <2>8, <2>9 DEF TagNames
<1>10. CASE UNCHANGED vars
  BY <1>10 DEF vars, NodesInv, ClientRunsTraversal, YieldsAreNodes
<1>. QED BY <1>5, <1>6, <1>7, <1>8, <1>9, <1>10 DEF Next

(* The walker starts in NodesInv: it has visited nothing.                 *)
LEMMA NodesInit == Init => NodesInv
<1> SUFFICES ASSUME Init PROVE NodesInv
  OBVIOUS
<1>1. IInv
  BY IInvInit
<1>2. 0 % FDT_TAGSIZE = 0
  BY SMT DEF FDT_TAGSIZE
<1>. QED BY <1>1, <1>2 DEF Init, NodesInv, ClientRunsTraversal, YieldsAreNodes

(* In a build that keeps the run-time checks, every node the traversal,  *)
(* fdt_first_subnode() and fdt_next_subnode() hand to the client is a    *)
(* tag-aligned offset of the structure block where FDT_BEGIN_NODE is     *)
(* stored, for every Width, blob, job and caller offset, damaged blobs   *)
(* included; the one exception is the record the traversal's own loop   *)
(* makes, with a negative depth, after an FDT_END_NODE that closes more  *)
(* nodes than were opened.                                                *)
THEOREM YieldsAreNodesInvariant ==
  ASSUME ChecksKept
  PROVE  Spec => []YieldsAreNodes
<1>1. Init => NodesInv
  BY NodesInit
<1>2. NodesInv /\ [Next]_vars => NodesInv'
  BY NodesStep
<1>3. NodesInv => YieldsAreNodes
  BY DEF NodesInv
<1>. QED BY <1>1, <1>2, <1>3, PTL DEF Spec

=============================================================================
