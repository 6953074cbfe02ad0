----------------------------- MODULE FdtHeader -----------------------------
(***************************************************************************)
(* The header model, the assumption policy, the bounds checker and the     *)
(* header validator of the flattened-device-tree decoder in               *)
(* src/unnamed/part_000 (the libfdt excerpt compiled into the dtboverlay  *)
(* module).  Everything here is a pure operator of a blob; the modules    *)
(* FdtCheck and FdtWalk give it state.                                     *)
(*                                                                         *)
(* A blob is a record [addr, bytes]: addr is the base address modulo 8    *)
(* (all that the alignment check looks at) and bytes is the content, a   *)
(* function from byte offsets to byte values.                              *)
(*                                                                         *)
(* The code's integers are 32 bits wide (u32, unsigned int, int).  Here   *)
(* the width is the constant Width, and a byte has Width \div 4 bits, so  *)
(* that a 32-bit field is still four bytes loaded big-endian.  Width = 32 *)
(* is the code; the model checker runs use Width = 16 so that TLC can     *)
(* represent every word, and the theorems hold for every Width.            *)
(***************************************************************************)
EXTENDS Integers

CONSTANTS
  Width,       \* bits of a u32 / int in the code (32)
  AssumeMask,  \* FDT_ASSUME_MASK: the set of assumptions the build enables
  FDT_MAGIC    \* the magic number, a Width-bit value (0xd00dfeed at 32 bits)

(* The assumption bits of the enum at part_000:62-149.  ASSUME_PERFECT     *)
(* (0xff) is the set of all of them.                                       *)
Assumptions == {"VALID_DTB", "VALID_INPUT", "LATEST", "NO_ROLLBACK",
                "LIBFDT_ORDER", "LIBFDT_FLAWLESS"}
ASSUME_PERFECT == Assumptions

ASSUME WidthAssumption == Width \in Nat /\ Width >= 8 /\ Width % 4 = 0
ASSUME MaskAssumption == AssumeMask \subseteq Assumptions

(* Unsigned words and bytes, and the int range of the code.  A word is    *)
(* four bytes, so WordBase = 2^Width and INT_MAX = 2^(Width-1) - 1.       *)
ByteBase == 2 ^ (Width \div 4)
Byte == 0 .. ByteBase - 1
WordBase == ByteBase * ByteBase * ByteBase * ByteBase
Word == 0 .. WordBase - 1
INT_MAX == WordBase \div 2 - 1

(* The arithmetic of powers of two that the proofs use, a consequence of *)
(* WidthAssumption.                                                       *)
ASSUME ByteBaseAssumption == ByteBase \in Nat /\ ByteBase >= 4

ASSUME MagicAssumption == FDT_MAGIC \in Word

(* Wrap-around of unsigned arithmetic, and the int value of a bit pattern *)
(* (the kernel is built with -fno-strict-overflow, so int arithmetic     *)
(* wraps as well).                                                        *)
U32(x) == x % WordBase
ToInt(x) == IF U32(x) > INT_MAX THEN U32(x) - WordBase ELSE U32(x)

(* can_assume_(): part_000:157-163.                                        *)
CanAssume(a) == a \in AssumeMask

(* Constants of part_000:165-167 and of fdt.h (header sizes, tags).       *)
FDT_FIRST_SUPPORTED_VERSION == 2
FDT_LAST_COMPATIBLE_VERSION == 16
FDT_LAST_SUPPORTED_VERSION == 17
FDT_V1_SIZE == 28
FDT_V2_SIZE == 32
FDT_V3_SIZE == 36
FDT_V16_SIZE == 36
FDT_V17_SIZE == 40
FDT_TAGSIZE == 4
FDT_BEGIN_NODE == 1
FDT_END_NODE == 2
FDT_PROP == 3
FDT_NOP == 4
FDT_END == 9

(* Error codes: part_000:170-258.  The functions return their negation.   *)
FDT_ERR_NOTFOUND == 1
FDT_ERR_BADOFFSET == 4
FDT_ERR_TRUNCATED == 8
FDT_ERR_BADMAGIC == 9
FDT_ERR_BADVERSION == 10
FDT_ERR_BADSTRUCTURE == 11
FDT_ERR_ALIGNMENT == 19

-----------------------------------------------------------------------------
(* Header model.  The byte offsets of the fields of struct fdt_header.    *)
FieldOff == [magic |-> 0, totalsize |-> 4, off_dt_struct |-> 8,
             off_dt_strings |-> 12, off_mem_rsvmap |-> 16, version |-> 20,
             last_comp_version |-> 24, boot_cpuid_phys |-> 28,
             size_dt_strings |-> 32, size_dt_struct |-> 36]
Fields == DOMAIN FieldOff

(* The bytes a load of field f touches.                                   *)
FieldBytes(f) == FieldOff[f] .. FieldOff[f] + 3

(* The bytes loads of the fields in S touch.                              *)
HeaderBytes(S) == UNION {FieldBytes(f) : f \in S}

(* A blob: the base address modulo 8 and bytes at natural offsets.        *)
IsBlob(b) ==
  /\ b.addr \in 0 .. 7
  /\ DOMAIN b.bytes \subseteq Nat
  /\ \A i \in DOMAIN b.bytes : b.bytes[i] \in Byte

(* A byte of the content; bytes outside it read as 0 (the runs flag every *)
(* such read separately, so the value is never relied upon).              *)
ByteAt(bytes, i) == IF i \in DOMAIN bytes THEN bytes[i] ELSE 0

(* fdt32_ld(): the big-endian composition of four bytes.                  *)
Ld32(bytes, off) ==
  ((ByteAt(bytes, off) * ByteBase + ByteAt(bytes, off + 1)) * ByteBase
     + ByteAt(bytes, off + 2)) * ByteBase + ByteAt(bytes, off + 3)

(* fdt_get_header(fdt, field) and the fdt_magic() ... macros.             *)
Hdr(b, f) == Ld32(b.bytes, FieldOff[f])

-----------------------------------------------------------------------------
(* Bounds checker.  check_off_() and check_block_(): u32 arguments and a  *)
(* u32 sum base + size.                                                   *)
CheckOff(hdrsize, totalsize, off) == off >= hdrsize /\ off <= totalsize

(* A plausible bug: check_block_() without its overflow comparison.      *)
MutCheckBlockNoWrap(hdrsize, totalsize, base, size) ==
  CheckOff(hdrsize, totalsize, base) /\ CheckOff(hdrsize, totalsize, U32(base + size))

CheckBlock(hdrsize, totalsize, base, size) ==
  /\ CheckOff(hdrsize, totalsize, base)
  /\ U32(base + size) >= base
  /\ CheckOff(hdrsize, totalsize, U32(base + size))

(* fdt_header_size_() and fdt_header_size().                              *)
HeaderSizeOf(version) ==
  IF version <= 1 THEN FDT_V1_SIZE
  ELSE IF version <= 2 THEN FDT_V2_SIZE
  ELSE IF version <= 3 THEN FDT_V3_SIZE
  ELSE IF version <= 16 THEN FDT_V16_SIZE
  ELSE FDT_V17_SIZE

HeaderSize(b) ==
  IF CanAssume("LATEST") THEN FDT_V17_SIZE ELSE HeaderSizeOf(Hdr(b, "version"))

-----------------------------------------------------------------------------
(* Header validator: fdt_check_header(), part_000:323-381, as the list of *)
(* its checks in the order the code makes them.  A check is "live" when   *)
(* no assumption skips it; it "fails" when its condition returns; "reads" *)
(* are the header bytes it loads (a || reads its right operand only when  *)
(* the left one is false, so the version bracket is two checks).  The     *)
(* step "hdrsize" is the call of fdt_header_size() at line 344, which     *)
(* loads the version and never fails.                                     *)
CheckSteps(b) ==
  LET v   == Hdr(b, "version")
      lcv == Hdr(b, "last_comp_version")
      ts  == Hdr(b, "totalsize")
      hs  == HeaderSize(b)
      latest == CanAssume("LATEST")
      valid  == CanAssume("VALID_DTB")
  IN << [live |-> TRUE, fails |-> b.addr % 8 # 0,
         err |-> FDT_ERR_ALIGNMENT, reads |-> {}],
        [live |-> TRUE, fails |-> Hdr(b, "magic") # FDT_MAGIC,
         err |-> FDT_ERR_BADMAGIC, reads |-> HeaderBytes({"magic"})],
        [live |-> ~latest, fails |-> v < FDT_FIRST_SUPPORTED_VERSION,
         err |-> FDT_ERR_BADVERSION, reads |-> HeaderBytes({"version"})],
        [live |-> ~latest, fails |-> lcv > FDT_LAST_SUPPORTED_VERSION,
         err |-> FDT_ERR_BADVERSION, reads |-> HeaderBytes({"last_comp_version"})],
        [live |-> ~latest, fails |-> v < lcv,
         err |-> FDT_ERR_BADVERSION,
         reads |-> HeaderBytes({"version", "last_comp_version"})],
        [live |-> ~latest, fails |-> FALSE,
         err |-> 0, reads |-> HeaderBytes({"version"})],
        [live |-> ~valid, fails |-> ts < hs \/ ts > INT_MAX,
         err |-> FDT_ERR_TRUNCATED, reads |-> HeaderBytes({"totalsize"})],
        [live |-> ~valid,
         fails |-> ~CheckOff(hs, ts, Hdr(b, "off_mem_rsvmap")),
         err |-> FDT_ERR_TRUNCATED,
         reads |-> HeaderBytes({"totalsize", "off_mem_rsvmap"})],
        [live |-> ~valid /\ ~latest, fails |-> FALSE,
         err |-> 0, reads |-> HeaderBytes({"version"})],
        [live |-> ~valid /\ ~latest /\ v < 17,
         fails |-> ~CheckOff(hs, ts, Hdr(b, "off_dt_struct")),
         err |-> FDT_ERR_TRUNCATED,
         reads |-> HeaderBytes({"totalsize", "off_dt_struct"})],
        [live |-> ~valid /\ (latest \/ v >= 17),
         fails |-> ~CheckBlock(hs, ts, Hdr(b, "off_dt_struct"),
                               Hdr(b, "size_dt_struct")),
         err |-> FDT_ERR_TRUNCATED,
         reads |-> HeaderBytes({"totalsize", "off_dt_struct", "size_dt_struct"})],
        [live |-> ~valid,
         fails |-> ~CheckBlock(hs, ts, Hdr(b, "off_dt_strings"),
                               Hdr(b, "size_dt_strings")),
         err |-> FDT_ERR_TRUNCATED,
         reads |-> HeaderBytes({"totalsize", "off_dt_strings", "size_dt_strings"})] >>

NumCheckSteps == 12

(* The checks that return, and the one that returns first.                *)
FailingSteps(b) ==
  LET steps == CheckSteps(b)
  IN {i \in 1 .. NumCheckSteps : steps[i].live /\ steps[i].fails}
FirstFailing(b) ==
  LET F == FailingSteps(b) IN CHOOSE i \in F : \A j \in F : i <= j

(* The value fdt_check_header() returns.  The mutant returns the error   *)
(* code without its minus sign.                                           *)
MutFdtCheckHeaderPositive(b) ==
  IF FailingSteps(b) = {} THEN 0 ELSE CheckSteps(b)[FirstFailing(b)].err
FdtCheckHeader(b) ==
  IF FailingSteps(b) = {} THEN 0 ELSE -CheckSteps(b)[FirstFailing(b)].err

(* The header bytes it loads on the way to that return.                   *)
CheckHeaderReads(b) ==
  LET last == IF FailingSteps(b) = {} THEN NumCheckSteps ELSE FirstFailing(b)
  IN UNION {CheckSteps(b)[i].reads : i \in {j \in 1 .. last : CheckSteps(b)[j].live}}

=============================================================================
