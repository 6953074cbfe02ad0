------------------------------ MODULE FdtCheck ------------------------------
(***************************************************************************)
(* The header validator as a component with state: a caller holds a blob *)
(* and calls fdt_check_header() on it (Check), as many times as it likes.*)
(*  The result of the last call and the header bytes that    *)
(* call loaded are kept, so that the properties can relate them to the    *)
(* blob.                                                                   *)
(***************************************************************************)
EXTENDS FdtHeader

CONSTANT Blobs   \* the blobs a caller may hand to the validator

ASSUME BlobsAssumption == Blobs # {} /\ \A b \in Blobs : IsBlob(b)

VARIABLES
  blob,     \* the blob the caller holds
  checked,  \* whether fdt_check_header() has been called on it
  result,   \* the value that call returned
  reads     \* the header bytes that call loaded

vars == <<blob, checked, result, reads>>

ResultCodes == {0, -FDT_ERR_ALIGNMENT, -FDT_ERR_BADMAGIC,
                -FDT_ERR_BADVERSION, -FDT_ERR_TRUNCATED}

Init ==
  /\ blob \in Blobs
  /\ checked = FALSE
  /\ result = 0
  /\ reads = {}

(* fdt_check_header(blob).                                                *)
Check ==
  /\ checked' = TRUE
  /\ result' = FdtCheckHeader(blob)
  /\ reads' = CheckHeaderReads(blob)
  /\ UNCHANGED blob

Next == Check

Spec == Init /\ [][Next]_vars

-----------------------------------------------------------------------------
(* The contract of the validator as the spec states it (section 4.4), in  *)
(* mathematical integers: the checks in their order, each skipped under   *)
(* its assumption, the block bounds as plain inequalities with no        *)
(* word to wrap around.                                                   *)
InBoundsOff(h, t, o) == h <= o /\ o <= t
InBoundsBlock(h, t, base, size) ==
  InBoundsOff(h, t, base) /\ InBoundsOff(h, t, base + size)

SpecCheckHeader(b) ==
  LET v == Hdr(b, "version")
      lcv == Hdr(b, "last_comp_version")
      t == Hdr(b, "totalsize")
      h == IF CanAssume("LATEST") THEN FDT_V17_SIZE ELSE HeaderSizeOf(v)
      skipv == CanAssume("LATEST")
      skipb == CanAssume("VALID_DTB")
  IN IF b.addr % 8 # 0 THEN -FDT_ERR_ALIGNMENT
     ELSE IF Hdr(b, "magic") # FDT_MAGIC THEN -FDT_ERR_BADMAGIC
     ELSE IF ~skipv /\ ~(/\ v >= FDT_FIRST_SUPPORTED_VERSION
                         /\ lcv <= FDT_LAST_SUPPORTED_VERSION
                         /\ v >= lcv)
          THEN -FDT_ERR_BADVERSION
     ELSE IF skipb THEN 0
     ELSE IF ~(h <= t /\ t <= INT_MAX) THEN -FDT_ERR_TRUNCATED
     ELSE IF ~InBoundsOff(h, t, Hdr(b, "off_mem_rsvmap")) THEN -FDT_ERR_TRUNCATED
     ELSE IF IF ~skipv /\ v < 17
             THEN ~InBoundsOff(h, t, Hdr(b, "off_dt_struct"))
             ELSE ~InBoundsBlock(h, t, Hdr(b, "off_dt_struct"), Hdr(b, "size_dt_struct"))
          THEN -FDT_ERR_TRUNCATED
     ELSE IF ~InBoundsBlock(h, t, Hdr(b, "off_dt_strings"), Hdr(b, "size_dt_strings"))
          THEN -FDT_ERR_TRUNCATED
     ELSE 0

-----------------------------------------------------------------------------
(* Type invariant.                                                        *)
TypeOK ==
  /\ IsBlob(blob)
  /\ checked \in BOOLEAN
  /\ result \in ResultCodes
  /\ reads \subseteq 0 .. FDT_V17_SIZE - 1

(* fdt_check_header() returns exactly what the spec's validator returns:  *)
(* the first failing check in the spec's order, where the block bounds   *)
(* are meant in mathematical integers.  The code computes base + size in *)
(* u32 and guards the wrap-around with a separate comparison             *)
(* (check_block_); this is the property that comparison exists for.      *)
CheckMatchesSpec == checked => result = SpecCheckHeader(blob)

(* fdt_check_header() loads only header fields that the blob's own        *)
(* version has: the spec (section 6) says the size fields are present     *)
(* from version 3 (size_dt_strings) and 17 (size_dt_struct) on, so a      *)
(* check of an older blob must not read them.                             *)
HeaderReadsWithinHeader ==
  checked /\ ~CanAssume("LATEST") =>
    reads \subseteq 0 .. HeaderSizeOf(Hdr(blob, "version")) - 1

=============================================================================
