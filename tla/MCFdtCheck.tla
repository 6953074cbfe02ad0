----------------------------- MODULE MCFdtCheck -----------------------------
(***************************************************************************)
(* Model-checking instance of FdtCheck: 16-bit words (4-bit bytes), and   *)
(* headers whose fields are taken from small sets of values chosen at the *)
(* boundaries each check of fdt_check_header() compares against.          *)
(***************************************************************************)
EXTENDS FdtCheck

MCWidth == 16
MCMagic == 53261   \* 0xd00d, the magic number cut to 16 bits

(* The four bytes of a word, most significant first.                      *)
Be32(x) == [i \in 0 .. 3 |-> (x \div (ByteBase ^ (3 - i))) % ByteBase]

(* The 40 header bytes holding the given field values.                    *)
EncodeHeader(h) ==
  [i \in 0 .. FDT_V17_SIZE - 1 |->
     LET f == CHOOSE g \in Fields : i \in FieldBytes(g)
     IN Be32(h[f])[i - FieldOff[f]]]

(* Field values: sizes that wrap base + size around 2^16 onto an in-bounds *)
(* offset, a totalsize beyond INT_MAX, offsets just below the header and *)
(* just past the end, every version tier and both sides of each version  *)
(* bound.                                                                  *)
HeaderValues ==
  [magic : {MCMagic, 0},
   totalsize : {36, 64, 32768},
   off_dt_struct : {40, 60, 65},
   off_dt_strings : {32, 64},
   off_mem_rsvmap : {36, 40, 65},
   version : {1, 2, 3, 16, 17},
   last_comp_version : {2, 16, 18},
   boot_cpuid_phys : {0},
   size_dt_strings : {0, 65512},
   size_dt_struct : {4, 65516}]

MCBlobs == {[addr |-> a, bytes |-> EncodeHeader(h)] : a \in {0, 4}, h \in HeaderValues}

=============================================================================
