--------------------------- MODULE MCOverlayLoader ---------------------------
(***************************************************************************)
(* Model-checking instance of OverlayLoader: 16-bit words, and files that *)
(* are a valid 40-byte header-only blob, the same with a wrong magic, its *)
(* first 20 bytes, and an empty file.                                      *)
(***************************************************************************)
EXTENDS OverlayLoader

MCWidth == 16
MCMagic == 53261   \* 0xd00d, the magic number cut to 16 bits

(* The four bytes of a word, most significant first.                      *)
MCBe32(x) == [i \in 0 .. 3 |-> (x \div (ByteBase ^ (3 - i))) % ByteBase]

(* The 40 header bytes holding the given field values.                    *)
MCHeader(h) ==
  [i \in 0 .. FDT_V17_SIZE - 1 |->
     LET f == CHOOSE g \in Fields : i \in FieldBytes(g)
     IN MCBe32(h[f])[i - FieldOff[f]]]

ValidHeader ==
  [magic |-> MCMagic, totalsize |-> 40, off_dt_struct |-> 40,
   off_dt_strings |-> 40, off_mem_rsvmap |-> 40, version |-> 17,
   last_comp_version |-> 16, boot_cpuid_phys |-> 0,
   size_dt_strings |-> 0, size_dt_struct |-> 0]

MCValid == MCHeader(ValidHeader)
MCBadMagic == MCHeader([ValidHeader EXCEPT !.magic = 0])
MCCut == [i \in 0 .. 19 |-> MCValid[i]]
MCEmpty == [i \in {} |-> 0]

MCFiles == {MCValid, MCBadMagic, MCCut, MCEmpty}

=============================================================================
