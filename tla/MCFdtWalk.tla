----------------------------- MODULE MCFdtWalk -----------------------------
(***************************************************************************)
(* Model-checking instance of FdtWalk: 16-bit words (4-bit bytes) and     *)
(* blobs built by an encoder that lays out every well-formed structure    *)
(* block of a few entries the way the device-tree compiler does (the      *)
(* legacy 8-byte alignment of property values below version 16          *)
(* included), followed by damaged copies of them: a structure block cut *)
(* short, an entry whose tag is overwritten, a property whose length     *)
(* runs far past the block.                                               *)
(***************************************************************************)
EXTENDS FdtWalk, TLC

MCWidth == 16
MCMagic == 53261   \* 0xd00d

Be32(x) == [i \in 1 .. 4 |-> (x \div (ByteBase ^ (4 - i))) % ByteBase]
Zeros(n) == [i \in 1 .. n |-> 0]
Pad4(s) == s \o Zeros((4 - (Len(s) % 4)) % 4)
Fill(n, v) == [i \in 1 .. n |-> v]

(* An entry of the structure block: a tag with a name length (BEGIN_NODE) *)
(* or a value length (PROP).                                              *)
Tok(tag, n) == [tag |-> tag, n |-> n]
TagCode == [BEGIN_NODE |-> FDT_BEGIN_NODE, END_NODE |-> FDT_END_NODE,
            PROP |-> FDT_PROP, NOP |-> FDT_NOP, END |-> FDT_END]

(* Whether a property value at structure offset o gets the 4 padding     *)
(* bytes of versions before 16.                                          *)
LegacyPad(t, o, v) == v < 16 /\ t.n >= 8 /\ (o + 12) % 8 # 0

EncodeTok(t, o, v) ==
  CASE t.tag = "BEGIN_NODE" -> Be32(FDT_BEGIN_NODE) \o Pad4(Fill(t.n, 6) \o <<0>>)
    [] t.tag = "PROP" ->
         Be32(FDT_PROP) \o Be32(t.n) \o Be32(0)
           \o Zeros(IF LegacyPad(t, o, v) THEN 4 ELSE 0) \o Pad4(Fill(t.n, 5))
    [] OTHER -> Be32(TagCode[t.tag])

(* The structure block of a token list and the offset of every entry.    *)
Encoded(toks, v) ==
  LET F[i \in 0 .. Len(toks)] ==
        IF i = 0 THEN [bytes |-> <<>>, offs |-> <<>>]
        ELSE LET prev == F[i - 1]
                 o == Len(prev.bytes)
             IN [bytes |-> prev.bytes \o EncodeTok(toks[i], o, v),
                 offs |-> Append(prev.offs, o)]
  IN F[Len(toks)]

SeqToFun(s) == [i \in 0 .. Len(s) - 1 |-> s[i + 1]]

(* A whole blob: header, a memory-reservation map of one (terminating)    *)
(* entry, the structure block and a strings block holding one name.      *)
(* cut > 0 shortens the structure block to cut bytes in the header       *)
(* (size_dt_struct from version 17 on, totalsize before).                 *)
MakeBlob(toks, v, struct, cut, intact) ==
  LET enc == Encoded(toks, v)
      H == HeaderSizeOf(v)
      so == H + 16
      S == Len(struct)
      Sh == IF cut > 0 THEN cut ELSE S
      legacyCut == cut > 0 /\ v < 17
      sto == IF legacyCut THEN so + cut ELSE so + S
      strs == IF legacyCut THEN <<>> ELSE <<6, 0, 0, 0>>
      ts == sto + Len(strs)
      hv == [magic |-> MCMagic, totalsize |-> ts, off_dt_struct |-> so,
             off_dt_strings |-> sto, off_mem_rsvmap |-> H, version |-> v,
             last_comp_version |-> IF v >= 16 THEN 16 ELSE 2,
             boot_cpuid_phys |-> 0, size_dt_strings |-> Len(strs),
             size_dt_struct |-> Sh]
      hdr == [i \in 1 .. H |->
                LET f == CHOOSE g \in Fields : i - 1 \in FieldBytes(g)
                IN Be32(hv[f])[i - FieldOff[f]]]
      body == IF legacyCut THEN SubSeq(struct, 1, cut) ELSE struct
  IN [addr |-> 0,
      bytes |-> SeqToFun(hdr \o Zeros(16) \o body \o strs),
      layout |-> [i \in 1 .. Len(toks) |-> [off |-> enc.offs[i], tag |-> toks[i].tag]],
      intact |-> intact]

(* Well-formed token lists: NOPs, one top-level node, END; inside a node *)
(* properties, NOPs and nodes in any order.                               *)
Prefix(s, i) == SubSeq(s, 1, i)
Opened(s) == Cardinality({j \in 1 .. Len(s) : s[j].tag = "BEGIN_NODE"})
               - Cardinality({j \in 1 .. Len(s) : s[j].tag = "END_NODE"})
WellFormed(body) ==
  /\ \E i \in 1 .. Len(body) : body[i].tag = "BEGIN_NODE"
  /\ \A i \in 1 .. Len(body) :
       LET before == Opened(Prefix(body, i - 1))
           after == Opened(Prefix(body, i))
           seenRoot == \E j \in 1 .. i - 1 : body[j].tag = "BEGIN_NODE"
       IN /\ after >= 0
          /\ body[i].tag = "PROP" => before >= 1
          /\ body[i].tag = "BEGIN_NODE" /\ seenRoot => before >= 1
  /\ Opened(body) = 0

Trees(alphabet, n) ==
  {body \o <<Tok("END", 0)>> :
     body \in {s \in UNION {[1 .. k -> alphabet] : k \in 1 .. n} : WellFormed(s)}}

(* The encoded blobs of one version, intact and damaged.                  *)
OverwriteWord(s, at, w) == [i \in 1 .. Len(s) |-> IF i - 1 \in at .. at + 3 THEN w[i - at] ELSE s[i]]
PropLenAt(toks, v) ==
  {Encoded(toks, v).offs[i] + 4 : i \in {i \in 1 .. Len(toks) : toks[i].tag = "PROP"}}

BlobsOf(toks, v, badLens) ==
  LET struct == Encoded(toks, v).bytes
      S == Len(struct)
  IN {MakeBlob(toks, v, struct, 0, TRUE)}
     \cup {MakeBlob(toks, v, struct, c, FALSE) : c \in {S - 4, S - 3, 6}}
     \cup {MakeBlob(toks, v, OverwriteWord(struct, Encoded(toks, v).offs[2], Be32(5)), 0, FALSE)}
     \cup {MakeBlob(toks, v, OverwriteWord(struct, at, Be32(len)), 0, FALSE) :
             at \in PropLenAt(toks, v), len \in badLens}

(* Run 1: the node structure, version 17.                                 *)
Alphabet17 == {Tok("BEGIN_NODE", 1), Tok("END_NODE", 0), Tok("PROP", 4), Tok("NOP", 0)}
Blobs17 == UNION {BlobsOf(t, 17, {32768}) : t \in Trees(Alphabet17, 6)}

(* Run 2: names of other lengths and the legacy property alignment,      *)
(* versions 16 and 3.                                                     *)
AlphabetLegacy == {Tok("BEGIN_NODE", 0), Tok("BEGIN_NODE", 4), Tok("PROP", 8),
                   Tok("PROP", 0), Tok("END_NODE", 0)}
BlobsLegacy == UNION {BlobsOf(t, v, {32768}) : t \in Trees(AlphabetLegacy, 4), v \in {3, 16}}

(* Blobs fdt_check_header() rejects: the small intact trees with the last *)
(* byte of the magic cleared.  Their structure blocks are well formed, so *)
(* a client that walked them would read them.                             *)
BlobsTiny == UNION {BlobsOf(t, 17, {32768}) : t \in Trees(Alphabet17, 3)}
BlobsBadMagic ==
  {[b EXCEPT !.bytes = [b.bytes EXCEPT ![3] = 0], !.intact = FALSE] :
     b \in {x \in BlobsTiny : x.intact}}

(* Both together, and the rejected blobs: the run over every version.    *)
BlobsAll == Blobs17 \cup BlobsLegacy \cup BlobsBadMagic

(* Run 3: a property length of 2^16 - 12, which brings the cursor back to *)
(* where the entry began.                                                 *)
BlobsWrap == UNION {BlobsOf(t, 17, {65524}) :
                      t \in {<<Tok("BEGIN_NODE", 1), Tok("PROP", 4), Tok("END_NODE", 0), Tok("END", 0)>>}}


MCParents == {-1, 0, 2, 4, 8, 12, 16, 24}
MCParentsLive == {-1, 0, 8}
BlobsLive == UNION {BlobsOf(t, 17, {32768}) : t \in Trees(Alphabet17, 4)}

=============================================================================
