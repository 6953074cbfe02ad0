------------------------------ MODULE FdtWalk ------------------------------
(***************************************************************************)
(* The tag walker and the tree traversal of the decoder: fdt_offset_ptr(),*)
(* fdt_next_tag(), fdt_check_node_offset_(), fdt_check_prop_offset_(),   *)
(* fdt_next_node(), fdt_first_subnode() and fdt_next_subnode() of         *)
(* src/unnamed/part_000:383-549 (present in the file as commented-out     *)
(* code, and the part of the decoder the spec calls the tag walker and   *)
(* the tree traversal).                                                   *)
(*                                                                         *)
(* A client holds one blob.  It validates the header (the gate of the    *)
(* spec's data flow) and then runs one job:                               *)
(*   "traverse"  depth = 0; for (o = fdt_next_node(fdt, -1, &depth);     *)
(*               o >= 0; o = fdt_next_node(fdt, o, &depth)) visit(o);     *)
(*   "nodepth"   the same loop with a NULL depth pointer;                 *)
(*   "subnodes"  for (o = fdt_first_subnode(fdt, p); o >= 0;              *)
(*               o = fdt_next_subnode(fdt, o)) visit(o);                  *)
(*   "prop"      fdt_check_prop_offset_(fdt, p).                          *)
(* Each call of fdt_next_tag() made by fdt_next_node() is one step, so a *)
(* loop that never ends is a behaviour that never reaches "done".  When  *)
(* a job is done the client may start another on the same blob.          *)
(***************************************************************************)
EXTENDS FdtHeader, Sequences, FiniteSets

CONSTANTS
  Blobs,    \* the blobs a client may hold
  Parents   \* the offsets a client passes as parent or property offset

(* A blob as the model checker builds it carries, besides addr and bytes, *)
(* the layout its encoder gave the structure block (the offset and tag   *)
(* of each entry, in order) and whether it was left intact.  The code    *)
(* never looks at these two fields; the properties compare the walk with *)
(* them.                                                                  *)
TagNames == {"BEGIN_NODE", "END_NODE", "PROP", "NOP", "END"}
Entry == [off : Nat, tag : TagNames]

ASSUME WalkBlobsAssumption ==
  /\ Blobs # {}
  /\ \A b \in Blobs : /\ IsBlob(b) /\ b.layout \in Seq(Entry) /\ b.intact \in BOOLEAN
                     /\ IsFiniteSet(DOMAIN b.bytes)
                     /\ 0 .. Hdr(b, "totalsize") - 1 \subseteq DOMAIN b.bytes
(* Offsets are ints of the code.                                          *)
ASSUME ParentsAssumption == Parents \subseteq -(INT_MAX + 1) .. INT_MAX

Kinds == {"traverse", "nodepth", "subnodes", "prop"}
Jobs == [kind : {"traverse", "nodepth"}, parent : {-1}]
          \cup [kind : {"subnodes", "prop"}, parent : Parents]

VARIABLES
  blob,        \* the blob
  job,         \* the job the client runs
  pc,          \* "probe", "check" (in fdt_check_node_offset_), "loop"
               \* (in the loop of fdt_next_node), "prop" (about to call
               \* fdt_check_prop_offset_), "done" or "fault"
  caller,      \* who called the running fdt_next_node(): "client",
               \* "first_subnode" or "next_subnode"
  offset,      \* the locals offset and nextoffset of fdt_next_node()
  nextoffset,
  depth,       \* the int the depth pointer points to
  yielded,     \* the offsets the client has visited, with *depth
  result,      \* the negative value that ended the job
  rd           \* the bytes of the blob the last step read

vars == <<blob, job, pc, caller, offset, nextoffset, depth, yielded, result, rd>>

-----------------------------------------------------------------------------
(* Header fields the walker uses.                                          *)
StructOff(b) == Hdr(b, "off_dt_struct")
Version(b) == Hdr(b, "version")

(* fdt_offset_ptr(fdt, offset, len): whether it returns a pointer (and not *)
(* NULL).  uoffset, absoffset and the sums with len are unsigned int.     *)
(* Plausible bugs: the bound by size_dt_struct, or by totalsize, left out. *)
MutOffsetPtrOkNoStructSize(b, o, len) ==
  LET uoffset == U32(o)
      absoffset == U32(o + StructOff(b))
  IN /\ o >= 0
     /\ ~CanAssume("VALID_INPUT") =>
          ~(\/ absoffset < uoffset
            \/ U32(absoffset + len) < absoffset
            \/ U32(absoffset + len) > Hdr(b, "totalsize"))
MutOffsetPtrOkNoTotalsize(b, o, len) ==
  LET uoffset == U32(o)
  IN /\ o >= 0
     /\ (CanAssume("LATEST") \/ Version(b) >= 17) =>
          ~(\/ U32(uoffset + len) < uoffset
            \/ U32(o + len) > Hdr(b, "size_dt_struct"))

OffsetPtrOk(b, o, len) ==
  LET uoffset == U32(o)
      absoffset == U32(o + StructOff(b))
  IN /\ o >= 0
     /\ ~CanAssume("VALID_INPUT") =>
          ~(\/ absoffset < uoffset
            \/ U32(absoffset + len) < absoffset
            \/ U32(absoffset + len) > Hdr(b, "totalsize"))
     /\ (CanAssume("LATEST") \/ Version(b) >= 17) =>
          ~(\/ U32(uoffset + len) < uoffset
            \/ U32(o + len) > Hdr(b, "size_dt_struct"))

(* The pointer it returns, fdt_offset_ptr_(): a byte index of the blob.   *)
Ptr(b, o) == StructOff(b) + o

(* fdt_next_tag(fdt, startoffset, &nextoffset), as the record of the tag *)
(* it returns, the value it leaves in nextoffset, the bytes it reads and  *)
(* whether it dereferences a NULL pointer (possible only when VALID_DTB  *)
(* removes the checks) or a byte beyond the blob.                         *)
Mem(b, i) == ByteAt(b.bytes, i)
InBlob(b, i) == i \in DOMAIN b.bytes
Bytes4(b, o) == Ptr(b, o) .. Ptr(b, o) + 3

(* The name scan of FDT_BEGIN_NODE: do p = fdt_offset_ptr(fdt, offset++, *)
(* 1); while (p && *p != '\0').  It stops at the first k where p is NULL  *)
(* or *p is NUL; offset is then k + 1.                                    *)
(* The scan cannot pass hi, the first offset whose byte lies beyond the  *)
(* blob however the header places the structure block.                    *)
Stops(b, k) == ~OffsetPtrOk(b, k, 1) \/ ~InBlob(b, Ptr(b, k)) \/ Mem(b, Ptr(b, k)) = 0
ScanStop(b, o) ==
  LET hi == o + Cardinality(DOMAIN b.bytes)
  IN CHOOSE k \in o .. hi : /\ k = hi \/ Stops(b, k)
                            /\ \A j \in o .. k - 1 : ~Stops(b, j)

(* Tag alignment: FDT_TAGALIGN(x) = (x + 3) & ~3 on an int.  The mutants:  *)
(* no alignment, and the macro with the sign of the rounding term wrong.  *)
MutTagAlignNone(x) == ToInt(x)
MutTagAlignMinus(x) ==
  ToInt(x - FDT_TAGSIZE + 1) - (ToInt(x - FDT_TAGSIZE + 1) % FDT_TAGSIZE)
TagAlign(x) == ToInt(x + FDT_TAGSIZE - 1) - (ToInt(x + FDT_TAGSIZE - 1) % FDT_TAGSIZE)

TagOf(v) ==
  CASE v = FDT_BEGIN_NODE -> "BEGIN_NODE"
    [] v = FDT_END_NODE -> "END_NODE"
    [] v = FDT_PROP -> "PROP"
    [] v = FDT_NOP -> "NOP"
    [] v = FDT_END -> "END"
    [] OTHER -> "OTHER"

(* The legacy alignment quirk of FDT_PROP: 4 more bytes when the version  *)
(* is below 16, the value has 8 bytes or more and does not start 8-byte   *)
(* aligned relative to the structure block (off is the int offset past  *)
(* the value, len the u32 length).  The mutant tests the version        *)
(* against 17.                                                            *)
MutLegacyAlignPadV17(b, off, len) ==
  /\ ~CanAssume("LATEST")
  /\ Version(b) < 17
  /\ len >= 8
  /\ U32(off - len) % 8 # 0
LegacyAlignPad(b, off, len) ==
  /\ ~CanAssume("LATEST")
  /\ Version(b) < 16
  /\ len >= 8
  /\ U32(off - len) % 8 # 0

Ret(tag, next, reads) == [tag |-> tag, next |-> next, reads |-> reads, fault |-> FALSE]
Fault(reads) == [tag |-> "END", next |-> -FDT_ERR_TRUNCATED, reads |-> reads, fault |-> TRUE]

(* What follows the tag: the offset past the entry, or a premature end.   *)
(* Then the whole span from startoffset is checked once more.             *)
Finish(b, start, off, reads, tag) ==
  IF ~OffsetPtrOk(b, start, U32(off - start))
  THEN Ret("END", -FDT_ERR_BADSTRUCTURE, reads)
  ELSE Ret(tag, TagAlign(off), reads)

NextTag(b, start) ==
  LET valid == CanAssume("VALID_DTB")
      tagok == OffsetPtrOk(b, start, FDT_TAGSIZE)
      tag == TagOf(Ld32(b.bytes, Ptr(b, start)))
      o1 == start + FDT_TAGSIZE
      treads == Bytes4(b, start)
  IN
  IF ~tagok /\ ~valid THEN Ret("END", -FDT_ERR_TRUNCATED, {})
  ELSE IF ~tagok \/ ~(treads \subseteq DOMAIN b.bytes) THEN Fault(treads)
  ELSE CASE
    tag = "BEGIN_NODE" ->
      LET k == ScanStop(b, start + FDT_TAGSIZE)
          nreads == {Ptr(b, j) : j \in o1 .. k - 1} \cup
                    (IF OffsetPtrOk(b, k, 1) THEN {Ptr(b, k)} ELSE {})
      IN IF OffsetPtrOk(b, k, 1) /\ ~InBlob(b, Ptr(b, k))
         THEN Fault(treads \cup nreads)
         ELSE IF ~OffsetPtrOk(b, k, 1) /\ ~valid
         THEN Ret("END", -FDT_ERR_BADSTRUCTURE, treads \cup nreads)
         ELSE Finish(b, start, k + 1, treads \cup nreads, tag)
    [] tag = "PROP" ->
      LET lenok == OffsetPtrOk(b, o1, 4)
          len == Ld32(b.bytes, Ptr(b, o1))
          lreads == treads \cup Bytes4(b, o1)
          o2 == ToInt(o1 + 8 + len)
          o3 == IF LegacyAlignPad(b, o2, len) THEN ToInt(o2 + 4) ELSE o2
      IN IF ~lenok /\ ~valid THEN Ret("END", -FDT_ERR_BADSTRUCTURE, treads)
         ELSE IF ~lenok \/ ~(Bytes4(b, o1) \subseteq DOMAIN b.bytes)
         THEN Fault(lreads)
         ELSE Finish(b, start, o3, lreads, tag)
    [] tag \in {"END", "END_NODE", "NOP"} -> Finish(b, start, o1, treads, tag)
    [] OTHER -> Ret("END", -FDT_ERR_BADSTRUCTURE, treads)

(* fdt_check_node_offset_() and fdt_check_prop_offset_(): the offset past *)
(* the entry at o when o is a tag-aligned entry of the wanted tag.        *)
CheckOffset(b, o, want) ==
  IF ~CanAssume("VALID_INPUT") /\ (o < 0 \/ o % FDT_TAGSIZE # 0)
  THEN [val |-> -FDT_ERR_BADOFFSET, reads |-> {}, fault |-> FALSE]
  ELSE LET t == NextTag(b, o)
       IN [val |-> IF t.tag # want THEN -FDT_ERR_BADOFFSET ELSE t.next,
           reads |-> t.reads, fault |-> t.fault]

-----------------------------------------------------------------------------
(* A call of fdt_next_node(fdt, o, depth) by caller: when o >= 0 it first *)
(* checks o; otherwise the loop starts at nextoffset = 0.                 *)
CallNextNode(o, d, c) ==
  /\ offset' = o
  /\ depth' = d
  /\ caller' = c
  /\ IF o >= 0 THEN pc' = "check" /\ nextoffset' = 0
               ELSE pc' = "loop" /\ nextoffset' = 0

HasDepth == job.kind # "nodepth"

Visit(o, d) ==
  yielded' = Append(yielded, [off |-> o, depth |-> IF job.kind = "traverse" THEN d ELSE 0])

Finished(r, d) ==
  /\ pc' = "done"
  /\ result' = r
  /\ depth' = d
  /\ UNCHANGED <<caller, offset, nextoffset, yielded>>

(* Plausible bugs of the callers: a client loop that runs until          *)
(* -FDT_ERR_NOTFOUND instead of while the offset is >= 0, and an          *)
(* fdt_next_subnode() without its loop over deeper nodes.                 *)
MutReturnNextNodeUntilNotFound(r, d) ==
  CASE caller = "client" ->
         IF r # -FDT_ERR_NOTFOUND THEN /\ Visit(r, d)
                                       /\ CallNextNode(r, d, "client")
                                       /\ UNCHANGED result
         ELSE Finished(r, d)
    [] caller = "first_subnode" ->
         IF r < 0 \/ d # 1
         THEN Finished(-FDT_ERR_NOTFOUND, d)
         ELSE /\ Visit(r, d)
              /\ CallNextNode(r, 1, "next_subnode")
              /\ UNCHANGED result
    [] caller = "next_subnode" ->
         IF r < 0 \/ d < 1
         THEN Finished(-FDT_ERR_NOTFOUND, d)
         ELSE IF d > 1
         THEN /\ CallNextNode(r, d, "next_subnode")
              /\ UNCHANGED <<yielded, result>>
         ELSE /\ Visit(r, d)
              /\ CallNextNode(r, 1, "next_subnode")
              /\ UNCHANGED result
MutReturnNextNodeNoDeepSkip(r, d) ==
  CASE caller = "client" ->
         IF r >= 0 THEN /\ Visit(r, d)
                        /\ CallNextNode(r, d, "client")
                        /\ UNCHANGED result
                   ELSE Finished(r, d)
    [] caller = "first_subnode" ->
         IF r < 0 \/ d # 1
         THEN Finished(-FDT_ERR_NOTFOUND, d)
         ELSE /\ Visit(r, d)
              /\ CallNextNode(r, 1, "next_subnode")
              /\ UNCHANGED result
    [] caller = "next_subnode" ->
         IF r < 0 \/ d < 1
         THEN Finished(-FDT_ERR_NOTFOUND, d)
         ELSE /\ Visit(r, d)
              /\ CallNextNode(r, 1, "next_subnode")
              /\ UNCHANGED result

(* fdt_next_node() returns r, leaving d in *depth: the code of its caller *)
(* up to its next call of fdt_next_node() or the end of the job.  In     *)
(* fdt_first_subnode() and fdt_next_subnode() the depth is their local,  *)
(* set to 0 and to 1 before the call.                                     *)
ReturnNextNode(r, d) ==
  CASE caller = "client" ->
         IF r >= 0 THEN /\ Visit(r, d)
                        /\ CallNextNode(r, d, "client")
                        /\ UNCHANGED result
                   ELSE Finished(r, d)
    [] caller = "first_subnode" ->
         IF r < 0 \/ d # 1
         THEN Finished(-FDT_ERR_NOTFOUND, d)
         ELSE /\ Visit(r, d)
              /\ CallNextNode(r, 1, "next_subnode")
              /\ UNCHANGED result
    [] caller = "next_subnode" ->
         IF r < 0 \/ d < 1
         THEN Finished(-FDT_ERR_NOTFOUND, d)
         ELSE IF d > 1
         THEN /\ CallNextNode(r, d, "next_subnode")
              /\ UNCHANGED <<yielded, result>>
         ELSE /\ Visit(r, d)
              /\ CallNextNode(r, 1, "next_subnode")
              /\ UNCHANGED result

-----------------------------------------------------------------------------
(* A plausible bug of the client: the result of fdt_check_header() only  *)
(* printed and the job started whatever it was, as of_overlay_init()     *)
(* does with its own call.                                                *)
MutProbeIgnoreResult ==
  /\ pc = "probe"
  /\ rd' = {}
  /\ CASE job.kind \in {"traverse", "nodepth"} ->
            /\ CallNextNode(-1, 0, "client") /\ UNCHANGED <<yielded, result>>
       [] job.kind = "subnodes" ->
            /\ CallNextNode(job.parent, 0, "first_subnode")
            /\ UNCHANGED <<yielded, result>>
       [] job.kind = "prop" ->
            /\ pc' = "prop"
            /\ UNCHANGED <<caller, offset, nextoffset, depth, yielded, result>>
  /\ UNCHANGED <<blob, job>>

(* The client validates the header and starts its job.                    *)
Probe ==
  /\ pc = "probe"
  /\ rd' = {}
  /\ LET r == FdtCheckHeader(blob) IN
     IF r # 0
     THEN /\ pc' = "done" /\ result' = r
          /\ UNCHANGED <<caller, offset, nextoffset, depth, yielded>>
     ELSE CASE job.kind \in {"traverse", "nodepth"} ->
                 /\ CallNextNode(-1, 0, "client") /\ UNCHANGED <<yielded, result>>
            [] job.kind = "subnodes" ->
                 /\ CallNextNode(job.parent, 0, "first_subnode")
                 /\ UNCHANGED <<yielded, result>>
            [] job.kind = "prop" ->
                 /\ pc' = "prop"
                 /\ UNCHANGED <<caller, offset, nextoffset, depth, yielded, result>>
  /\ UNCHANGED <<blob, job>>

(* r = fdt_check_prop_offset_(fdt, p).                                   *)
CheckProp ==
  /\ pc = "prop"
  /\ LET c == CheckOffset(blob, job.parent, "PROP")
     IN /\ pc' = IF c.fault THEN "fault" ELSE "done"
        /\ result' = c.val
        /\ rd' = c.reads
  /\ UNCHANGED <<blob, job, caller, offset, nextoffset, depth, yielded>>

(* fdt_next_node(): if (offset >= 0) if ((nextoffset =                    *)
(* fdt_check_node_offset_(fdt, offset)) < 0) return nextoffset;          *)
NextNodeCheck ==
  /\ pc = "check"
  /\ LET c == CheckOffset(blob, offset, "BEGIN_NODE")
     IN /\ rd' = c.reads
        /\ IF c.fault
           THEN /\ pc' = "fault"
                /\ UNCHANGED <<caller, offset, nextoffset, depth, yielded, result>>
           ELSE IF c.val < 0
           THEN /\ ReturnNextNode(c.val, depth)
           ELSE /\ nextoffset' = c.val /\ pc' = "loop"
                /\ UNCHANGED <<caller, offset, depth, yielded, result>>
  /\ UNCHANGED <<blob, job>>

(* One iteration of the loop of fdt_next_node(): offset = nextoffset;     *)
(* tag = fdt_next_tag(fdt, offset, &nextoffset) and the switch on it.     *)
NextNodeStep ==
  /\ pc = "loop"
  /\ LET o == nextoffset
         t == NextTag(blob, o)
     IN /\ rd' = t.reads
        /\ IF t.fault
           THEN /\ pc' = "fault"
                /\ UNCHANGED <<caller, offset, nextoffset, depth, yielded, result>>
           ELSE CASE t.tag \in {"PROP", "NOP"} ->
                       /\ offset' = o /\ nextoffset' = t.next
                       /\ UNCHANGED <<pc, caller, depth, yielded, result>>
                  [] t.tag = "BEGIN_NODE" ->
                       ReturnNextNode(o, IF HasDepth THEN depth + 1 ELSE depth)
                  [] t.tag = "END_NODE" ->
                       IF HasDepth /\ depth - 1 < 0
                       THEN ReturnNextNode(t.next, depth - 1)
                       ELSE /\ depth' = IF HasDepth THEN depth - 1 ELSE depth
                            /\ offset' = o /\ nextoffset' = t.next
                            /\ UNCHANGED <<pc, caller, yielded, result>>
                  [] t.tag = "END" ->
                       ReturnNextNode(
                         IF t.next >= 0 \/ (t.next = -FDT_ERR_TRUNCATED /\ ~HasDepth)
                         THEN -FDT_ERR_NOTFOUND ELSE t.next,
                         depth)
  /\ UNCHANGED <<blob, job>>

(* When a job is done the client may run another on the same blob.       *)
NewJob ==
  /\ pc = "done"
  /\ \E j \in Jobs :
       /\ job' = j
       /\ pc' = "probe"
       /\ caller' = "client" /\ offset' = 0 /\ nextoffset' = 0 /\ depth' = 0
       /\ yielded' = <<>> /\ result' = 0 /\ rd' = {}
  /\ UNCHANGED blob

Init ==
  /\ blob \in Blobs
  /\ job \in Jobs
  /\ pc = "probe"
  /\ caller = "client" /\ offset = 0 /\ nextoffset = 0 /\ depth = 0
  /\ yielded = <<>> /\ result = 0 /\ rd = {}

Next == Probe \/ CheckProp \/ NextNodeCheck \/ NextNodeStep \/ NewJob

Spec == Init /\ [][Next]_vars

(* A running call is executed by its thread until it returns.             *)
FairSpec ==
  /\ Spec
  /\ WF_vars(Probe) /\ WF_vars(CheckProp)
  /\ WF_vars(NextNodeCheck) /\ WF_vars(NextNodeStep)

-----------------------------------------------------------------------------
(* The tree the encoder laid out.  The nesting depth of entry i counts the *)
(* nodes opened and not yet closed up to and including it.                *)
Layout(b) == b.layout
DepthAt(b, i) ==
  Cardinality({j \in 1 .. i : Layout(b)[j].tag = "BEGIN_NODE"})
    - Cardinality({j \in 1 .. i : Layout(b)[j].tag = "END_NODE"})

(* The node entries, in order, with the depth of each.                    *)
NodeIdx(b) == {i \in 1 .. Len(Layout(b)) : Layout(b)[i].tag = "BEGIN_NODE"}

(* The entries i with P(i), in order, as [off, depth] records.            *)
Listed(b, P(_), withDepth) ==
  LET idx == [i \in 1 .. Len(Layout(b)) |-> i]
      sel == SelectSeq(idx, P)
  IN [k \in 1 .. Len(sel) |->
        [off |-> Layout(b)[sel[k]].off,
         depth |-> IF withDepth THEN DepthAt(b, sel[k]) ELSE 0]]

(* The children of the node at offset p: the nodes one level deeper that *)
(* come after it and before the entry that closes it.  Offset -1 stands  *)
(* for the parent of the top-level nodes; any other offset that is not a *)
(* node has no children.                                                  *)
OwnerIdx(b, p) == {i \in NodeIdx(b) : Layout(b)[i].off = p}
ChildIdx(b, p) ==
  IF p = -1 THEN {i \in NodeIdx(b) : DepthAt(b, i) = 1}
  ELSE {c \in NodeIdx(b) :
          \E i \in OwnerIdx(b, p) :
             /\ c > i
             /\ DepthAt(b, c) = DepthAt(b, i) + 1
             /\ \A k \in i .. c : DepthAt(b, k) >= DepthAt(b, i)}

(* What a job visits on an intact blob, in order.                         *)
RefYield(b, j) ==
  CASE j.kind = "traverse" -> Listed(b, LAMBDA i : i \in NodeIdx(b), TRUE)
    [] j.kind = "nodepth" -> Listed(b, LAMBDA i : i \in NodeIdx(b), FALSE)
    [] j.kind = "subnodes" -> Listed(b, LAMBDA i : i \in ChildIdx(b, j.parent), FALSE)
    [] j.kind = "prop" -> <<>>

(* The property entries and the offset of the entry after each.           *)
PropAfter(b, p) ==
  {Layout(b)[i + 1].off : i \in {i \in 1 .. Len(Layout(b)) - 1 :
                                   Layout(b)[i].tag = "PROP" /\ Layout(b)[i].off = p}}

(* The bytes the walker may read: the structure block, which the header  *)
(* bounds by size_dt_struct from version 17 on and by totalsize before.  *)
WalkableBytes(b) ==
  IF CanAssume("LATEST") \/ Version(b) >= 17
  THEN StructOff(b) .. StructOff(b) + Hdr(b, "size_dt_struct") - 1
  ELSE StructOff(b) .. Hdr(b, "totalsize") - 1

-----------------------------------------------------------------------------
(* Type invariant.                                                        *)
WalkTypeOK ==
  /\ IsBlob(blob)
  /\ job \in Jobs
  /\ pc \in {"probe", "check", "loop", "prop", "done", "fault"}
  /\ caller \in {"client", "first_subnode", "next_subnode"}
  /\ offset \in Int /\ nextoffset \in Int /\ depth \in Int
  /\ yielded \in Seq([off : Nat, depth : Int])
  /\ result \in Int
  /\ rd \subseteq Nat

(* Every node the client has visited, with the depth the traversal       *)
(* reported for it, is the next node of the tree the blob was encoded    *)
(* from: the byte-level walk (name scan, property lengths, the legacy   *)
(* 8-byte alignment of property values, tag alignment, depth counting)  *)
(* never drifts from the layout, and on a damaged blob it stops rather  *)
(* than visit a node that is not there (the spec: earlier-yielded nodes *)
(* remain valid).                                                         *)
YieldsFollowTree ==
  /\ Len(yielded) <= Len(RefYield(blob, job))
  /\ \A k \in 1 .. Len(yielded) : yielded[k] = RefYield(blob, job)[k]

(* Every node a job visits is an FDT_BEGIN_NODE entry of the blob, even  *)
(* of a damaged one: a tag-aligned offset whose tag lies in the          *)
(* structure block (fdt_offset_ptr() accepts it) and reads                *)
(* FDT_BEGIN_NODE, so that the caller may read the node's name there.    *)
(* The exception is the traversal's own: when an FDT_END_NODE takes      *)
(* *depth below 0, fdt_next_node() returns the offset after it (line 507),*)
(* which the loop "o >= 0" visits with a negative depth.                 *)
NodeAt(b, o) ==
  /\ o % FDT_TAGSIZE = 0
  /\ OffsetPtrOk(b, o, FDT_TAGSIZE)
  /\ TagOf(Ld32(b.bytes, Ptr(b, o))) = "BEGIN_NODE"
YieldsAreNodes ==
  \A k \in 1 .. Len(yielded) : yielded[k].depth >= 0 => NodeAt(blob, yielded[k].off)

(* On an intact blob every job ends with the answer the tree gives: the  *)
(* traversals and the subnode iteration have visited all their nodes and *)
(* end with -FDT_ERR_NOTFOUND; fdt_check_prop_offset_() returns the      *)
(* offset of the next entry exactly for a property entry, and             *)
(* -FDT_ERR_BADOFFSET for any other offset.                               *)
CompleteWhenIntact ==
  pc = "done" /\ blob.intact =>
    IF job.kind = "prop"
    THEN IF PropAfter(blob, job.parent) = {} THEN result = -FDT_ERR_BADOFFSET
         ELSE result \in PropAfter(blob, job.parent)
    ELSE yielded = RefYield(blob, job) /\ result = -FDT_ERR_NOTFOUND

(* After fdt_check_header() has accepted a blob, the walker reads only   *)
(* bytes of its structure block and never dereferences a NULL or        *)
(* out-of-blob pointer, whatever the blob's structure block contains.    *)
ReadsInStructBlock ==
  /\ pc # "fault"
  /\ rd \subseteq WalkableBytes(blob)

(* The header validator gates the walk (the spec's data flow: raw bytes  *)
(* -> Header Validator (gate) -> Tag Walker): no step of the walker reads *)
(* a byte of a blob that fdt_check_header() rejects, on any job, however *)
(* many jobs the client runs on the blob.                                 *)
ReadsOnlyAfterAccept == [][rd' # {} => FdtCheckHeader(blob) = 0]_vars

(* A subnode iteration from an offset that is not tag-aligned reports     *)
(* -FDT_ERR_BADOFFSET, as the spec's error taxonomy (section 7) has it    *)
(* for a caller-supplied offset; fdt_first_subnode() turns every negative *)
(* return of fdt_next_node() into -FDT_ERR_NOTFOUND.                       *)
SubnodesReportBadOffset ==
  pc = "done" /\ job.kind = "subnodes" /\ FdtCheckHeader(blob) = 0
    /\ job.parent >= 0 /\ job.parent % FDT_TAGSIZE # 0
    => result = -FDT_ERR_BADOFFSET

(* Every job ends: fdt_next_node() and the subnode loops return (the     *)
(* spec: every operation is bounded by the blob's size and terminates). *)
Termination == (pc # "done") ~> (pc = "done")

=============================================================================
