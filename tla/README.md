# TLA+ verification of dtboverlay

This directory holds TLA+ models of the repository's flattened-device-tree
(FDT) decoder, of the `dtboverlay` loader module that calls it and of the
`kdbg` kprobe module, the TLC configurations that model-check them, and TLAPS
proofs about the header validator, the string lookup, the loader (including a
refinement of the loader's README-level specification) and kdbg.

## The system

`src/dtboverlay.c` is a Linux kernel module. Its job is to apply a device-tree
overlay on a machine that has no device tree.

- `of_overlay_init` reads a blob from `dtbpath`.
- It calls `fdt_check_header` on the blob and prints the result.
- `debug()` fabricates an empty root node if none exists.
- The blob then goes to the kernel's `of_overlay_fdt_apply`.

The same file also carries a README and a second module, `kdbg`, which is a
kprobe that prints a register.

`src/unnamed/part_000` holds two things:

- The `of_check` debug module, at lines 1-31.
- An excerpt of libfdt, from line 32. It contains:
  - the assumption mask `can_assume`;
  - the header accessors `fdt32_ld` and `fdt_get_header`;
  - the bounds checker `check_off_` and `check_block_`;
  - `fdt_header_size` and `fdt_check_header`;
  - the tag walker `fdt_offset_ptr` and `fdt_next_tag`;
  - the tree traversal `fdt_check_*_offset_`, `fdt_next_node`,
    `fdt_first_subnode` and `fdt_next_subnode`;
  - `fdt_find_string_` and `fdt_move`.

The walker and everything after it (lines 383-575) are present as
commented-out code. They are still the code the spec describes as the tag
walker and the tree traversal, so they are modelled from those lines.

Data flows one way: raw bytes go to the header validator, which is the gate,
and from there to the tag walker and then the tree traversal. Every decoder
operation is synchronous and runs to completion on the calling thread.
Nothing in the decoder is concurrent, and nothing is persisted.

The loader and the kernel interact through module load and unload: insmod
runs `of_overlay_init` once, the kernel keeps the module live or frees it
according to the returned value, and rmmod runs `of_overlay_exit`. What the
module leaves in the kernel (an overlay changeset, a fabricated `of_root`)
outlives a load. `kdbg` is concurrent: its handler runs on every CPU that
hits the probe, while rmmod may run on another.

## Modules

| module | models | state and actions |
|---|---|---|
| `FdtHeader` | header model, assumption policy, bounds checker, validator (part_000:47-381) | Pure operators, with no variables. |
| `FdtCheck` | a caller of `fdt_check_header` (dtboverlay.c:117-129) | `blob`, `checked`, `result`, `reads`; one action, `Check`. |
| `FdtCheckProofs` | proofs about `FdtCheck` | Lemmas and theorems. |
| `FdtWalk` | tag walker and tree traversal (part_000:383-549) | Variables: the blob, the job, the program counter, the locals of `fdt_next_node`, the depth, the visited offsets, the result and the bytes read. Actions: `Probe`, `NextNodeCheck`, `NextNodeStep`, `CheckProp`, `NewJob`. |
| `FdtString` | string table lookup `fdt_find_string_` (part_000:551-561) | The table, its size, the needle, the cursor `p`, the result and the bytes compared; `Iterate` is one pass of the for loop, `NotFound` its exit. |
| `FdtStringProofs` | proofs about `FdtString` | Lemmas and theorems. |
| `FdtHeaderProofs` | lemmas about `FdtHeader` used by both the validator and the loader proofs | `LeastCheck`, `HeaderBytesInHeader`, `CheckHeaderReadsType`. |
| `OverlayLoader` | `of_overlay_init`, `debug`, `of_overlay_exit` (dtboverlay.c:27-145) | The kernel's `of_root` and applied changesets, the module state, the locals of `of_overlay_init` (file, buffer, `ret`) and its static `ovcsid`. One action per statement that changes state: `Insmod`, `Alloc`, `Read`, `Check`, `Debug`, `Apply`, `Close`, `Return`, `Rmmod`. |
| `LoaderAbstract` | what the README (dtboverlay.c:147-164) promises | The root, whether an overlay is applied, the module's state; `Load`, `CreateRoot`, `ApplyOverlay`, `Finish`, `Crash`, `Unload`. |
| `OverlayLoaderProofs` | proofs about `OverlayLoader` | Inductive invariant, one step lemma per action, the refinement. |
| `KdbgProbe` | the kdbg module (dtboverlay.c:165-199) | `modstate`, `registered`, the set `running` of CPUs in `dump_contextidr`, `loads`; `KdbgInit`, `HandlerEnter(c)`, `HandlerExit(c)`, `KdbgExit`. |
| `KdbgProbeProofs` | proofs about `KdbgProbe` | Inductive invariant and theorems. |
| `MCOverlayLoader` | TLC instance | Four files: a valid 40-byte header, one with a bad magic, one cut to 20 bytes, an empty one. |
| `MCKdbgProbe` | TLC instance | Nothing beyond the module; the CPUs are model values. |
| `MCFdtCheck` | TLC instance | Headers built from boundary values of every field. |
| `MCFdtWalk` | TLC instance | An encoder that lays out structure blocks the way dtc does, plus damaged copies. |
| `MCFdtString` | TLC instance | The characters of the tables, and the assumption `ReferenceAgrees`: on every buffer of up to 5 bytes and every needle of up to 2 characters, `FirstOccurrence` equals a second search written with `SubSeqs` and `IndexFirstSubSeq` of SequencesExt. |

### Numbers

The code's integers are 32-bit. In the model the width is the constant
`Width`, and a byte has `Width/4` bits, so a field is always four bytes loaded
big-endian.

- `U32(x) = x % 2^Width` models unsigned arithmetic.
- `ToInt` models int arithmetic, which wraps because the kernel is built with
  `-fno-strict-overflow`.

The TLC runs use `Width = 16`, with magic `0xd00d`. The proofs hold for every
`Width`.

### The validator

`CheckSteps` lists the twelve tests of `fdt_check_header` in the order the code
makes them. Each test carries four things:

- when it is live (the assumption that skips it);
- its failing condition;
- its error;
- the header bytes it loads.

A `||` evaluates its right operand only when the left one is false, so the
version bracket becomes two steps. The call of `fdt_header_size` at line 344 is
a step of its own, which loads the version.

`FdtCheckHeader` returns the negated error of the first failing live step.
`CheckHeaderReads` is the set of bytes loaded up to that step.

### The walker

`NextTag(b, start)` is one call of `fdt_next_tag`. It gives the tag, the value
left in `*nextoffset`, the bytes read, and whether a read fell outside the blob
or through a NULL pointer. The model follows the code in each part:

- the name scan (`ScanStop`, the first offset where `fdt_offset_ptr` fails or
  the byte is NUL);
- the property length, added in int arithmetic;
- the legacy 8-byte padding (`LegacyAlignPad`);
- the final span check (`Finish`);
- `FDT_TAGALIGN` (`TagAlign`).

A client holds one blob and first validates it (`Probe`). It then runs one job:

- a full traversal with a depth pointer;
- a full traversal without one;
- a subnode iteration from a parent offset;
- `fdt_check_prop_offset_` on an offset.

`NextNodeCheck` is the offset check at the top of `fdt_next_node`.
`NextNodeStep` is one iteration of its loop, that is, one `fdt_next_tag` call
and the switch on the tag. When `fdt_next_node` returns, `ReturnNextNode`
applies the code of its caller: the client's loop, or the conditions and the
do-while of `fdt_first_subnode` and `fdt_next_subnode`. A loop that never ends
is therefore a behaviour that never reaches `pc = "done"`. After a job is done,
the client may start another on the same blob (`NewJob`).

The MC blobs carry two ghost fields that the code never reads. `layout` is the
entries the encoder wrote, each an offset and a tag. `intact` records whether
the blob was damaged afterwards. The properties compare the walk against them.

### The loader

`OverlayLoader` keeps every branch of `of_overlay_init` in order, with `pc`
naming the next statement:

- `Insmod`: the module image is loaded with `ovcsid = 0` and `filp_open`
  either fails (`ret = -ENOENT`, goto out) or opens a file from `Files`.
- `Alloc`: `kzalloc(size)`. A size of 0 gives `ZERO_SIZE_PTR`, not NULL; a
  NULL result jumps to `cleanup_file` without assigning `ret`.
- `Read`: `kernel_read`, its result ignored: the whole file or a short count
  from `ShortReads`, the rest of the buffer zero.
- `Check`: `fdt_check_header` on the buffer (the `FdtHeader` operators), its
  result only printed; through `ZERO_SIZE_PTR` the first load oopses.
- `Debug`: `debug()`. With no `of_root` it fabricates one whose names are
  literals of this module image (`rootLoad` records which load), or oopses
  when one of its unchecked calls fails.
- `Apply`: `of_overlay_fdt_apply`, which succeeds only when its own checks
  pass (`ApplyAccepts`: size at least 40, header valid, size at least
  totalsize, a root) and may fail anyway.
- `Close`, `Return`: `filp_close`, then the return of `ret` to the kernel,
  which keeps the module only when the value is not negative.
- `Rmmod`: `of_overlay_remove(&ovcsid)`.

An unassigned `ret` is modelled as the set `Garbage = {-1, 0, 1}` of the
values the stack slot may hold; `Return` picks one. The kernel is modelled by
what the module sees of it, as the file and allocation outcomes above.

### kdbg

`KdbgInit` registers the probe and fails the insmod when `register_kprobe`
fails. A CPU may enter the handler while the probe is armed and leaves it
when it returns. `KdbgExit` is `unregister_kprobe`: it disarms the probe
(`modstate = "exiting"`), then waits until no CPU runs the handler, and only
then is the image freed.

## Runs

| run | cfg | checks | shows |
|---|---|---|---|
| check_header | MCFdtCheck.cfg | TypeOK, CheckMatchesSpec | On every header of the boundary set (25920 states), the code's result equals the spec's check order with the bounds in mathematical integers. The header values include wrapping sizes, totalsize above INT_MAX, and both sides of every version bound. |
| check_header_v2_reads | MCFdtCheckV2Reads.cfg | HeaderReadsWithinHeader (violation) | A version-2 blob has its `size_dt_strings` loaded, although it has no such field. |
| walk | MCFdtWalk.cfg | WalkTypeOK, YieldsFollowTree, CompleteWhenIntact, ReadsInStructBlock, YieldsAreNodes, ReadsOnlyAfterAccept | See below. |
| walk_termination | MCFdtWalkLive.cfg | Termination | Every job ends, under weak fairness, on every tree of up to four entries, intact or damaged. |
| walk_prop_length_wrap | MCFdtWalkWrap.cfg | Termination (violation) | A property length of `2^W - 12` makes `fdt_next_node` loop forever. |
| find_string | MCFdtString.cfg | TypeOK, FindIsFirstOccurrence, ComparesInTable | For every table of up to 5 bytes over {1, 2, NUL}, every table size and every needle of up to 2 characters, the result is the first NUL-inclusive occurrence (`FirstOccurrence`, itself cross-checked against `IndexFirstSubSeq` of SequencesExt by `ReferenceAgrees`), or NULL, and `memcmp` stays inside the table. A behaviour is one call, so the run does not check deadlock. |
| subnodes_bad_offset | MCFdtWalkBadOffset.cfg | SubnodesReportBadOffset (violation) | An unaligned parent gives NOTFOUND, not BADOFFSET. |
| loader | MCOverlayLoader.cfg | TypeOK, FileClosedOnReturn, OverlayOwnedByModule, Refinement | Two loads of each of the four files, on a kernel with and without a tree (350 states): the file is closed on every path, every overlay changeset is the one the live image's `ovcsid` names, and the module implements `LoaderAbstract`. |
| loader_uninit_ret | MCOverlayLoaderUninit.cfg | LiveOnlyIfApplied (violation) | A failed `kzalloc` returns the unassigned `ret`: the module goes live with no overlay. |
| loader_short_file | MCOverlayLoaderShort.cfg | CheckReadsInBuffer (violation) | On the 20-byte file, `fdt_check_header` loads bytes past the allocated buffer. |
| loader_stale_root | MCOverlayLoaderStale.cfg | RootNamesLive (violation) | After rmmod, the fabricated `of_root` names memory of the freed image. |
| kdbg | MCKdbgProbe.cfg | ArmedIffLive, HandlerCodeLoaded, ExitCompletes | Five CPUs, three loads (196 states): the probe is armed exactly while the module is live, no CPU runs the handler after the image is freed, and under fairness an rmmod that has begun completes. |

The loader runs stop after `MaxLoads = 2` insmods (so deadlock is not
checked): two loads are what it takes for a fabricated root to outlive the
image that made it and be seen by the next one, and for a second load to
find the tree its predecessor left. The four files hit each branch of
`Apply` and `Check`: accepted, rejected by the checks, shorter than the
header, and of size 0. `ShortReads = {0}` adds a read that returns nothing.
kdbg uses five CPUs, enough for several handlers to be in flight when rmmod
starts, and three loads.

The walk run covers every well-formed version-17 structure block of up to
six entries, built from BEGIN_NODE, END_NODE, PROP and NOP, and every one of
up to four entries at versions 3 and 16, with names of 0 or 4 bytes and
values of 0 or 8, so the legacy padding both happens and does not. Each block appears
intact and in damaged forms:

- the structure block cut at S-4, S-3 and 6;
- the second entry's tag overwritten with 5;
- a property length of 32768.

The run also has the intact trees of up to three entries at version 17 with
the last byte of the magic cleared. `fdt_check_header` rejects these
blobs, but their structure blocks are well formed, so a client that walked
them anyway would read them.

Each blob is combined with every job and with parents
{-1,0,2,4,8,12,16,24}. On this set the run shows the following:

- the nodes visited are exactly the tree's nodes, in order, with their
  depths;
- an intact blob ends with the tree's answer;
- no read leaves the structure block or dereferences NULL;
- every node visited holds an FDT_BEGIN_NODE tag at a tag-aligned offset
  that `fdt_offset_ptr` accepts, on damaged blobs too (`YieldsAreNodes`);
- no step reads a byte of a blob that `fdt_check_header` rejects
  (`ReadsOnlyAfterAccept`, an action property).

### Bounds and why they are enough

- Six entries allow a node inside a node next to a property. This is the
  smallest case where `fdt_next_subnode` must skip a grandchild and where the
  depth returns to 0 in the middle of the walk.
- The cuts land inside the END tag, inside the last tag, and inside the first
  name.
- Tables of 5 bytes hold a needle twice, as the suffix of a longer string,
  at the last start position, and a needle longer than the table.
- Parents include unaligned offsets, the root, an inner node, a property and
  offsets past the end.
- 16-bit words keep every value representable, while wrap-around remains
  reachable: a length of 65524 wraps, and 32768 is above INT_MAX.

The liveness run uses four entries because liveness checking in TLC is far
slower.

### Fairness

`FairSpec` assumes weak fairness of the steps of a running call. This is
justified because the decoder is synchronous and runs on the calling thread
until it returns (spec §5). `NewJob`, the client's choice to start another
job, is not fair.

`KdbgProbe!FairSpec` assumes weak fairness of each CPU's return from
`dump_contextidr` (straight-line code with no lock or wait) and of
`KdbgExit` (the waiting rmmod is scheduled again once the handlers are
gone). Insmod and the handler entries are not fair: nobody has to load the
module or call getdents64.

### Mutants

Each property of each passing run is killed by a plausible bug in the code it
is about:

- `check_block_` without its overflow test;
- an error returned without its minus sign;
- a client loop that runs until NOTFOUND;
- `fdt_next_subnode` without its depth loop;
- no tag alignment, and the alignment with the sign wrong;
- `fdt_offset_ptr` without its `size_dt_struct` bound;
- `last` computed from `strlen(s)` without the terminator, and `memcmp`
  without the NUL byte;
- a read of one byte more than the file size; a failed `kzalloc` jumping to
  `out`, past `filp_close`; `of_overlay_fdt_apply`'s result not stored in
  `ret`; `debug()` without its `if (!of_root)`;
- `kdbg_init` ignoring `register_kprobe`'s result; `kdbg_exit` freeing the
  image without waiting, and waiting before disarming.

## Findings

1. **Non-termination.** `fdt_next_tag` adds the property length to an `int`
   with no overflow check (part_000:435). With `len = 2^32 - 12` the cursor
   returns to the start of the entry. A blob that passes `fdt_check_header`
   then makes `fdt_next_node` loop forever. The spec's §5 says every
   operation terminates, bounded by `totalsize`. Run walk_prop_length_wrap
   shows the loop.
2. **Wrong error code.** `fdt_first_subnode` reports every failure of
   `fdt_next_node`, BADOFFSET included, as NOTFOUND (part_000:528). The
   spec's §7 reserves NotFound for absent nodes.
3. **Read of a missing field.** For version 2 blobs, `fdt_check_header` loads
   `size_dt_strings` (part_000:376) beyond the 32-byte header. The spec's §6
   says the field exists from version 3 on.

4. **Success without an overlay.** When `kzalloc` fails, `of_overlay_init`
   returns `ret` unassigned (dtboverlay.c:137). Run loader_uninit_ret: the
   module goes live with no overlay applied.
5. **Read past the buffer.** The buffer has the file's size, and
   `fdt_check_header` loads up to byte 39 (dtboverlay.c:129). Run
   loader_short_file.
6. **Dangling root.** `debug()` makes `of_root` a node whose names are
   literals of the module image (dtboverlay.c:59), never detached. Run
   loader_stale_root: after rmmod they point into freed memory. The README
   itself says uninstall is not safe (line 164).

Also noted but not run: for a BEGIN_NODE whose name is not terminated, the
code returns END with BADSTRUCTURE. The spec's §4.5 says Truncated and its §7
says BadStructure. The spec contradicts itself, so there is nothing to check
it against.

## Proofs (FdtCheckProofs)

The proofs hold for every `Width`, `FDT_MAGIC` and `AssumeMask` allowed by the
assumptions in `FdtHeader`:

- `WidthAssumption`;
- `MaskAssumption`;
- `MagicAssumption`;
- `ByteBaseAssumption`, that `2^(Width/4)` is a natural number of at least
  4. It is stated because the provers cannot reason about `2^k` for a
  symbolic `k`.

The word base is written as `ByteBase^4` as a product.

The lemmas are:

- `Ld32Type` (in `FdtHeaderProofs`, with `HdrType`, `WordBaseType` and
  `U32Sum`): the four-byte composition is a word.
- `CheckBlockIsInBounds`: for u32 arguments, `check_block_` holds exactly
  when both ends of the block lie in `[hdrsize, totalsize]` in the integers.
  This is the overflow argument: when `base + size` wraps, the u32 sum is
  below `base`.
- `LeastCheck` (in `FdtHeaderProofs`): the failing steps have a least
  element.
- `CheckHeaderChain`: the "first failing step" definition equals a chain of
  twelve nested IFs.
- `HeaderMatchesSpec`: `FdtCheckHeader(b) = SpecCheckHeader(b)` for every
  blob.

The theorems are:

- `TypeCorrect`: `Spec => []TypeOK`.
- `CheckMatchesSpecInvariant`: `Spec => []CheckMatchesSpec`.

`TypeOK` alone is inductive. `CheckMatchesSpec` is not, because the step needs
the blob to be a blob. The inductive invariant is therefore
`TypeOK /\ CheckMatchesSpec`, and its step follows from `HeaderMatchesSpec`.

The following stay with TLC only:

- the walker properties `YieldsFollowTree`, `CompleteWhenIntact` and
  `SubnodesReportBadOffset` (see the next section);
- `Termination`, since liveness is beyond the prover;
- the encoder, which uses recursive functions over data.

## Proofs (FdtWalkProofs)

These hold for every `Width` and for every set of blobs and parent offsets
allowed by the assumptions in `FdtWalk`:

- `WalkBlobsAssumption`: every blob is a blob with a finite domain and holds
  the bytes `0 .. totalsize - 1`. This is the caller's contract with libfdt,
  which is handed a buffer of `fdt_totalsize()` bytes. `fdt_check_header`
  does not verify it. In dtboverlay the buffer has the file's size, and
  `of_overlay_fdt_apply` refuses a blob whose `totalsize` exceeds that size
  (the `FileSize(bs) >= totalsize` guard of `OverlayLoader`). So the contract
  holds for every blob that reaches the kernel's walker.
- `ParentsAssumption`: the offsets a caller passes are C ints.

Both theorems assume `ChecksKept`: a build without `VALID_DTB` and
`VALID_INPUT`. The dtboverlay build has `FDT_ASSUME_MASK = 0`. Without the
hypothesis the property is false:

- with `VALID_INPUT`, `fdt_offset_ptr` drops its `totalsize` bound;
- with `VALID_DTB`, a failed tag check is followed by a dereference of the
  NULL pointer.

The lemmas are:

- `OffsetPtrBounds` and `OffsetPtrInBlob`: when `fdt_offset_ptr(fdt, o, len)`
  returns a pointer, for a word `o` and `len`, the `len` bytes lie below
  `totalsize` and inside `WalkableBytes`. Each of the three u32 comparisons
  of the code rules out one wrap, so the u32 sums equal the integer sums.
- `LeastAbove` (from `WFMin` and `NatLessThanWellFounded`) and
  `ScanStopFirst`: the name scan stops at the first offset where it must.
- `ScanBounds`: the scan stops on a word offset, and every byte it reads is
  in the blob and in the structure block. A scan that reached `2^Width`
  would have passed offset `2^Width - 1`. That needs `off_dt_struct +
  2^Width <= totalsize`, which no word satisfies.
- `NextTagSafe` and `CheckOffsetSafe`: from any int offset,
  `fdt_next_tag`, `fdt_check_node_offset_` and `fdt_check_prop_offset_`
  never fault, read only structure-block bytes, return one of the five tags,
  and leave an int (`OffsetVal`, at most `INT_MAX`).
- `ReturnNextNodeStep`: the code of the three callers of `fdt_next_node`
  keeps every variable typed.

The inductive invariant `IInv` is `WalkTypeOK /\ ReadsInStructBlock`,
strengthened by two conjuncts:

- the blob is one of `Blobs`;
- `offset` and `nextoffset` are ints.

The second conjunct is needed because `OffsetPtrOk` tests only
`U32(offset)`. An offset of `2^Width` or more would pass it with a wrapped
value while the pointer lies beyond the blob. The ints come from
`TagAlign`, which goes through `ToInt`, and from the callers' parents.

TLC checked `IInv` as an invariant of the `walk` instance before it was
proved. It also held on the wrap-around and liveness blob sets.
`IInvInit` and `IInvStep` (one case per action) prove it inductive. The
theorems are:

- `ReadsInStructBlockInvariant`: `Spec => []ReadsInStructBlock`;
- `WalkTypeCorrect`: `Spec => []WalkTypeOK`.

The proof shows that `ReadsInStructBlock` does not depend on
`fdt_check_header` accepting the blob. `IInv` says nothing of the header,
and the step from `Probe` holds whatever the header contains. The u32
checks of `fdt_offset_ptr`, given the buffer contract above, confine every
read. No lemma about the walker cites the header validator.

The header gate is proved separately, and in every build, with no
`ChecksKept` hypothesis. `GateInv` says that while a job runs (`pc` is
check, loop or prop), `fdt_check_header(blob)` returned 0. It is inductive
as it stands, for two reasons. `Probe` leaves `pc` at done when the check
fails. And no action changes the blob (`StepKeepsBlob`). `GateReads` notes
that only the running steps read, because `Probe` and `NewJob` set `rd` to
the empty set. The theorem `ReadsOnlyAfterAcceptHolds` is
`Spec => ReadsOnlyAfterAccept`. The two facts are combined by PTL.
TLC checked `GateInv` on the walk instance first. The mutant that ignores
the check's result (`MutProbeIgnoreResult`) is caught only because the run
holds the rejected bad-magic blobs.

`YieldsAreNodesInvariant` proves `Spec => []YieldsAreNodes` under
`ChecksKept`. It holds on any blob, not only on an intact one, so it
needs no induction over the layout. It is the part of `YieldsFollowTree`
that the provers can reach.

The property has one exception, and it comes from the code.
`fdt_next_node` returns the offset after an FDT_END_NODE that takes
`*depth` below 0 (line 507). The client loop `o >= 0` then visits that
offset. The property exempts records with a negative depth. On the blobs
of the run, which are all well formed, the case never occurs; the proof
covers it.

The inductive invariant `NodesInv` is `IInv` strengthened by two facts:

- `nextoffset` is always a multiple of 4. `TagAlignAligned` gives this,
  since a visited node is the `nextoffset` the loop read its tag from.
- `ClientRunsTraversal`: while a call runs (`pc` is check or loop), the
  client's own loop runs only the traversal jobs. So an FDT_END_NODE
  return that reaches the client carries its negative depth into the
  record. A subnode iterator drops it, because its depth is below 1.

The lemmas are:

- `NextTagFacts` (which holds in every build): a non-END tag from
  `fdt_next_tag` that did not fault is the tag stored at the offset, that
  offset passed `fdt_offset_ptr`, and the next offset is aligned;
- `CheckOffsetFacts`: the same for `fdt_check_node_offset_`;
- `ReturnNextNodeShape`: the only record a caller adds is the returned
  offset.

`NodesStep` has one case per action. TLC checked `NodesInv` on the walk,
liveness and wrap instances before the proof.

The following stay with TLC only:

- `YieldsFollowTree` and `CompleteWhenIntact` compare the walk with the
  encoder's `layout`. Proving them needs induction over the layout: what a
  sequence of entries encodes to and how many nodes precede an entry. The
  installed provers cannot instantiate the induction theorems.
- `SubnodesReportBadOffset` is a violation run and has nothing to prove.
- `Termination` is liveness.

## Proofs (FdtStringProofs)

These hold for every alphabet `Chars` without NUL and every `MaxTab` and
`MaxNeedle` in `Nat` (`StringAssumption`).

The lemmas are:

- `BufferIsSeq`, `NeedleIsSeq`, `NeedleProps`: buffers and needles are
  sequences, and the needle with its NUL has `Len1(s)` bytes.
- `MatchIsOccurrence`: when the `len` bytes from `off` lie in the table, the
  byte-wise `memcmp` equals the subsequence test of `Occurs`.
- `FoundIsFirst` and `ExhaustedIsNull`: a match at `p` with no occurrence
  below `p` is `FirstOccurrence`; a loop past `last` has no occurrence.

The theorems are `TypeCorrect`, `FindIsFirstOccurrenceInvariant` and
`ComparesInTableInvariant`, each `Spec => []P`. `FindIsFirstOccurrence` is
not inductive: the step that returns needs to know that no earlier start
position matched. The inductive invariant `IInv` adds `LoopInv`: while the
loop runs, `ret` is NULL and no `j < p` is an occurrence. The loop bound
`p <= last` is what makes every iteration's `memcmp` lie inside the table,
and what makes the exit step's "no occurrence" cover every start position.

## Proofs (OverlayLoaderProofs)

These hold for every set `Files` of byte strings, every `ShortReads` and
every `MaxLoads` (`LoaderAssumption`), and every width and mask.

None of the loader's properties is inductive alone. The inductive invariant
`IInv` adds to `TypeOK` and `OverlayOwnedByModule`:

- a loading module has `loads` in `1..MaxLoads` and `pc` not idle (so an
  applied changeset gets an id in range);
- the file is open only while a load is between `alloc` and `close`, or
  after an oops;
- while loading, an overlay exists only after `Apply` succeeded, with
  `ret = {0}` (so `Return` makes the module live);
- after an oops, no overlay exists.

`InitIInv` and one step lemma per action (`InsmodStep` ... `RmmodStep`)
show that `IInv` is kept and that each step is an abstract step under the
mapping `AbsModule` or a stutter. `StepIInv` combines them. The theorems are
`LoaderTypeCorrect`, `FileClosedOnReturnInvariant`,
`OverlayOwnedByModuleInvariant` and `LoaderRefinement` (`Spec => Abs!Spec`).
The refinement needs the invariant: `Rmmod` maps to `Unload` only because
the applied set is at most `{ovcsid}`, and `Return` maps to `Finish` only
because an applied overlay implies `ret = {0}`.

## Proofs (KdbgProbeProofs)

For every non-empty set of CPUs and every `MaxLoads` (`KdbgAssumption`):
`KdbgTypeCorrect`, `ArmedIffLiveInvariant` and `HandlerCodeLoadedInvariant`.
The inductive invariant is `TypeOK /\ ArmedIffLive /\ HandlerCodeLoaded`:
`HandlerCodeLoaded` is kept by `HandlerEnter` only because a CPU can enter
only while the probe is armed, that is, while the module is live.

`ExitCompletes` is liveness and stays with TLC.

## Not modelled

- `fdt_move` is not modelled: its probe `FDT_RO_PROBE` is not defined
  anywhere in the repository.
- The kernel services the loader calls are modelled only by the outcomes
  the module sees; their insides (the VFS, the slab allocator, the overlay
  engine, sysfs) are outside the repository. The leak of `dtb_begin`
  (never freed) is listed as a hazard without a property.
- The printing, the register read of `dump_contextidr` and the property
  listing at the end of `debug()` are left out: no state depends on them.
- The `of_check` module is not modelled: it is one dereference of
  `of_root` and a print.

## Plan

1. Add runs with assumption masks other than 0 (VALID_INPUT, LATEST), where
   the walker is expected to read out of bounds on damaged blobs.
2. Give the header validator an abstract specification (an accept/reject
   oracle), and prove the refinement from `FdtCheck`.
3. Compose `OverlayLoader` with `FdtWalk`, so that a walk over the applied
   blob runs while the module is live.
