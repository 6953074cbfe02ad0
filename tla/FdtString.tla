------------------------------ MODULE FdtString ------------------------------
(***************************************************************************)
(* The string table lookup fdt_find_string_(strtab, tabsize, s) of        *)
(* src/unnamed/part_000:551-561 (commented-out code, the spec's string   *)
(* table lookup, section 4.7).  A caller holds a buffer of bytes, passes *)
(* the first tabsize of them as the table and a NUL-free needle, and the *)
(* loop for (p = strtab; p <= last; p++) runs one iteration per step.    *)
(* A behaviour is one call; it ends when the call returns.               *)
(***************************************************************************)
EXTENDS Integers, Sequences, SequencesExt

CONSTANTS
  Chars,     \* the non-NUL byte values of tables and needles
  MaxTab,    \* bound on the buffer holding the table
  MaxNeedle  \* bound on strlen of the needle

ASSUME StringAssumption ==
  /\ 0 \notin Chars
  /\ MaxTab \in Nat /\ MaxNeedle \in Nat

NULL == -1

(* The buffers and needles a caller may pass.                             *)
Buffers == BoundedSeq(Chars \cup {0}, MaxTab)
Needles == BoundedSeq(Chars, MaxNeedle)

VARIABLES
  strtab,   \* the buffer; the table is its first tabsize bytes
  tabsize,
  s,        \* the needle, without its NUL
  p,        \* the loop cursor, an offset from strtab
  pc,       \* "loop" while the for loop runs, "done" when it has returned
  ret,      \* the offset of the returned pointer, or NULL
  rd        \* the table offsets the last iteration compared

vars == <<strtab, tabsize, s, p, pc, ret, rd>>

(* len = strlen(s) + 1: the needle with its NUL terminator.               *)
Len1(str) == Len(str) + 1
Needle(str) == str \o <<0>>

(* last = strtab + tabsize - len, as an offset (it is negative when the  *)
(* needle is longer than the table, and the loop does not run).  The     *)
(* mutant computes it from strlen(s), forgetting the terminator.          *)
MutLastStrlen(size, str) == size - Len(str)
LastOff(size, str) == size - Len1(str)

(* A byte of the buffer; a read past its end, which the correct loop    *)
(* never makes, is taken to see 0.                                        *)
BufAt(buf, i) == IF i \in 1 .. Len(buf) THEN buf[i] ELSE 0

(* memcmp(p, s, len) == 0: the len bytes at p equal the needle and its   *)
(* NUL.  The mutant compares strlen(s) bytes, a prefix match.             *)
MutMatchNoNul(buf, off, str) ==
  \A k \in 1 .. Len(str) : BufAt(buf, off + k) = str[k]
Match(buf, off, str) ==
  \A k \in 1 .. Len1(str) : BufAt(buf, off + k) = Needle(str)[k]

(* The bytes memcmp may read.                                             *)
Compared(off, str) == off .. off + Len1(str) - 1

(* One iteration: if (memcmp(p, s, len) == 0) return p; p++.             *)
Iterate ==
  /\ pc = "loop"
  /\ p <= LastOff(tabsize, s)
  /\ rd' = Compared(p, s)
  /\ IF Match(strtab, p, s)
     THEN pc' = "done" /\ ret' = p /\ UNCHANGED p
     ELSE p' = p + 1 /\ UNCHANGED <<pc, ret>>
  /\ UNCHANGED <<strtab, tabsize, s>>

(* The loop condition p <= last fails: return NULL.                        *)
NotFound ==
  /\ pc = "loop"
  /\ p > LastOff(tabsize, s)
  /\ pc' = "done" /\ ret' = NULL /\ rd' = {}
  /\ UNCHANGED <<strtab, tabsize, s, p>>

(* A call fdt_find_string_(strtab, tabsize, s): the loop starts at       *)
(* p = strtab.                                                             *)
Init ==
  /\ strtab \in Buffers
  /\ tabsize \in 0 .. Len(strtab)
  /\ s \in Needles
  /\ p = 0 /\ pc = "loop" /\ ret = NULL /\ rd = {}

Next == Iterate \/ NotFound

Spec == Init /\ [][Next]_vars

-----------------------------------------------------------------------------
(* The lookup the spec describes: the first start position j of the     *)
(* table at which the needle occurs with its NUL, the len bytes from j  *)
(* lying inside the table, or NULL when there is none.                   *)
Occurs(buf, size, str, j) ==
  /\ j + Len1(str) <= size
  /\ SubSeq(buf, j + 1, j + Len1(str)) = Needle(str)
FirstOccurrence(buf, size, str) ==
  IF \E j \in 0 .. size : Occurs(buf, size, str, j)
  THEN CHOOSE j \in 0 .. size :
         /\ Occurs(buf, size, str, j)
         /\ \A i \in 0 .. j - 1 : ~Occurs(buf, size, str, i)
  ELSE NULL

(* Type invariant.                                                        *)
TypeOK ==
  /\ strtab \in Buffers
  /\ tabsize \in 0 .. Len(strtab)
  /\ s \in Needles
  /\ p \in 0 .. MaxTab
  /\ pc \in {"loop", "done"}
  /\ ret \in {NULL} \cup 0 .. MaxTab - 1
  /\ rd \subseteq 0 .. MaxTab

(* Whenever fdt_find_string_() returns, it returns the first occurrence  *)
(* of the NUL-terminated needle in the table, or NULL when there is      *)
(* none: the loop bound last = strtab + tabsize - len neither skips the  *)
(* final start position nor, for a needle longer than the table, starts *)
(* at all.                                                                *)
FindIsFirstOccurrence ==
  pc = "done" => ret = FirstOccurrence(strtab, tabsize, s)

(* memcmp never reads a byte at or past strtab + tabsize: every          *)
(* comparison the loop makes lies inside the table.                       *)
ComparesInTable ==
  rd \subseteq 0 .. tabsize - 1

=============================================================================
