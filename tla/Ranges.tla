------------------------------- MODULE Ranges -------------------------------
(***************************************************************************)
(* Seq-range arithmetic shared by the sync server on the bridge and the    *)
(* transcript store on the phone (crates/protocol/src/ranges.rs).  A range *)
(* is an inclusive pair <<from, to>>; to < from is empty.  Seqs are u64 in *)
(* the code: MaxSeq stands for u64::MAX, and Sat for saturating_add, so    *)
(* what happens at the top of the type is kept.                            *)
(***************************************************************************)
EXTENDS Integers, Sequences, FiniteSets, SequencesExt

CONSTANT MaxSeq

ASSUME MaxSeqAssumption == MaxSeq \in Nat \ {0}

Sat(n) == IF n > MaxSeq THEN MaxSeq ELSE n

Larger(a, b) == IF a >= b THEN a ELSE b

Smaller(a, b) == IF a <= b THEN a ELSE b

(* Mutant: ranges that only touch are left apart. *)
OverlapsOnly(last, r) == r[1] <= last[2]

Touches(last, r) == r[1] <= Sat(last[2] + 1)

normalize_ranges(ranges) ==
  LET sorted == SortSeq(SelectSeq(ranges, LAMBDA r : r[2] >= r[1]),
                        LAMBDA p, q : p[1] < q[1])
      merge(out, r) ==
        IF out # <<>> /\ Touches(Last(out), r)
        THEN Append(Front(out), <<Last(out)[1], Larger(Last(out)[2], r[2])>>)
        ELSE Append(out, r)
  IN  FoldLeft(merge, <<>>, sorted)

(* The walk of missing_ranges over covered ranges.  The two `break`s of    *)
(* the loop only skip ranges that would add nothing: the ranges are        *)
(* sorted, and the cursor never moves back.                                *)
GapsIn(covered, lo, hi) ==
  LET step(acc, r) ==
        IF r[2] < acc.cursor \/ r[1] > hi \/ acc.cursor > hi
        THEN acc
        ELSE [out |-> IF r[1] > acc.cursor
                      THEN Append(acc.out, <<acc.cursor, Smaller(r[1] - 1, hi)>>)
                      ELSE acc.out,
              cursor |-> Larger(acc.cursor, Sat(r[2] + 1))]
      walked == FoldLeft(step, [out |-> <<>>, cursor |-> lo], covered)
  IN  IF hi < lo THEN <<>>
      ELSE IF walked.cursor <= hi
           THEN Append(walked.out, <<walked.cursor, hi>>)
           ELSE walked.out

missing_ranges(have, lo, hi) == GapsIn(normalize_ranges(have), lo, hi)

ChunkEnd(start, size, to) == Smaller(Sat(start + size - 1), to)

chunk_ranges(ranges, size) ==
  LET pieces(r) == [i \in 1 .. ((r[2] - r[1]) \div size) + 1 |->
                      <<r[1] + (i - 1) * size,
                        ChunkEnd(r[1] + (i - 1) * size, size, r[2])>>]
      norm == normalize_ranges(ranges)
  IN  FlattenSeq([i \in DOMAIN norm |-> pieces(norm[i])])

union_ranges(a, b) == normalize_ranges(a \o b)

subtract_ranges(a, b) ==
  LET norm == normalize_ranges(a)
  IN  normalize_ranges(FlattenSeq([i \in DOMAIN norm |->
                                     missing_ranges(b, norm[i][1], norm[i][2])]))

range_size(ranges) ==
  FoldLeft(LAMBDA total, r : Sat(total + Sat(r[2] - r[1] + 1)), 0,
           normalize_ranges(ranges))

covers(have, lo, hi) == missing_ranges(have, lo, hi) = <<>>

(***************************************************************************)
(* The reference: what a list of ranges stands for.                        *)
(***************************************************************************)
SeqsOf(ranges) == UNION {r[1] .. r[2] : r \in ToSet(ranges)}

------------------------------------------------------------------------------
(***************************************************************************)
(* How the sync server cuts a missing range into chunks by the size of its *)
(* entries (SyncServer::cut in crates/bridge-core/src/sync.rs), over every *)
(* transcript of MaxSeq seqs: an entry is its size in bytes, 0 where the   *)
(* store has none any more.                                                *)
(***************************************************************************)
CONSTANTS
  ChunkSize,   \* SyncConfig::chunk_size
  ChunkBytes,  \* SyncConfig::chunk_bytes
  MaxSize      \* bound: the largest entry

ASSUME CutAssumption == ChunkSize \in Nat \ {0} /\ ChunkBytes \in Nat /\ MaxSize \in Nat

VARIABLE size   \* size[seq], 0 without an entry

Held(r) == SelectSeq([i \in 1 .. r[2] - r[1] + 1 |-> r[1] + i - 1], LAMBDA s : size[s] > 0)

Full(acc, s) == s - acc.start >= ChunkSize \/ acc.bytes + size[s] > ChunkBytes

\* A chunk reaches to the entry that no longer fits.
NextStart(acc, s) == s

cut(r) ==
  LET step(acc, s) ==
        IF acc.bytes > 0 /\ Full(acc, s)
        THEN [chunks |-> Append(acc.chunks, <<acc.start, s - 1>>),
              start |-> NextStart(acc, s), bytes |-> size[s]]
        ELSE [acc EXCEPT !.bytes = @ + size[s]]
      walked == FoldLeft(step, [chunks |-> <<>>, start |-> r[1], bytes |-> 0], Held(r))
  IN  walked.chunks \o chunk_ranges(<<<<walked.start, r[2]>>>>, ChunkSize)

Cuts == {r \in (1 .. MaxSeq) \X (1 .. MaxSeq) : r[1] <= r[2]}

BytesIn(c) == FoldLeft(LAMBDA n, s : n + size[s], 0, Held(c))

\* The chunks are the range itself, cut: in order, none empty, no seq left out
\* and none sent twice, wherever entries are missing.
CutTiles ==
  \A r \in Cuts :
    LET cs == cut(r)
    IN /\ cs[1][1] = r[1] /\ cs[Len(cs)][2] = r[2]
       /\ \A i \in DOMAIN cs : cs[i][1] <= cs[i][2]
       /\ \A i \in 1 .. Len(cs) - 1 : cs[i + 1][1] = cs[i][2] + 1

\* A chunk stays within chunk_bytes, unless one entry alone is larger.
CutFits ==
  \A r \in Cuts : \A c \in ToSet(cut(r)) : BytesIn(c) <= ChunkBytes \/ Len(Held(c)) = 1
==============================================================================
