----------------------------- MODULE MCSortIndex -----------------------------
(* SortIndex for TLC: the chunks of the file.                               *)
EXTENDS SortIndex

Chunk(s) == [i \in 0..(Len(s) - 1) |-> s[i + 1]]

MCInputs ==
  {Chunk(<<4, 2, 3, 1, 5, 6, 7, 9, 8, 10, 11, 12, 14, 13, 16, 15>>),
   Chunk(<<2, 1, 3, 4, 7, 8, 6, 5, 9, 10, 11, 12, 13, 14, 15, 16>>)}

=============================================================================
