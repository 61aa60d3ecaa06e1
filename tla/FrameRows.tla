----------------------------- MODULE FrameRows -----------------------------
(***************************************************************************)
(* Frames as the transformers use them: the sequence of a frame's rows, in *)
(* file order, with what pandas' boolean indexing and drop_duplicates      *)
(* return.                                                                 *)
(***************************************************************************)
EXTENDS Integers, Sequences, SequencesExt

IsFrame(rows) == rows \in Seq(ToSet(rows))

\* frame[mask]: the rows at some positions, in their order.
RowsAt(rows, positions) ==
    FlattenSeq([i \in DOMAIN rows |-> IF i \in positions THEN <<rows[i]>> ELSE <<>>])

Among(rows, chosen) == RowsAt(rows, {i \in DOMAIN rows : rows[i] \in chosen})

\* drop_duplicates(subset=fields, keep="first")
DropDuplicates(rows, fields) ==
    RowsAt(rows, {i \in DOMAIN rows :
        \A j \in 1 .. i - 1 : \E f \in fields : rows[j][f] # rows[i][f]})

=============================================================================
