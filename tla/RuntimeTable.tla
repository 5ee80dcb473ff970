---------------------------- MODULE RuntimeTable ----------------------------
(* The array of running threads or tasks, the same in both runtimes. *)
EXTENDS Integers, Sequences

Entries(table) == {table[i] : i \in 1 .. Len(table)}

\* Faulty: the array shrinks, but the last entry is not moved into the gap.
SwapRemoveLast(table, i) == [j \in 1 .. Len(table) - 1 |-> table[j]]

\* table[i] = table[count - 1], then the array shrinks by one.
SwapRemove(table, i) ==
    [j \in 1 .. Len(table) - 1 |-> IF j = i THEN table[Len(table)] ELSE table[j]]
=============================================================================
