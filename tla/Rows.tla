---------------------------------- MODULE Rows ----------------------------------
(* The files of rows the authoring commands keep (JSON lines): a filtering    *)
(* comprehension over them, as a function of the rows read so far.            *)
EXTENDS Naturals, Sequences

\* The rows that are members of a set, in file order.
Among(rows, S) ==
    LET kept[n \in 0..Len(rows)] ==
            IF n = 0 THEN <<>>
            ELSE IF rows[n] \in S THEN Append(kept[n - 1], rows[n]) ELSE kept[n - 1]
    IN  kept[Len(rows)]
===============================================================================
