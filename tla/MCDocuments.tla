---------------------------- MODULE MCDocuments ----------------------------
(* Doxygen documents as tables, one row per value in document order.  A row *)
(* is the depth of a value and its key, then the text of a string (null if  *)
(* it is ""), then the parts of the text if it is an id; an element has no  *)
(* text.  The children of a row are the rows one deeper under it.           *)
EXTENDS Naturals, Sequences, SequencesExt

\* The values are the numbers of the rows.
ValueOf(rows, v) ==
  LET is_array == Len(rows[v]) = 2
      after == SelectInSubSeq(rows, v + 1, Len(rows),
                              LAMBDA r : r[1] <= rows[v][1])
      last == IF after = 0 THEN Len(rows) ELSE after - 1
      kids == SelectSeq([i \in 1 .. last - v |-> v + i],
                        LAMBDA w : rows[w][1] = rows[v][1] + 1)
  IN  [form |-> IF is_array THEN "array"
                ELSE IF rows[v][3] = "" THEN "null" ELSE "string",
       text |-> IF is_array THEN "" ELSE rows[v][3],
       id   |-> IF Len(rows[v]) = 4 THEN rows[v][4] ELSE <<>>,
       kids |-> [i \in DOMAIN kids |-> [key |-> rows[kids[i]][2],
                                        value |-> kids[i]]],
       size |-> last - v]

JsonOf(table) ==
  [rows \in {table} |-> [v \in DOMAIN rows |-> ValueOf(rows, v)]][table]

\* The documents of a table.
RootsOf(table) ==
  [rows \in {table} |-> {v \in DOMAIN rows : rows[v][1] = 0}][table]

=============================================================================
