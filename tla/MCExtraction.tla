---------------------------- MODULE MCExtraction ----------------------------
(* Small instances of Extraction for TLC: readings of four rows with up to  *)
(* two candidates, of five with three, and some with nameless rows.         *)
EXTENDS Extraction

CONSTANTS m1, m2, milk, egg, noname

Rising(photo) == \A i, j \in DOMAIN photo : i < j => photo[i] <= photo[j]
RowsOf(n, values, k) ==
    {[i \in 1..k |-> [photo |-> f[1][i], value |-> f[2][i]]] :
        f \in {g \in [1..k -> 0..n] : Rising(g)} \X [1..k -> values]}

Pair == {c \in (1..4) \X (1..4) : c[1] < c[2]}
First == {<<1, 2>>, <<1, 3>>, <<2, 3>>}
Pairs == {<<>>} \cup {<<c>> : c \in Pair} \cup {<<c, d>> : c \in First, d \in Pair}
Triples == {<<1, 3>>, <<4, 5>>} \X {<<2, 4>>, <<1, 3>>} \X {<<2, 4>>, <<3, 5>>, <<4, 5>>}
Readings(n, values, k, pairs) ==
    {[rows |-> r, pairs |-> p] : r \in RowsOf(n, values, k), p \in pairs}

MCReading ==
    [n \in 1..MaxPhotos |->
        IF n = 1 THEN {[rows |-> <<[photo |-> 0, value |-> milk]>>, pairs |-> <<>>]}
        ELSE Readings(n - 1, {milk, egg}, 4, Pairs)
             \cup Readings(n - 1, {milk, egg}, 5, Triples)
             \cup Readings(n - 1, {egg, noname}, 3, Pairs)
             \cup {[rows |-> <<[photo |-> n, value |-> milk]>>, pairs |-> <<>>],
                   [rows |-> <<[photo |-> 1, value |-> milk], [photo |-> 0, value |-> milk]>>,
                    pairs |-> <<>>]}]
=============================================================================
