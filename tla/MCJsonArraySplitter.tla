------------------------ MODULE MCJsonArraySplitter ------------------------
(* Texts and cuts for TLC.  Brackets are one byte, names two; scalars vary *)
(* and up to two tokens follow white space, so that tokens fall in every   *)
(* way across a buffer of four bytes, which the longest needs doubled      *)
(* twice.                                                                  *)
EXTENDS JsonArraySplitter

LayOut(kinds, len, space) ==
    LET end[n \in 0..Len(kinds)] ==
            IF n = 0 THEN 0 ELSE end[n - 1] + space[n] + len[n]
    IN  [n \in DOMAIN kinds |-> [kind |-> kinds[n],
                                 start |-> end[n - 1] + 1,
                                 text |-> end[n - 1] + space[n] + 1,
                                 end |-> end[n]]]

\* A comma stands before what follows a member or an item; the colon belongs
\* to the name.
Comma(kinds, n) ==
    IF n > 1 /\ kinds[n - 1] \in {"value", "number", "}", "]"} /\ kinds[n] \notin Closing
    THEN 1 ELSE 0

Scalar(kinds) == {n \in DOMAIN kinds : kinds[n] \in {"value", "number"}}

\* The texts of these kinds with scalars of the given lengths.
Texts(kinds, lengths, spaces) ==
    {LayOut(kinds,
            [n \in DOMAIN kinds |-> IF n \in Scalar(kinds) THEN len[n]
                                    ELSE IF kinds[n] = "name" THEN 2 ELSE 1],
            [n \in DOMAIN kinds |-> Comma(kinds, n) + IF n \in gap THEN s ELSE 0]) :
        len \in [Scalar(kinds) -> lengths],
        gap \in {{i, j} : i, j \in DOMAIN kinds},
        s \in spaces}

\* The text, with white space behind it.  The splitter reads badly behind a
\* mark when the stream reads short, so the two meet only in MCBomStreams.
Followed(t, tail, mark, reads) ==
    [input |-> t, size |-> LastByte(t) + tail, bom |-> mark, short |-> reads]
Whole(t, mark, reads) == Followed(t, 0, mark, reads)

TwoItems == <<"[", "{", "name", "value", "}", "{", "name", "value", "}", "]">>
Numbers == <<"[", "{", "name", "number", "}", "{", "name", "number", "}", "]">>
NestedItem == <<"[", "{", "name", "[", "{", "}", "number", "]", "}", "{", "}", "]">>
EmptyArray == <<"[", "]">>
RootObject == <<"{", "name", "value", "}">>
RootValue == <<"value">>
RootNumber == <<"number">>
ScalarItem == <<"[", "{", "}", "value", "]">>
NumberItem == <<"[", "{", "}", "number", "]">>
ObjectInArrayItem == <<"[", "[", "{", "}", "]", "]">>
ArrayThenObject == <<"[", "[", "]", "{", "name", "value", "}", "]">>
ArraysBetween == <<"[", "{", "}", "[", "[", "]", "]", "{", "}", "]">>

\* Whole texts of every kind, with short reads or a mark, and an empty stream.
MCStreams ==
    {Whole(t, FALSE, TRUE) : t \in Texts(TwoItems, {1, 9}, {1, 3})
                               \cup Texts(Numbers, {1, 4}, {0, 2})
                               \cup Texts(NestedItem, {3}, {0, 1})
                               \cup Texts(RootObject, {2}, {0, 1})
                               \cup Texts(ScalarItem, {1, 6}, {0, 1})
                               \cup Texts(NumberItem, {1, 4}, {0, 1})
                               \cup Texts(ObjectInArrayItem, {1}, {0})
                               \cup Texts(ArrayThenObject, {1, 5}, {0, 3})
                               \cup Texts(ArraysBetween, {1}, {0, 3})}
    \cup {Followed(t, tail, FALSE, TRUE) :
              t \in Texts(EmptyArray, {1}, {0, 3, 9}) \cup Texts(RootValue, {2, 4}, {0, 2, 4})
                      \cup Texts(RootNumber, {1, 2, 4}, {0, 2, 4}) \cup {<<>>},
              tail \in {0, 1, 2, 6, 8}}
    \cup {Whole(t, TRUE, FALSE) : t \in Texts(TwoItems, {1, 9}, {0, 2}) \cup Texts(Numbers, {4}, {0, 2})}
    \cup {Whole(<<>>, TRUE, FALSE)}
MCBomStreams == {Whole(t, TRUE, TRUE) : t \in Texts(TwoItems, {1, 9}, {0, 2})}
\* Cut right behind an item: the next comma and the "]" never come.
MCCutStreams ==
    {[input |-> t, size |-> n, bom |-> FALSE, short |-> TRUE] :
        t \in Texts(TwoItems, {1}, {0}), n \in {6, 12}}
=============================================================================
