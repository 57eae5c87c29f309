---------------------------- MODULE MCTransport ----------------------------
(***************************************************************************)
(* Short texts of letters and line ends, every framing, every way to cut   *)
(* the streams, armors with and without checksum, damaged or not.          *)
(***************************************************************************)
EXTENDS Transport

Plain == [text |-> <<97>>, framing |-> "whole", kind |-> "binary", options |-> <<>>, before |-> <<>>, clear |-> <<>>,
          wrap |-> 0,           sum |-> "right", required |-> FALSE, cut |-> 0]

Texts == UNION {[1..n -> {97, CR, LF}] : n \in 0..4}
SomeTexts == {<<>>, <<97, LF>>, <<CR, LF, 97, LF>>}

LineEnds == {[Plain EXCEPT !.text = t] : t \in Texts}
Framings == {[Plain EXCEPT !.text = t, !.framing = f, !.cut = c] :
                t \in SomeTexts, f \in {"stream", "whole", "old1", "old2", "old4", "endless"}, c \in 0..8}
(* Packets of 191 and 192 octets, whose length is one octet or two.        *)
Long(n) == [i \in 1..n |-> 97]
Longs == {[Plain EXCEPT !.text = Long(n), !.framing = f, !.cut = c] :
                n \in {185, 186}, f \in {"whole", "old1", "old2"}, c \in {0, 1, 191, 192}}
Armors == {[Plain EXCEPT !.text = t, !.framing = f, !.kind = k, !.sum = s, !.required = r, !.cut = c] :
                t \in SomeTexts, f \in {"stream", "whole"}, k \in {"M", "P"},
                s \in {"right", "wrong", "none"}, r \in BOOLEAN, c \in 0..3}
Headed == {[Plain EXCEPT !.kind = k, !.options = o, !.before = b] :
                k \in {"M", "P", "R", "G", "N", "L", "?"}, o \in {<<>>, <<<<"H">>>>, <<<<"x">>>>, <<Delimiter("M")>>},
                b \in {<<>>, <<<<"x">>, <<>>>>, <<Delimiter("?")>>}}
Wrapped == {[Plain EXCEPT !.text = t, !.kind = "M", !.wrap = w, !.sum = s] :
                t \in SomeTexts, w \in {5, 6, 8}, s \in {"right", "none"}}
ClearLines == {<<>>, <<"-">>, <<"x", " ">>, <<"-", " ", "x">>, Delimiter("G"), <<"-", " ", "-", "x">>, <<" ", "-">>}
Cleartexts == {[Plain EXCEPT !.kind = "S", !.clear = c, !.options = o] :
                c \in UNION {[1..n -> ClearLines] : n \in 0..2}, o \in {<<>>, <<<<"H">>>>}}

MCMessages == LineEnds \cup Framings \cup Longs \cup Armors \cup Headed \cup Wrapped \cup Cleartexts
============================================================================
