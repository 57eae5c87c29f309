-------------------------- MODULE MCStreamedVerify --------------------------
(***************************************************************************)
(* Messages for StreamedVerify: every combination of a few beginnings,     *)
(* bodies and endings, with known signers "a" and "b" and an unknown one.  *)
(***************************************************************************)
EXTENDS StreamedVerify

OPS(issuer)       == [kind |-> "onePass", issuer |-> issuer, good |-> FALSE]
Sig(issuer, good) == [kind |-> "signature", issuer |-> issuer, good |-> good]
Other(kind)       == [kind |-> kind, issuer |-> "none", good |-> FALSE]

Befores == {<<>>, <<OPS("a")>>, <<OPS("a"), OPS("b")>>, <<OPS("u"), OPS("a")>>,
            <<Sig("a", TRUE)>>, <<Sig("b", FALSE), OPS("a")>>,
            <<Other("marker"), OPS("b")>>, <<Other("unsupported"), OPS("a")>>, <<Other("malformed")>>}
Afters  == {<<>>, <<Sig("a", TRUE)>>, <<Sig("b", TRUE), Sig("a", TRUE)>>, <<Sig("a", TRUE), Sig("b", TRUE)>>,
            <<Sig("a", FALSE), Sig("u", TRUE)>>, <<Other("marker"), Sig("b", TRUE)>>,
            <<Other("unsupported"), Sig("a", TRUE)>>, <<Other("malformed"), Sig("a", TRUE)>>,
            <<Sig("b", TRUE), Other("garbage")>>}

Ends == {<<"none", a>> : a \in Afters} \cup {<<"inside", <<>>>>, <<"boundary", <<>>>>}
MCMessages ==
    {[before |-> b, after |-> e[2], body |-> n, cut |-> e[1], fails |-> f,
      nested |-> o # "none", outer |-> IF o = "none" THEN "closed" ELSE o, expectSigned |-> x] :
        b \in Befores, e \in Ends, n \in {1, 3}, f \in BOOLEAN,
        o \in {"none", "closed", "errored"}, x \in BOOLEAN} \cup
    {[before |-> b, after |-> <<>>, body |-> 0, cut |-> "inside", fails |-> f,
      nested |-> FALSE, outer |-> "closed", expectSigned |-> FALSE] :
        b \in Befores, f \in BOOLEAN}
=============================================================================
