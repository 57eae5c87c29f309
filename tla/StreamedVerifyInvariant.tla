----------------------- MODULE StreamedVerifyInvariant -----------------------
(***************************************************************************)
(* The inductive invariant behind ClosedMeansWhole, VerifiedRight and      *)
(* ExpectSignedHolds of StreamedVerify: where the chunks of the literal    *)
(* data and the packets of the message are, on their way from the parser   *)
(* to those who take them, while all of them run ahead of each other.      *)
(***************************************************************************)
EXTENDS StreamedVerify

Sent    == Packet \cup {Literal}
Matched == Sent \cup {Missing, Failure, Pending}

Leading == Len(message.before)    \* the packets before the literal data
Total   == Len(Packets(message))

Types ==
    /\ message \in Messages
    /\ pos \in 0..Total /\ sent \in 0..message.body /\ done \in BOOLEAN
    /\ parser \in {"header", "write", "next", "body", "await", "stopped"}
    /\ callback \in {"none", "parse", "write", "returned"}
    /\ lit \in [state : {"open", "closed", "errored"}, queue : Seq(Nat)] /\ Len(lit.queue) =< 1
    /\ list \in [state : {"open", "closed", "errored"}, queue : Seq(Sent)] /\ Len(list.queue) =< 1
    /\ caller \in {"reading", "verify", "returned", "rejected"}
    /\ got \in Seq(Sent) /\ corr \in Seq(Matched)
    /\ matcher \in {"off", "match", "drain", "closed", "errored"}
    /\ link \in {"off", "pipe", "drain", "stopped"}
    /\ delivered \in Nat
    /\ {data, hashed} \subseteq {"open", "closed", "errored"}
    /\ DOMAIN verified \subseteq Nat
    /\ \A i \in DOMAIN verified : verified[i] \in {"pending", "true", "rejected"}

Parsed == callback \in {"write", "returned"}

(* The parser and its callback: the literal data are read once, where they *)
(* are in the message, and nothing else is meanwhile.                      *)
ParserAt ==
    /\ callback = "none" <=> pos =< Leading
    /\ parser \in {"body", "await"} => pos = Leading + 1
    /\ callback \in {"parse", "write"} => parser \in {"body", "await"}
    /\ callback = "none" => ~done
    /\ parser = "header" \/ (parser \in {"write", "next", "await"} /\ ~done) => pos < Total
    /\ list.state # "open" => list.queue = <<>>
    /\ list.state = "closed" => parser = "stopped"
    /\ parser = "next" => list.queue = <<>>

(* Every chunk that was sent is in the stream or was taken from it: the    *)
(* first one by the callback, the others by the link.                      *)
Chunks ==
    /\ callback = "none" => lit = EmptyStream /\ sent = 0
    /\ lit.state # "open" => parser # "body"
    /\ lit.state = "errored" => lit.queue = <<>>
    /\ lit.state = "closed" => sent = message.body /\ ~message.fails /\ message.cut # "inside"
    /\ callback = "parse" => list = EmptyStream /\ (lit.state # "errored" => sent = Len(lit.queue))
    /\ Parsed /\ lit.state # "errored" => sent = 1 + delivered + Len(lit.queue)
    /\ delivered + Len(lit.queue) =< sent

(* The link runs once the literal data packet was taken, and closes what   *)
(* it builds only after all of the data.                                   *)
Linked ==
    /\ caller \in {"verify", "returned"} => Parsed
    /\ link # "off" => caller = "returned"
    /\ link \in {"off", "pipe"} => hashed = "open" /\ data = "open"
    /\ link = "off" => delivered = 0
    /\ link = "drain" => hashed = "closed"
    /\ data = "closed" => hashed = "closed"
    /\ hashed = "closed" => lit.state = "closed" /\ lit.queue = <<>>

Before     == Unmarked(message.before)
ReadBefore == Unmarked(SubSeq(message.before, 1, pos))

(* What was got are the packets of the message, up to the literal data.    *)
Got ==
    /\ callback = "none" /\ list.state # "errored" =>
          got \o list.queue = ReadBefore
    /\ callback = "parse" => got = Before
    /\ callback = "write" => list.state = "open"
    /\ callback = "write" /\ caller = "reading" =>
          got = Before /\ list.queue = <<Literal>>
    /\ callback = "returned" /\ caller = "reading" => list.state = "errored"
    /\ callback = "write" /\ caller # "reading" => list.queue = <<>>
    /\ callback = "returned" /\ parser \in {"body", "await"} => list.queue = <<>>
    /\ ~Parsed /\ list.state = "open" => caller = "reading"
    /\ caller \in {"verify", "returned"} => got = Append(Before, Literal)

After     == Unmarked(message.after)
ReadAfter == Unmarked(SubSeq(message.after, 1, pos - Leading - 1))

(* As long as nothing went wrong, the packets read after the data are the  *)
(* k that were matched and those in the list.                              *)
Ahead(k) ==
    list.state = "open" =>
        /\ k + Len(list.queue) = Len(ReadAfter)
        /\ list.queue # <<>> => list.queue[1] = After[k + 1]

Matching ==
    /\ caller = "verify" => Ahead(0)
    /\ matcher # "off" => caller = "returned"
    /\ caller = "returned" => DOMAIN verified = DOMAIN Signers(got)
    /\ caller # "returned" => verified = <<>>
    /\ caller = "returned" /\ OnePass => Len(corr) = Len(Signers(got))
    /\ matcher # "off" => OnePass
    /\ matcher = "match" => \E k \in 0..(Len(corr) - 1) :
          /\ \A i \in DOMAIN corr : corr[i] = Pending <=> i > k
          /\ Ahead(k)
    /\ caller = "returned" => \A i \in DOMAIN corr : corr[i].kind = "signature" => i =< Len(After) /\ corr[i] = After[i]

(* What a promise that was fulfilled rests on.                             *)
Signed(i) ==
    LET before == OfKind(message.before, "signature")
    IN  \E sigs \in {IF before # <<>> THEN before ELSE After} :
        /\ i \in DOMAIN sigs
        /\ sigs[i].kind = "signature" /\ sigs[i].good /\ sigs[i].issuer \in Known
Fulfilled ==
    \A i \in DOMAIN verified : verified[i] = "true" => DigestRight /\ Signed(i)

IInv == ParserAt /\ Chunks /\ Linked /\ Got /\ Matching /\ Fulfilled

(* What ReadsSignedStream needs besides: no packet that is spoilt was read *)
(* while the packet stream is whole, it is closed only after the last one, *)
(* and the data end only after it, through the matcher or not.             *)
TailRight ==
    /\ list.state # "errored" =>
          \A i \in 1..pos : Packets(message)[i].kind \notin {"malformed", "garbage"}
    /\ done /\ lit.state # "errored" => pos = Total
    /\ list.state = "closed" => done
    /\ matcher = "closed" => list.state = "closed"
    /\ link = "drain" => data = "open"
    /\ data = "closed" => IF message.nested THEN message.outer = "closed" ELSE list.state = "closed"
=============================================================================
