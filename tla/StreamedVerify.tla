--------------------------- MODULE StreamedVerify ---------------------------
(***************************************************************************)
(* Verifying the signatures of a message that is still arriving: the       *)
(* pipeline that openpgp.verify and openpgp.decrypt build when their input *)
(* is a stream.  Five activities run concurrently, connected by streams:   *)
(*                                                                         *)
(*   parser    PacketList.read's loop around readPackets (packet/packet.js)*)
(*   callback  what it calls with the literal data packet, not awaited     *)
(*   caller    reads packets up to the literal data, then Message.verify   *)
(*             and linkStreams, and hands `data` and `signatures` out      *)
(*   matcher   Message.verify's transform: pairs one-pass signature packets*)
(*             with the signature packets that follow the data             *)
(*   link      linkStreams: copies the literal data, then waits for the    *)
(*             end of the message's own packet stream                      *)
(*                                                                         *)
(* and the `verified` promise of every signature settles by itself.        *)
(*                                                                         *)
(* The streams are those of web-stream-tools (external): a write is done   *)
(* when its chunk has been taken, closing lets the reader finish, aborting *)
(* makes the reader fail.  The application reads `data` to its end.        *)
(***************************************************************************)
EXTENDS Integers, FiniteSets, Sequences, SequencesExt

CONSTANTS Messages, \* the messages that may arrive
          Known     \* issuers whose keys are among the verification keys

(***************************************************************************)
(* A message is a record of                                                *)
(*   before, after   the packets around the literal data packet            *)
(*   body            how many chunks of the literal data packet arrive     *)
(*   cut             "none", or where that packet breaks off: "inside" a   *)
(*                   part of declared length, or "boundary" between parts  *)
(*   fails           reading past the last packet throws (a modification   *)
(*                   detection code or an authentication tag is wrong)     *)
(*   nested          the packets come out of an encrypted or compressed    *)
(*                   packet; `outer` is how the packets around that end    *)
(*   expectSigned    the option of the call                                *)
(* A packet has a kind, an issuer and `good`: a valid signature of exactly *)
(* the whole literal data, by a key that could sign when it was made.      *)
(***************************************************************************)
Kinds   == {"onePass", "signature", "marker", "unsupported", "malformed", "garbage"}
Packet  == [kind : Kinds, issuer : STRING, good : BOOLEAN]
Message == [before : Seq(Packet), after : Seq(Packet), body : Nat, cut : {"none", "inside", "boundary"},
            fails : BOOLEAN, nested : BOOLEAN, outer : {"closed", "errored"}, expectSigned : BOOLEAN]

\* Nothing follows a packet that breaks off, and one that does not has a header.
ASSUME MessageAssumption ==
    /\ Known # {} /\ Messages \subseteq Message
    /\ \A m \in Messages : (m.cut # "none" => m.after = <<>>) /\ (m.body = 0 => m.cut = "inside")

Literal == [kind |-> "literal", issuer |-> "none", good |-> FALSE]
Missing == [kind |-> "missing", issuer |-> "none", good |-> FALSE]
Failure == [kind |-> "failure", issuer |-> "none", good |-> FALSE]
Pending == [kind |-> "pending", issuer |-> "none", good |-> FALSE]

Packets(m) == m.before \o <<Literal>> \o m.after

\* The number of chunks that were signed.
Whole(m) == IF m.cut = "none" THEN m.body ELSE m.body + 1

VARIABLES message,   \* the message on its way
          pos,       \* packets readPackets has begun to read
          parser,    \* where the parser is
          sent,      \* chunks of literal data written to their stream
          done,      \* what readPackets is about to return
          callback,  \* where the callback for the literal data is
          lit,       \* the stream of literal data
          list,      \* the stream of packets
          caller,    \* where the caller is
          got,       \* the packets the caller has taken from the list
          matcher,   \* where the matcher is
          corr,      \* correspondingSig of each one-pass signature packet
          link,      \* where the link is
          delivered, \* chunks the application has received
          data,      \* state of the stream that linkStreams builds
          hashed,    \* how the copy of the literal data that is hashed ended
          verified   \* the `verified` promise of each signature

parserVars == <<pos, parser, sent, done>>
callerVars == <<caller, got>>
linkVars   == <<link, delivered, data, hashed>>
vars == <<message, parserVars, callback, lit, list, callerVars, matcher, corr, linkVars, verified>>
-----------------------------------------------------------------------------
(* Streams *)

EmptyStream == [state |-> "open", queue |-> <<>>]

\* writer.ready, and the end of the write before.
Ready(s)    == s.state = "open" /\ s.queue = <<>>
Put(s, x)   == [s EXCEPT !.queue = Append(@, x)]
Taken(s)    == [s EXCEPT !.queue = <<>>]
Closed(s)   == IF s.state = "open" THEN [s EXCEPT !.state = "closed"] ELSE s
Aborted(s)  == [state |-> "errored", queue |-> <<>>]
Has(s)      == s.queue # <<>>
AtEnd(s)    == s.state = "closed" /\ s.queue = <<>>
Broken(s)   == s.state = "errored"
-----------------------------------------------------------------------------
Init == /\ message \in Messages
        /\ pos = 0 /\ parser = "header" /\ sent = 0 /\ done = FALSE
        /\ callback = "none" /\ lit = EmptyStream /\ list = EmptyStream
        /\ caller = "reading" /\ got = <<>>
        /\ matcher = "off" /\ corr = <<>>
        /\ link = "off" /\ delivered = 0 /\ data = "open" /\ hashed = "open"
        /\ verified = <<>>
-----------------------------------------------------------------------------
(* The parser *)

IsLast(n)    == n >= Len(Packets(message))
Current      == Packets(message)[pos + 1]

\* The loop ends with an error: the packet stream is aborted.
ParserThrows ==
    /\ list' = Aborted(list)
    /\ parser' = "stopped"
    /\ UNCHANGED <<sent, done, callback, lit>>

\* readPackets begins with a streaming packet: its callback is called at once.
StartLiteral ==
    /\ parser' = "body"
    /\ callback' = "parse"
    /\ UNCHANGED <<sent, done, lit, list>>

\* readPackets reads any other packet, peeks at the next one and only then
\* calls the callback.  Markers are dropped.  A malformed packet aborts the
\* stream; an unsupported one is passed on as an UnparseablePacket.
ReadPacket ==
    /\ done' = IsLast(pos + 1)
    /\ CASE Current.kind = "marker"    -> list' = list /\ parser' = "next"
         [] Current.kind = "malformed" -> list' = Aborted(list) /\ parser' = "next"
         [] OTHER                      -> list' = Put(list, Current) /\ parser' = "write"
    /\ UNCHANGED <<sent, callback, lit>>

\* One call of readPackets, up to its first wait on another activity.
ReadHeader ==
    /\ parser = "header"
    /\ Ready(list) \/ Broken(list)
    /\ pos' = IF Broken(list) THEN pos ELSE pos + 1
    /\ IF \/ Broken(list)
          \/ Current.kind = "garbage"
          \/ Current.kind # "literal" /\ IsLast(pos + 1) /\ message.fails
       THEN ParserThrows
       ELSE IF Current.kind = "literal" THEN StartLiteral ELSE ReadPacket
    /\ UNCHANGED <<message, callerVars, matcher, corr, linkVars, verified>>

\* `await writer.write(packet)` in the callback returns.
PacketWritten ==
    /\ parser = "write"
    /\ Ready(list) \/ Broken(list)
    /\ parser' = "next"
    /\ UNCHANGED <<message, pos, sent, done, callback, lit, list, callerVars, matcher, corr, linkVars, verified>>

\* readPackets has returned.
NextPacket ==
    /\ parser = "next"
    /\ list' = IF done THEN Closed(list) ELSE list
    /\ parser' = IF done THEN "stopped" ELSE "header"
    /\ UNCHANGED <<message, pos, sent, done, callback, lit, callerVars, matcher, corr, linkVars, verified>>

\* Another chunk of literal data is read and written.
WriteChunk ==
    /\ parser = "body"
    /\ Ready(lit)
    /\ sent < message.body
    /\ sent' = sent + 1
    /\ lit' = Put(lit, sent + 1)
    /\ UNCHANGED <<message, pos, parser, done, callback, list, callerVars, matcher, corr, linkVars, verified>>

\* The body breaks off: a part is not complete, or the source fails.  Where
\* the source just ends between two parts, readByte returns undefined, which
\* the code takes for a last part of length 0.
BodyThrows == message.cut = "inside" \/ (message.cut = "boundary" /\ message.fails)

\* A plausible bug: two bytes are peeked, as for other packets.
PeekTwoThrows == IsLast(pos) /\ message.fails

\* peekBytes(Infinity) after the literal data: the rest of the source is read.
PeekThrows == message.fails

\* The end of the literal data: closed, or aborted with readPackets returning
\* true.  Both wait for the callback.
EndBody ==
    /\ parser = "body"
    /\ Ready(lit)
    /\ sent = message.body
    /\ lit' = IF BodyThrows \/ PeekThrows THEN Aborted(lit) ELSE Closed(lit)
    /\ done' = (BodyThrows \/ PeekThrows \/ IsLast(pos))
    /\ parser' = "await"
    /\ UNCHANGED <<message, pos, sent, callback, list, callerVars, matcher, corr, linkVars, verified>>

AwaitCallback ==
    /\ parser = "await"
    /\ callback = "returned"
    /\ parser' = "next"
    /\ UNCHANGED <<message, pos, sent, done, callback, lit, list, callerVars, matcher, corr, linkVars, verified>>

\* LiteralDataPacket.read takes the first chunk, and the packet is written.
ParseLiteral ==
    /\ callback = "parse"
    /\ Has(lit) \/ Broken(lit)
    /\ IF Broken(lit)
       THEN /\ list' = Aborted(list) /\ callback' = "returned" /\ UNCHANGED lit
       ELSE /\ lit' = Taken(lit) /\ list' = Put(list, Literal) /\ callback' = "write"
    /\ UNCHANGED <<message, parserVars, callerVars, matcher, corr, linkVars, verified>>

LiteralWritten ==
    /\ callback = "write"
    /\ ~Has(list)
    /\ callback' = "returned"
    /\ UNCHANGED <<message, parserVars, lit, list, callerVars, matcher, corr, linkVars, verified>>
-----------------------------------------------------------------------------
(* The caller *)

\* The packets of some kinds, in their order.
Kept(packets, kinds) ==
    FoldLeft(LAMBDA kept, p : IF p.kind \in kinds THEN Append(kept, p) ELSE kept, <<>>, packets)
OfKind(packets, kind) == Kept(packets, {kind})
Unmarked(packets) == Kept(packets, Kinds \ {"marker"})

\* Waits until the first few packets have been read.  Without literal data
\* there is nothing to verify.
ReadFirst ==
    /\ caller = "reading"
    /\ Has(list) \/ AtEnd(list) \/ Broken(list)
    /\ IF Has(list)
       THEN /\ list' = Taken(list)
            /\ got' = Append(got, list.queue[1])
            /\ caller' = IF list.queue[1] = Literal THEN "verify" ELSE "reading"
       ELSE /\ caller' = "rejected" /\ UNCHANGED <<list, got>>
    /\ UNCHANGED <<message, parserVars, callback, lit, matcher, corr, linkVars, verified>>

\* A plausible bug: one-pass signature packets are paired in their own order.
SignersInOrder(packets) ==
    IF OfKind(packets, "signature") # <<>> THEN OfKind(packets, "signature")
    ELSE OfKind(packets, "onePass")

\* The packets the result's signatures stand for: signature packets that came
\* before the data, else the one-pass signature packets, last one first.
Signers(packets) ==
    IF OfKind(packets, "signature") # <<>> THEN OfKind(packets, "signature")
    ELSE Reverse(OfKind(packets, "onePass"))

OnePass == OfKind(got, "signature") = <<>> /\ OfKind(got, "onePass") # <<>>

\* Message.verify, linkStreams and the rest of the call.
Verify ==
    /\ caller = "verify"
    /\ IF message.expectSigned /\ Signers(got) = <<>>
       THEN caller' = "rejected" /\ UNCHANGED <<matcher, corr, link, verified>>
       ELSE /\ caller' = "returned"
            /\ matcher' = IF OnePass THEN "match" ELSE "off"
            /\ corr' = IF OnePass THEN [i \in DOMAIN Signers(got) |-> Pending] ELSE <<>>
            /\ link' = "pipe"
            /\ verified' = [i \in DOMAIN Signers(got) |-> "pending"]
    /\ UNCHANGED <<message, parserVars, callback, lit, list, got, delivered, data, hashed>>
-----------------------------------------------------------------------------
(* The matcher *)

\* The one-pass signature packet whose signature packet comes next.
Unmatched == CHOOSE i \in DOMAIN corr : corr[i] = Pending /\ \A j \in 1..(i - 1) : corr[j] # Pending

MatchNext ==
    /\ matcher = "match"
    /\ Has(list) \/ AtEnd(list)
    /\ corr' = [corr EXCEPT ![Unmatched] = IF Has(list) THEN list.queue[1] ELSE Missing]
    /\ list' = IF Has(list) THEN Taken(list) ELSE list
    /\ matcher' = IF Unmatched = Len(corr) THEN "drain" ELSE "match"
    /\ UNCHANGED <<message, parserVars, callback, lit, callerVars, linkVars, verified>>

\* readToEnd, then close.
Drain ==
    /\ matcher = "drain"
    /\ Has(list) \/ AtEnd(list)
    /\ list' = IF Has(list) THEN Taken(list) ELSE list
    /\ matcher' = IF Has(list) THEN "drain" ELSE "closed"
    /\ UNCHANGED <<message, parserVars, callback, lit, callerVars, corr, linkVars, verified>>

\* A plausible bug: the promises are left as they are.
Abandoned == corr

\* Rejecting a promise that has been resolved does nothing.
Rejected == [i \in DOMAIN corr |-> IF corr[i] = Pending THEN Failure ELSE corr[i]]

MatcherCatches ==
    /\ matcher \in {"match", "drain"}
    /\ Broken(list)
    /\ corr' = Rejected
    /\ matcher' = "errored"
    /\ UNCHANGED <<message, parserVars, callback, lit, list, callerVars, linkVars, verified>>
-----------------------------------------------------------------------------
(* The link *)

\* Literal data goes to the application, a copy of it to the digests.
Pipe ==
    /\ link = "pipe"
    /\ Has(lit) \/ AtEnd(lit) \/ Broken(lit)
    /\ lit' = IF Has(lit) THEN Taken(lit) ELSE lit
    /\ delivered' = IF Has(lit) THEN delivered + 1 ELSE delivered
    /\ hashed' = IF Has(lit) THEN hashed ELSE lit.state
    /\ link' = IF Has(lit) THEN "pipe" ELSE IF AtEnd(lit) THEN "drain" ELSE "stopped"
    /\ data' = IF Broken(lit) THEN "errored" ELSE data
    /\ UNCHANGED <<message, parserVars, callback, list, callerVars, matcher, corr, verified>>

\* A plausible bug: the data are closed as soon as they have all been copied.
CopiedSource == "closed"

\* How the stream that the link waits for ends: that of the packets around the
\* encrypted or compressed packet, the matcher's, or the list itself.
LinkSource == IF message.nested THEN message.outer
              ELSE IF OnePass THEN matcher
              ELSE IF Has(list) THEN "open" ELSE list.state

DrainLink ==
    /\ link = "drain"
    /\ \/ /\ LinkSource \in {"closed", "errored"}
          /\ data' = LinkSource /\ link' = "stopped" /\ UNCHANGED list
       \/ /\ ~message.nested /\ ~OnePass /\ Has(list)
          /\ list' = Taken(list) /\ UNCHANGED <<data, link>>
    /\ UNCHANGED <<message, parserVars, callback, lit, callerVars, matcher, corr, delivered, hashed, verified>>
-----------------------------------------------------------------------------
(* The promises *)

\* OnePassSignaturePacket.verify goes on only with a signature packet that matches.
Matches(onePass, sig) == sig.kind = "signature" /\ sig.issuer = onePass.issuer

\* The signature packet to verify, if it is known; Pending until then.
SignatureOf(i) == IF OnePass THEN corr[i] ELSE Signers(got)[i]

\* A plausible bug: the digest of what has arrived is used when the data fail.
DigestOfAnything == hashed # "open" /\ delivered = Whole(message) - 1

\* The digest was computed, of the very data that were signed.  (The first
\* chunk, which holds the packet's header, is not delivered.)
DigestRight == hashed = "closed" /\ delivered = Whole(message) - 1

Verdict(i) ==
    LET signer == Signers(got)[i]
        sig    == SignatureOf(i)
    IN  IF signer.issuer \notin Known THEN "rejected"
        ELSE IF OnePass /\ sig # Pending /\ ~Matches(signer, sig) THEN "rejected"
        ELSE IF sig = Pending \/ hashed = "open" THEN "pending"
        ELSE IF DigestRight /\ sig.good THEN "true" ELSE "rejected"

Settle(i) ==
    /\ verified[i] = "pending"
    /\ Verdict(i) # "pending"
    /\ verified' = [verified EXCEPT ![i] = Verdict(i)]
    /\ UNCHANGED <<message, parserVars, callback, lit, list, callerVars, matcher, corr, linkVars>>

\* A plausible bug: the end of all promises counts, whatever their outcome.
AllSettled == \A i \in DOMAIN verified : verified[i] # "pending"

\* util.anyPromise resolves.
AnyVerified == \E i \in DOMAIN verified : verified[i] = "true"

\* The data as the application sees them: with expectSigned, they do not end
\* before a signature has verified, and fail if none does.
Result ==
    IF data # "closed" \/ ~message.expectSigned THEN data
    ELSE IF AnyVerified THEN "closed"
    ELSE IF \A i \in DOMAIN verified : verified[i] = "rejected" THEN "errored" ELSE "open"
-----------------------------------------------------------------------------
Parser  == ReadHeader \/ PacketWritten \/ NextPacket \/ WriteChunk \/ EndBody \/ AwaitCallback
Callback == ParseLiteral \/ LiteralWritten
Caller  == ReadFirst \/ Verify
Matcher == MatchNext \/ Drain \/ MatcherCatches
Link    == Pipe \/ DrainLink
Promises == \E i \in DOMAIN verified : Settle(i)

Next == Parser \/ Callback \/ Caller \/ Matcher \/ Link \/ Promises

\* Every activity is a chain of promises: what can go on does so.
Fairness == /\ WF_vars(Parser) /\ WF_vars(Callback) /\ WF_vars(Caller)
            /\ WF_vars(Matcher) /\ WF_vars(Link) /\ WF_vars(Promises)

Spec == Init /\ [][Next]_vars /\ Fairness
-----------------------------------------------------------------------------
(* Properties *)

TypeOK ==
    /\ pos \in 0..Len(Packets(message)) /\ sent \in 0..message.body /\ done \in BOOLEAN
    /\ parser \in {"header", "write", "next", "body", "await", "stopped"}
    /\ callback \in {"none", "parse", "write", "returned"}
    /\ {lit.state, list.state} \subseteq {"open", "closed", "errored"}
    /\ {Len(lit.queue), Len(list.queue)} \subseteq {0, 1}
    /\ caller \in {"reading", "verify", "returned", "rejected"}
    /\ matcher \in {"off", "match", "drain", "closed", "errored"}
    /\ link \in {"off", "pipe", "drain", "stopped"}
    /\ delivered \in 0..message.body
    /\ {data, hashed} \subseteq {"open", "closed", "errored"}
    /\ \A i \in DOMAIN verified : verified[i] \in {"pending", "true", "rejected"}

\* Data that end are the data that were sent, and the source has been read
\* to its end without failing: an error after the data (a wrong modification
\* detection code) is never lost, although nobody reads the packets there.
\* Data that break off between two parts of their packet are the exception.
ClosedMeansWhole ==
    /\ TypeOK
    /\ data = "closed" /\ message.cut # "boundary" => delivered = Whole(message) - 1 /\ ~message.fails

\* A signature that verifies is one the sender put there for that signer: the
\* n-th one-pass signature from the end belongs to the n-th packet after the
\* data; and it verifies only over the whole data of a message that passed.
VerifiedRight ==
    \A i \in DOMAIN verified : verified[i] = "true" =>
        LET before == OfKind(message.before, "signature")
            after  == Unmarked(message.after)
            sig    == IF before # <<>> THEN before[i] ELSE after[i]
        IN  /\ sig.kind = "signature" /\ sig.good /\ sig.issuer \in Known
            /\ message.cut = "none" /\ ~message.fails
            /\ delivered = message.body - 1

\* With expectSigned, data that end are whole and signed by a known key, even
\* where they could break off unnoticed otherwise.
ExpectSignedHolds ==
    message.expectSigned /\ Result = "closed" =>
        /\ delivered = Whole(message) - 1
        /\ \E i \in DOMAIN (message.before \o message.after) :
              LET sig == (message.before \o message.after)[i]
              IN  sig.kind = "signature" /\ sig.good /\ sig.issuer \in Known

\* What the sender put there, and what the application sees of it.  Behind the
\* data of an encrypted or compressed message it is the packets around, and the
\* reading of the source, that the data can still fail by: a spoilt packet among
\* those inside rejects signatures, and the data end.
SignaturesOf(m) == IF OfKind(m.before, "signature") # <<>> THEN OfKind(m.before, "signature") ELSE Unmarked(m.after)
Acceptable(sig) == sig.kind = "signature" /\ sig.good /\ sig.issuer \in Known
Spoilt(packets) == \E i \in DOMAIN packets : packets[i].kind \in {"malformed", "garbage"}
Origin ==
    [size     |-> Whole(message) - 1,
     sound    |-> ~message.fails /\ IF message.nested THEN message.outer = "closed" ELSE ~Spoilt(message.after),
     good     |-> {i \in DOMAIN SignaturesOf(message) :
                     message.cut = "none" /\ ~message.fails /\ Acceptable(SignaturesOf(message)[i])},
     loose    |-> message.cut = "boundary",
     demanded |-> message.expectSigned]
Status ==
    CASE caller = "returned" -> Result
      [] caller = "rejected" -> "refused"
      [] OTHER               -> "idle"

\* To the application the pipeline is a stream of signed data: verdicts are
\* given once, on the whole data; an error behind the data, in whichever of the
\* streams, makes them fail; and nothing is taken back.
Stream == INSTANCE SignedStream WITH origin <- Origin, status <- Status, given <- delivered, verdict <- verified
ReadsSignedStream == Stream!Safety

\* A message as the library writes it, signed by known keys.
WellFormed(m) ==
    LET onePass == OfKind(m.before, "onePass")
        after   == Unmarked(m.after)
    IN  /\ m.cut = "none" /\ ~m.fails /\ m.body > 0 /\ m.outer = "closed"
        /\ \A i \in DOMAIN m.before : m.before[i].kind \in {"onePass", "marker"}
        /\ Len(after) = Len(onePass)
        /\ \A i \in DOMAIN after :
              /\ after[i].kind = "signature" /\ after[i].good /\ after[i].issuer \in Known
              /\ after[i].issuer = onePass[Len(onePass) + 1 - i].issuer
\* Such a message arrives whole and all its signatures verify.
WellFormedVerifies ==
    WellFormed(message) /\ (message.expectSigned => OfKind(message.before, "onePass") # <<>>) ~>
        /\ Result = "closed" /\ delivered = message.body - 1
        /\ Len(verified) = Len(OfKind(message.before, "onePass"))
        /\ \A i \in DOMAIN verified : verified[i] = "true"

\* Nothing waits for ever: the call is rejected, or the data end or fail and
\* every promise of its result settles, however the message is broken.
AllSettle ==
    <>(\/ caller = "rejected"
       \/ Result # "open" /\ \A i \in DOMAIN verified : verified[i] # "pending")
=============================================================================
