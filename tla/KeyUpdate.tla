------------------------------ MODULE KeyUpdate ------------------------------
(***************************************************************************)
(* Merging one key into another: Key.update of key/key.js, User.update,    *)
(* Subkey.update and mergeSignatures of key/helper.js.                     *)
(*                                                                         *)
(* The key being built is a clone of the destination.  Its signature lists *)
(* are JavaScript arrays, so a list is a reference (ref) to an array on a  *)
(* heap (arr): mergeSignatures may make a list of the updated key refer to *)
(* the very array of the source.  The signatures of a list are checked     *)
(* concurrently, as are the users, and then the subkeys, of a key.         *)
(***************************************************************************)
EXTENDS Naturals, Sequences, SequencesExt

CONSTANTS Sigs,         \* signature packets, up to equality of their params
          Expired,      \* those expired, or not yet created, at the given date
          Valid,        \* those that verify under the primary key, for their object
          Cached,       \* those that verified before: the verified flag is set
          Foreign,      \* those issued by another key
          Age,          \* creation time
          SrcUsers,     \* the user IDs of the source key, in order
          DstUsers,     \* the user IDs of the destination key
          SrcSubkeys,   \* the subkey fingerprints of the source key
          DstSubkeys,   \* the subkey fingerprints of the destination key
          Focus         \* bounds: the lists that are not empty to begin with, and their length

ASSUME SigAssumption == /\ Expired \cup Valid \cup Foreign \subseteq Sigs
                        /\ Cached \subseteq Valid
                        /\ Valid \cap (Expired \cup Foreign) = {}
                        /\ Age \in [Sigs -> Nat]
ASSUME IdAssumption == \A ids \in {SrcUsers, DstUsers, SrcSubkeys, DstSubkeys} : ids \in Seq(ToSet(ids))
ASSUME FocusAssumption == \A focus \in Focus : \A b \in focus : b.max \in Nat

VARIABLES phase,   \* how far Key.update is
          date,    \* the date argument: as given, or not a date at all
          arr,     \* the arrays: [Loc -> Seq(Sigs)]
          ref,     \* the array that each list refers to: [Loc -> Loc]
          present, \* the users and subkeys of the updated key
          todo,    \* source users or subkeys that this turn has not come to
          jobs     \* mergers of one source component into one destination component

vars == <<phase, date, arr, ref, present, todo, jobs>>
-----------------------------------------------------------------------------
\* A component is the key itself, a user or a subkey; "new" components are
\* clones of source components.
Component(of, kind, n) == [of |-> of, kind |-> kind, n |-> n]
Ids(of, kind) == CASE kind = "key"     -> <<"key">>
                   [] kind = "user"    -> IF of = "dst" THEN DstUsers ELSE SrcUsers
                   [] kind = "subkey"  -> IF of = "dst" THEN DstSubkeys ELSE SrcSubkeys
Kinds      == {"key", "user", "subkey"}
Components == UNION {{Component(of, kind, n) : n \in DOMAIN Ids(of, kind)} :
                        of \in {"src", "dst", "new"}, kind \in Kinds}
Id(x) == Ids(x.of, x.kind)[x.n]

\* The lists that the update of a component merges, in order.
Attrs(kind) == CASE kind = "key"    -> <<"revocationSignatures", "directSignatures">>
                 [] kind = "user"   -> <<"selfCertifications", "otherCertifications", "revocationSignatures">>
                 [] kind = "subkey" -> <<"bindingSignatures", "revocationSignatures">>
Locs == UNION {{<<x, a>> : a \in ToSet(Attrs(x.kind))} : x \in Components}
List(x, a) == arr[ref[<<x, a>>]]

Job(s, d) == [src |-> s, dst |-> d, at |-> 0, pending |-> {}]
Fresh(j)  == j.at = 0
Done(j)   == j.at = Len(Attrs(j.src.kind)) /\ j.pending = {}
Attr(j)   == Attrs(j.src.kind)[j.at]

TypeOK == /\ phase \in {"called", "key", "user", "subkey", "returned", "threw"}
          /\ date \in {"given", "invalid"}
          /\ arr \in [Locs -> Seq(Sigs)]
          /\ ref \in [Locs -> Locs]
          /\ present \subseteq {x \in Components : x.of # "src"}
          /\ todo \in Seq(Components)
          /\ \A j \in jobs : /\ j.src \in Components /\ j.dst \in Components
                             /\ j.at \in 0 .. Len(Attrs(j.src.kind)) /\ j.pending \subseteq Sigs

\* A bound of Focus allows the lists attr of the components of a kind and
\* position, in the source or the destination, up to max signatures.
Lists(n) == {s \in UNION {[1 .. k -> Sigs] : k \in 0 .. n} : IsInjective(s)}
Bound(focus, l) == {b \in focus : l[1].of \in b.of /\ l[1].n \in b.ns /\ b.kind = l[1].kind /\ b.attr = l[2]}
Init == /\ phase = "called" /\ date = "given"
        /\ \E focus \in Focus :
             LET Bounded == {l \in Locs : Bound(focus, l) # {}}
                 Longest == UNION {Lists(b.max) : b \in focus}
             IN  \E f \in [Bounded -> Longest] :
                   /\ \A l \in Bounded : \A b \in Bound(focus, l) : Len(f[l]) <= b.max
                   /\ arr = [l \in Locs |-> IF l \in Bounded THEN f[l] ELSE <<>>]
        /\ ref = [l \in Locs |-> l]
        /\ present = {x \in Components : x.of = "dst"}
        /\ todo = <<>> /\ jobs = {}
-----------------------------------------------------------------------------
\* SignaturePacket.isExpired: no comparison with an invalid date succeeds.
isExpired(sig) == date = "invalid" \/ sig \in Expired
SameIssuer(a, b) == (a \in Foreign) <=> (b \in Foreign)

\* The check functions: does the signature verify?  The key itself, not
\* {key: keyPacket}, is given as the data of a key revocation: verification
\* throws unless the outcome of an earlier one is cached.
Checked(kind, a) == a \notin {"directSignatures", "otherCertifications"}
PassesUnverified(kind, a, sig) == sig \in Sigs   \* mutant: the outcome of the check is ignored
Passes(kind, a, sig) == IF kind = "key" THEN sig \in Cached ELSE sig \in Valid

\* Lists without a check function are merged in the same turn.
Appended(list, sig) == IF isExpired(sig) \/ sig \in ToSet(list) THEN list ELSE Append(list, sig)

\* Subkey.update: a binding signature by an issuer that the list already has
\* takes the place of the first one by that issuer if it is newer.
Replaces(list, sig) == {i \in DOMAIN list : SameIssuer(list[i], sig)}
\* Mutant: the age is not compared.
ReplacedByAny(list, sig) ==
  IF isExpired(sig) \/ Replaces(list, sig) = {} THEN list
  ELSE [list EXCEPT ![CHOOSE i \in Replaces(list, sig) : TRUE] = sig]

Replaced(list, sig) ==
  IF isExpired(sig) \/ Replaces(list, sig) = {} THEN list
  ELSE LET i == CHOOSE i \in Replaces(list, sig) : \A k \in Replaces(list, sig) : i <= k
       IN  IF Age[sig] > Age[list[i]] THEN [list EXCEPT ![i] = sig] ELSE list

\* mergeSignatures up to its first await, for the next list of job j.
Merge(j) ==
  LET a == Attrs(j.src.kind)[j.at + 1]
      src == <<j.src, a>>
      dst == <<j.dst, a>>
      source == arr[ref[src]]
      dest == arr[ref[dst]]
      Goes(pending) == jobs' = (jobs \ {j}) \cup {[j EXCEPT !.at = @ + 1, !.pending = pending]}
  IN  \/ /\ dest = <<>>
         /\ ref' = [ref EXCEPT ![dst] = ref[src]]
         /\ Goes({}) /\ UNCHANGED arr
      \/ /\ dest # <<>> /\ ~Checked(j.src.kind, a)
         /\ arr' = [arr EXCEPT ![ref[dst]] = FoldLeft(Appended, dest, source)]
         /\ Goes({}) /\ UNCHANGED ref
      \/ /\ dest # <<>> /\ a = "bindingSignatures"
         /\ LET merged == FoldLeft(Replaced, dest, source)
            IN  /\ arr' = [arr EXCEPT ![ref[dst]] = merged]
                /\ Goes({sig \in ToSet(source) : ~isExpired(sig) /\ Replaces(dest, sig) = {}})
         /\ UNCHANGED ref
      \/ /\ dest # <<>> /\ Checked(j.src.kind, a) /\ a # "bindingSignatures"
         /\ Goes({sig \in ToSet(source) : ~isExpired(sig)})
         /\ UNCHANGED <<arr, ref>>

\* The turn that starts the mergers of a phase is over.
TurnOver == todo = <<>> /\ \A j \in jobs : ~Fresh(j)

\* Mutant: mergeSignatures is not awaited.
MergeNextUnawaited(j) ==
  /\ j \in jobs /\ j.at < Len(Attrs(j.src.kind))
  /\ Fresh(j) \/ TurnOver
  /\ Merge(j)
  /\ UNCHANGED <<phase, date, present, todo>>

\* A job begins, or goes on to its next list when the last one is merged.
MergeNext(j) ==
  /\ j \in jobs /\ j.pending = {} /\ j.at < Len(Attrs(j.src.kind))
  /\ Fresh(j) \/ TurnOver
  /\ Merge(j)
  /\ UNCHANGED <<phase, date, present, todo>>

\* Mutants: the list is not searched again for duplicates after the check;
\* a failing check does not settle.
Checks(j, sig) == /\ j \in jobs /\ sig \in j.pending /\ TurnOver
                  /\ jobs' = (jobs \ {j}) \cup {[j EXCEPT !.pending = @ \ {sig}]}
                  /\ UNCHANGED <<phase, date, ref, present, todo>>
Listed(j, x) == ref[<<x, Attr(j)>>]
CheckDoneNoRecheck(j, sig) ==
  Checks(j, sig) /\ arr' = IF Passes(j.src.kind, Attr(j), sig)
                           THEN [arr EXCEPT ![Listed(j, j.dst)] = Append(@, sig)] ELSE arr
CheckDoneRejects(j, sig) == Checks(j, sig) /\ Passes(j.src.kind, Attr(j), sig) /\ UNCHANGED arr

\* The check of a signature is done: it is appended if it passed, unless the
\* list has it by now.
CheckDone(j, sig) ==
  /\ j \in jobs /\ sig \in j.pending /\ TurnOver
  /\ LET dst == ref[<<j.dst, Attr(j)>>]
     IN  arr' = IF Passes(j.src.kind, Attr(j), sig) /\ sig \notin ToSet(arr[dst])
                THEN [arr EXCEPT ![dst] = Append(@, sig)] ELSE arr
  /\ jobs' = (jobs \ {j}) \cup {[j EXCEPT !.pending = @ \ {sig}]}
  /\ UNCHANGED <<phase, date, ref, present, todo>>

\* The next source user (subkey): it is merged into every user (subkey) of
\* the updated key with its ID, or else a clone of it is added.
Dispatch ==
  /\ todo # <<>> /\ \A j \in jobs : ~Fresh(j)
  /\ LET s == Head(todo)
         matches == {x \in present : x.kind = s.kind /\ Id(x) = Id(s)}
         clone == [s EXCEPT !.of = "new"]
     IN  IF matches # {}
         THEN /\ jobs' = jobs \cup {Job(s, d) : d \in matches}
              /\ UNCHANGED <<arr, present>>
         ELSE /\ present' = present \cup {clone}
              /\ arr' = [l \in Locs |-> IF l[1] = clone THEN List(s, l[2]) ELSE arr[l]]
              /\ UNCHANGED jobs
  /\ todo' = Tail(todo)
  /\ UNCHANGED <<phase, date, ref>>

\* All mergers of a phase are awaited before the next phase.
PhaseOver == todo = <<>> /\ \A j \in jobs : Done(j)
Sources(kind) == [n \in DOMAIN Ids("src", kind) |-> Component("src", kind, n)]
Enter(p, kind) == phase' = p /\ jobs' = {} /\ todo' = Sources(kind)

\* Key.update: called on a key that need not change type, ...
Update ==
  /\ phase = "called" /\ Enter("key", "key")
  /\ UNCHANGED <<date, arr, ref, present>>

\* ... or on a public key with a private source that has the same subkeys:
\* then sourceKey.update(this, config) takes config for the date.
UpdateSwapped ==
  /\ phase = "called"
  /\ IF Len(SrcSubkeys) = Len(DstSubkeys) /\ ToSet(SrcSubkeys) \subseteq ToSet(DstSubkeys)
     THEN Enter("key", "key") /\ date' = "invalid"
     ELSE phase' = "threw" /\ UNCHANGED <<date, todo, jobs>>
  /\ UNCHANGED <<arr, ref, present>>

UpdateUsers   == phase = "key" /\ PhaseOver /\ Enter("user", "user") /\ UNCHANGED <<date, arr, ref, present>>
UpdateSubkeys == phase = "user" /\ PhaseOver /\ Enter("subkey", "subkey") /\ UNCHANGED <<date, arr, ref, present>>
UpdateReturns == /\ phase = "subkey" /\ PhaseOver /\ phase' = "returned"
                 /\ UNCHANGED <<date, arr, ref, present, todo, jobs>>

Next == \/ Update \/ UpdateSwapped \/ Dispatch
        \/ \E j \in jobs : MergeNext(j) \/ \E sig \in Sigs : CheckDone(j, sig)
        \/ UpdateUsers \/ UpdateSubkeys \/ UpdateReturns
Spec == Init /\ [][Next]_vars
\* Signature checks complete, and the event loop runs what they resolve.
FairSpec == Spec /\ WF_vars(Next)
-----------------------------------------------------------------------------
(* Properties *)

\* No list of the updated key ever holds a signature twice, although several
\* source users with one ID are merged concurrently into one user and every
\* check is awaited between reading a list and appending to it.  Binding
\* signatures are left out: a newer one takes the place of an older one by the
\* same issuer even if the list has it already (subkey.js:147-149), so that
\* <<early, late>> merged with <<late>> becomes <<late, late>>.
NoDuplicates ==
  /\ TypeOK
  /\ \A x \in present : \A a \in ToSet(Attrs(x.kind)) \ {"bindingSignatures"} : IsInjective(List(x, a))

\* The components of the updated key that a source component belongs to.
Targets(s) == {x \in present : x.kind = s.kind /\ Id(x) = Id(s)}
\* What stands for a signature: itself, or a newer binding by the same issuer.
StandsFor(a, new, old) == \/ new = old
                          \/ a = "bindingSignatures" /\ SameIssuer(new, old) /\ Age[new] >= Age[old]
Has(x, a, sig) == \E new \in ToSet(List(x, a)) : StandsFor(a, new, sig)

\* When update returns, every signature of the source that is valid and not
\* expired is in every user or subkey that it belongs to: no merger is lost
\* or still under way.  Two cases are left out: key revocations, whose check
\* throws, and an update of a public key from a private one, whose date is
\* the configuration object (UpdateSwapped).
MergeComplete ==
  phase = "returned" /\ date = "given" =>
    \A l \in Locs : l[1].of = "src" /\ l # <<Component("src", "key", 1), "revocationSignatures">> =>
      \A sig \in ToSet(List(l[1], l[2])) \cap (Valid \ Expired) :
        Targets(l[1]) # {} /\ \A x \in Targets(l[1]) : Has(x, l[2], sig)

\* A component that no other of the source shares its ID with.
Unshared(s) == \A x \in Components : x.of = "src" /\ x.kind = s.kind /\ Id(x) = Id(s) => x = s

\* No step of an update removes a signature from the updated key, except that
\* a newer binding signature takes the place of an older one.  An unverified
\* or expired one comes into a list only by taking over the whole list of the
\* source, when the destination has none, or as a newer binding signature.
\* And the source key is left alone: although lists of the updated key may be
\* the source's own arrays, only those of source users (or subkeys) that share
\* their ID with another one are ever changed.
MergeSteps ==
  [][/\ \A x \in present : \A a \in ToSet(Attrs(x.kind)) :
          /\ x \in present'
          /\ \A sig \in ToSet(List(x, a)) : \E new \in ToSet(List(x, a)') : StandsFor(a, new, sig)
          /\ Checked(x.kind, a) /\ a # "bindingSignatures" /\ List(x, a) # <<>> =>
               ToSet(List(x, a)') \ ToSet(List(x, a)) \subseteq Valid
     /\ \A l \in Locs : l[1].of = "src" /\ Unshared(l[1]) => List(l[1], l[2])' = List(l[1], l[2])]_vars

\* An update settles.
UpdateSettles == phase = "key" ~> phase = "returned"
=============================================================================
