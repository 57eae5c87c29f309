-------------------------- MODULE KeyUpdateInvariant --------------------------
(***************************************************************************)
(* The inductive invariants behind the properties of KeyUpdate: which      *)
(* array a list may refer to while mergers are under way, and where each   *)
(* signature to merge is by then.                                          *)
(***************************************************************************)
EXTENDS KeyUpdate

\* The kinds of component whose turn has not come.
Ahead == CASE phase = "called" -> Kinds
           [] phase = "key"    -> {"user", "subkey"}
           [] phase = "user"   -> {"subkey"}
           [] OTHER            -> {}
Turn == IF phase = "returned" THEN "subkey" ELSE phase

\* A merger is of a source component into one of the updated key with its ID,
\* and there is one of each.
Sound(j) == /\ j.src.of = "src" /\ j.dst \in present
            /\ j.src.kind = Turn /\ j.dst.kind = Turn /\ Id(j.src) = Id(j.dst)
            /\ j.pending # {} => j.at > 0
JobsRight == /\ \A j \in jobs : Sound(j) /\ j.src \notin ToSet(todo)
             /\ \A j, k \in jobs : j.src = k.src /\ j.dst = k.dst => j = k
TodoRight == /\ \A i \in DOMAIN todo : todo[i].of = "src" /\ todo[i].kind = phase
             /\ IsInjective(todo)

\* The merger j is done with the lists a.
Past(j, a) == \E i \in 1 .. j.at : Attrs(j.src.kind)[i] = a /\ (i = j.at => j.pending = {})

\* A list has an array of its own, or that of a list of the source that was
\* merged into it: the merger that made it so is past that list.
Borrows(l, s) == /\ ref[l] = <<s, l[2]>> /\ s.of = "src"
                 /\ l[1] \in present /\ l[1].kind = s.kind /\ Id(l[1]) = Id(s)
                 /\ s.kind \notin Ahead /\ s \notin ToSet(todo)
                 /\ \A j \in jobs : j.src = s /\ j.dst = l[1] => Past(j, l[2])
RefRight == \A l \in Locs : ref[l] = l \/ \E s \in Components : Borrows(l, s)

\* No array of signatures other than bindings has one twice.
ArraysApart == \A l \in Locs : l[2] # "bindingSignatures" => IsInjective(arr[l])

IInv == TypeOK /\ JobsRight /\ TodoRight /\ RefRight /\ ArraysApart
-----------------------------------------------------------------------------
(* And behind MergeComplete: every signature to merge is there, or comes. *)

\* Mergers begin one source component at a time; only lists with a check
\* function await one; all mergers are done when an update returns.
MergersOrdered == /\ \A j, k \in jobs : Fresh(j) /\ Fresh(k) => j.src = k.src
                  /\ \A j \in jobs : j.pending # {} => Checked(j.src.kind, Attr(j))
                  /\ phase = "returned" => PhaseOver

\* A source component that no turn has come to.
Waiting(s) == s.of = "src" /\ (s.kind \in Ahead \/ s \in ToSet(todo))

\* The merger j is to check sig for the list a, or to come to that list.
Checking(j, a, sig) == j.at > 0 /\ Attr(j) = a /\ sig \in j.pending
Before(j, a) == \E i \in DOMAIN Attrs(j.src.kind) : i > j.at /\ Attrs(j.src.kind)[i] = a
Comes(x, a, sig) ==
  \/ \E j \in jobs : j.dst = x /\ (Checking(j, a, sig) \/ (Before(j, a) /\ sig \in ToSet(List(j.src, a))))
  \/ \E s \in Components : Waiting(s) /\ x \in Targets(s) /\ sig \in ToSet(List(s, a))

\* The signatures of a list of the source: those it has by now (mergers may
\* add to its array) and those under check.
Asked(s, a, sig) == \/ sig \in ToSet(List(s, a))
                    \/ \E j \in jobs : j.src = s /\ Checking(j, a, sig)
AllCome(s, a) == \A sig \in Valid \ Expired : Asked(s, a, sig) =>
                   \A x \in Targets(s) : Has(x, a, sig) \/ Comes(x, a, sig)
SourcesCome ==
  \A s \in Components : s.of = "src" =>
    /\ Waiting(s) \/ Targets(s) # {}
    /\ \A a \in ToSet(Attrs(s.kind)) : AllCome(s, a) \/ (s.kind = "key" /\ a = "revocationSignatures")

MInv == IInv /\ MergersOrdered /\ (date = "given" /\ phase # "threw" => SourcesCome)
=============================================================================
