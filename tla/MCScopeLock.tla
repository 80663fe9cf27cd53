--------------------------- MODULE MCScopeLock ---------------------------
(***************************************************************************)
(* Small instances of ScopeLock: one workspace with one repository whose   *)
(* paths make a chain and a sibling, and one resource.                     *)
(***************************************************************************)
EXTENDS ScopeLock, TLC

CONSTANTS p1, p2, c1, c2, c3

Ws == [kind |-> "workspace", ws |-> "w"]
Obj(path) == [kind |-> "object", ws |-> "w", repo |-> "r", path |-> path]
Rsc == [kind |-> "resource", ns |-> "n", key |-> "k"]
R(s) == [scope |-> s, mode |-> "Read"]
W(s) == [scope |-> s, mode |-> "Write"]

\* Two callers in one process, a third in another.
MCProcOf == (c1 :> p1) @@ (c2 :> p1) @@ (c3 :> p2)
\* All callers in one process.
MCOneProcess == (c1 :> p1) @@ (c2 :> p1) @@ (c3 :> p1)

\* Each kind of scope in both modes, a parent with its descendants, siblings,
\* one scope in both modes of a call, and calls for two scopes.
MCInputs ==
    { {R(Ws)}, {W(Ws)}, {W(Obj(<<"src">>))}, {W(Obj(<<"src", "a">>)), R(Rsc)},
      {R(Obj(<<"src", "b">>)), W(Rsc), R(Rsc)} }

AllKeys ==
    {<<"resource", "n", "k">>, <<"all", "w">>, <<"writers", "w">>} \cup
    {<<"object", "w", "r", z>> : z \in {".", "src"}}
\* The order of the file keys' text.
MCKeyRank ==
    [k \in AllKeys |-> CASE k[1] = "resource" -> 1 [] k[1] = "all" -> 2
                         [] k[1] = "object" /\ k[4] = "." -> 3
                         [] k[1] = "object" /\ k[4] = "src" -> 4
                         [] k[1] = "writers" -> 5]
=============================================================================
