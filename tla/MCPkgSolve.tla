---------------------------- MODULE MCPkgSolve -----------------------------
(* Worlds of three uids for TLC.  Version 1 of each is the installed one.  *)
EXTENDS PkgOrder

MCUid == {"a", "b", "c"}
MCItem == {"a1", "a2", "a3", "b1", "b2", "c1", "c2"}
MCUidOf == [i \in MCItem |->
    CASE i \in {"a1", "a2", "a3"} -> "a" [] i \in {"b1", "b2"} -> "b"
      [] OTHER -> "c"]
MCVersion == [i \in MCItem |->
    CASE i \in {"a1", "b1", "c1"} -> 1 [] i = "a3" -> 3 [] OTHER -> 2]

Databases(local, remote, locked, automatic, deps, files) ==
    [items |-> local \cup remote, local |-> local, locked |-> locked,
     automatic |-> automatic, version |-> MCVersion,
     deps |-> [i \in MCItem |-> IF i \in DOMAIN deps THEN deps[i] ELSE {}],
     files |-> [i \in MCItem |-> IF i \in DOMAIN files THEN files[i] ELSE {}]]

Maybe(u) == {{}, {u}}
Disjoint(S, i, j) == ~({i, j} \subseteq S)

\* A new package a, or two versions of it, b and c installed, one path.
NewPackage ==
    {Databases({"b1", "c1"}, as \cup {"b2", "c2"}, locked, {"c1"},
               [a2 |-> da, a3 |-> da, b1 |-> b[1], b2 |-> b[2],
                c1 |-> c[1], c2 |-> c[2]],
               [i \in P |-> {"p"}]) :
        as \in {{"a2"}, {"a2", "a3"}}, locked \in {{}, {"c1"}},
        da \in Maybe("b"), b \in Maybe("c") \X Maybe("c"),
        c \in {<<{}, {}>>, <<{"b"}, {"b"}>>},
        P \in {S \in SUBSET {"a2", "b1", "b2", "c1", "c2"} :
                   Disjoint(S, "b1", "c1")}}

\* Two upgrades of an installed a, an installed b without a candidate, and a
\* c that is installed or not.
Upgrades ==
    {Databases({"a1", "b1"} \cup c, {"a2", "a3", "c2"}, {}, {"a1"},
               [a1 |-> d[1], a2 |-> d[2], a3 |-> d[2], b1 |-> d[3], c2 |-> d[4]],
               [i \in P |-> {"p"}]) :
        c \in {{}, {"c1"}},
        d \in Maybe("b") \X Maybe("c") \X Maybe("a") \X Maybe("b"),
        P \in {S \in SUBSET {"a1", "a3", "b1", "c1", "c2"} :
                   \A i, j \in {"a1", "b1", "c1"} : i # j => Disjoint(S, i, j)}}

Commands(worlds, kinds, patterns) ==
    {s \in [world : worlds, kind : kinds, named : patterns \cup {{}}] :
        s.named # {} <=> s.kind \in {"install", "deinstall"}}

\* Three installed packages, any of them locked and automatic, without a
\* cycle of dependencies, on which pkg_jobs_test_automatic does not end.
RemoveWorlds ==
    {Databases({"a1", "b1", "c1"}, {}, locked, automatic,
               [a1 |-> a, b1 |-> b, c1 |-> {}], [i \in {} |-> {}]) :
        a \in SUBSET {"b", "c"}, b \in Maybe("c"),
        locked \in SUBSET {"a1", "b1", "c1"},
        automatic \in SUBSET {"a1", "b1", "c1"}}

MCStarts ==
    Commands(NewPackage \cup Upgrades, {"install", "upgrade"},
             {{"a"}, {"a", "b"}, {"c"}})
    \cup Commands(RemoveWorlds, {"deinstall", "autoremove"},
                  {{"a"}, {"b"}, {"c"}, {"a", "c"}, {"b", "c"}})
============================================================================
