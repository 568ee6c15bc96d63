------------------------------ MODULE MCCreate ------------------------------
(***************************************************************************)
(* pkg create with lines of every kind in its plist, and pkg repo with     *)
(* three packages for two workers.  The two share no state, so a behaviour *)
(* is about one of them.                                                   *)
(***************************************************************************)
EXTENDS RepoCreate, PkgCreate, TLC

Usr == <<"/", "usr">>
Opt == <<"/", "opt">>
Node(is, inode, size) == [is |-> is, inode |-> inode, size |-> size]
\* f and g in /usr are one file.
MCStage ==
    (Usr \o <<"f">>) :> Node("reg", 1, 1) @@ (Usr \o <<"g">>) :> Node("reg", 1, 1) @@
    (Opt \o <<"f">>) :> Node("reg", 2, 2) @@ (Usr \o <<"l">>) :> Node("link", 3, 4) @@
    (Usr \o <<"d">>) :> Node("dir", 4, 0)

Line(key, attr, arg, cmd) == [key |-> key, attr |-> attr, arg |-> arg, cmd |-> cmd]
Plain(path) == Line("file", Null, path, <<>>)
At(key, arg) == Line(key, Null, arg, <<>>)
Run(key, cmd) == Line(key, Null, <<>>, cmd)
Given == Attr("live", <<"bin">>, <<>>, <<"6", "4">>)
Short == Attr("live", <<>>, <<"wheel">>, <<"4">>)
MCLines ==
    {Plain(<<"f">>), Plain(<<"g">>), Plain(<<"l">>), Plain(<<"d">>), Plain(<<"gone">>),
     Plain(Opt \o <<"f">>), Plain(<<>>),
     Line("", Given, <<"f">>, <<>>), Line("", Short, <<"g">>, <<>>),
     Line("", [Null EXCEPT !.is = "malformed"], <<"f">>, <<>>),
     At("cwd", Opt), At("cwd", <<>>), At("ignore", <<>>), At("dirrm", <<"d">>),
     At("mode", <<"7">>), At("owner", <<"root">>), At("owner", <<>>), At("group", <<"www">>),
     At("name", <<"n">>), At("pkgdep", <<"x">>), At("comment", <<"DEPORIGIN:", "o">>),
     Line("comment", Null, <<"OPTIONS:">>, <<<<"+", "A">>, <<"-", "A">>, <<"b">>>>),
     Run("exec", <<<<"touch">>, <<"%F">>, <<"%B", "%f">>, <<"%@">>>>),
     Run("unexec", <<<<"rmdir">>, <<"%D", "d">>>>),
     Run("unexec", <<<<"post">>, <<"%D">>>>),
     At("plain", <<"f">>), At("both", <<"g">>), At("skip", <<>>), At("wrong", <<>>),
     At("unknown", <<>>)}
Keyword(valid, attr, scripts, actions) ==
    [valid |-> valid, attr |-> attr, scripts |-> scripts, actions |-> actions]
Script(type, cmd) == [type |-> type, cmd |-> cmd]
MCKeywords ==
    [plain |-> Keyword(TRUE, Null, <<Script("post_install", <<<<"%F">>, <<"%@">>>>)>>,
                       <<"file", "setmode">>),
     both |-> Keyword(TRUE, Given, <<Script("pre_upgrade", <<<<"%D">>>>)>>, <<"file", "dirrmtry">>),
     skip |-> Keyword(TRUE, Null, <<>>, <<"ignore_next">>),
     wrong |-> Keyword(FALSE, Null, <<>>, <<>>)]

NoScripts == [t \in Scripts |-> <<>>]
ListedIn(path, sum) ==
    [path |-> path, sum |-> sum, size |-> 0, owner |-> <<>>, group |-> <<>>, mode |-> <<>>]
Manifest(prefix, fields, files) ==
    [prefix |-> prefix, fields |-> fields, files |-> files, scripts |-> NoScripts]
MCManifests ==
    {Manifest(Usr, Required \ {"www", "arch"}, <<>>),
     Manifest(<<>>, Required \ {"prefix", "name"}, <<>>),
     Manifest(Usr, Required, <<ListedIn(Usr \o <<"g">>, <<>>), ListedIn(Usr \o <<"f">>, <<1>>)>>),
     Manifest(Usr, {"comment"}, <<ListedIn(Usr \o <<"gone">>, <<>>)>>)}
MCForcePost == {<<"post">>}

MCFiles == <<"p", "q", "r">>
\* Overlapping runs only without -l: with it they are too many.
MCMaxRuns == [l \in BOOLEAN |-> IF l THEN 1 ELSE 2]

\* A behaviour of pkg repo has -l or not, one of pkg create does not ask.
NoCreation == form = "installed" /\ ~developer /\ manifest.files = <<>> /\ manifest.prefix # <<>>
MCInit ==
    /\ Init /\ CreateInit
    /\ filelist => NoCreation
    /\ Staged => \A f \in Set(manifest.files) : f.path \in DOMAIN disk
    /\ Staged /\ developer => rooted
    /\ Staged /\ manifest.files # <<>> => developer
MCNext ==
    \/ CreateNext /\ ~filelist /\ runs = 0 /\ failures = 0 /\ UNCHANGED vars
    \/ Next /\ NoCreation /\ at = "start" /\ UNCHANGED packvars
MCSpec ==
    /\ MCInit /\ [][MCNext]_<<vars, packvars>>
    /\ WF_vars(ParentStep) /\ \A w \in Worker : WF_vars(WorkerStep(w))
=============================================================================
