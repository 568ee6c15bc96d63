----------------------------- MODULE PkgCreate ------------------------------
(***************************************************************************)
(* How pkg create makes a package: ports_parse_plist and its keywords      *)
(* (libpkg/pkg_ports.c) fill a struct pkg (libpkg/pkg.c), from which       *)
(* pkg_create_staged, pkg_create_from_manifest or pkg_create_installed     *)
(* (libpkg/pkg_create.c) write an archive (libpkg/packing.c).              *)
(*                                                                         *)
(* Paths, names, modes and commands are sequences of words: an absolute    *)
(* path begins with "/", the empty sequence is an empty string or NULL.    *)
(* A line of a plist is [key, attr, arg, cmd]: its keyword ("file" for a   *)
(* line without, "" for @(owner,group,mode)), the attributes in            *)
(* parentheses, and its text, as a path or name or as a command.           *)
(***************************************************************************)
EXTENDS Naturals, Sequences, SequencesExt, FiniteSets

CONSTANTS
    Lines,      \* the lines a plist may have
    MaxLines,   \* bound: lines of a plist
    Keywords,   \* the keyword files: name -> [valid, attr, scripts, actions]
    Manifests,  \* what +MANIFEST, a manifest or the database may say
    Stage,      \* path -> [is, inode, size] for what is below the root
    ForcePost,  \* the first words of commands that $FORCE_POST matches
    MaxFaults   \* bound: files that vanish, writes that fail

ASSUME PlistAssumption == MaxLines \in Nat /\ MaxFaults \in Nat

VARIABLES
    form,       \* of pkg create: staged, manifest or installed
    rooted,     \* -r is given
    developer,  \* DEVELOPER_MODE
    at,         \* the next step
    manifest,   \* the one that is read
    disk,       \* path -> what lstat says
    p,          \* struct plist
    pkg,        \* struct pkg
    ret, code,  \* of ports_parse_plist, of pkg create
    created,    \* the archive
    plist,      \* history: the lines read, until the last one is
    undefined,  \* history: freed attributes were used
    faults      \* history and bound: vanished files and failed writes

inputs == <<form, rooted, developer, manifest>>
packvars == <<inputs, at, disk, p, pkg, ret, code, created, plist, undefined, faults>>

Set(s) == {s[i] : i \in DOMAIN s}
Scripts == {"pre_install", "post_install", "pre_deinstall", "post_deinstall",
            "pre_upgrade", "post_upgrade"}
Required == {"origin", "name", "comment", "desc", "maintainer", "arch", "www", "prefix"}

\* struct file_attr: null, live, or freed.
Attr(is, owner, group, mode) ==
    [is |-> is, owner |-> owner, group |-> group, mode |-> mode]
Null == Attr("null", <<>>, <<>>, <<>>)
Freed == Attr("freed", <<>>, <<>>, <<>>)

NoPlist ==
    [prefix |-> <<>>, lastFile |-> <<>>, uname |-> <<>>, gname |-> <<>>, perm |-> <<>>,
     pkgdep |-> <<>>, ignoreNext |-> FALSE, flatsize |-> 0, hardlinks |-> {},
     buf |-> [t \in Scripts |-> <<>>]]
NoArchive == [is |-> "none", meta |-> FALSE, entries |-> <<>>]

\* pkg_new, and what the manifest or the database put into it.
PkgOf(m) ==
    [files |-> m.files, dirs |-> <<>>, deps |-> <<>>, options |-> <<>>,
     scripts |-> m.scripts, fields |-> m.fields, prefix |-> m.prefix, flatsize |-> 0]

CreateInit ==
    /\ form \in {"staged", "manifest", "installed"}
    /\ rooted \in BOOLEAN /\ developer \in BOOLEAN
    /\ form = "installed" => ~rooted
    /\ manifest \in Manifests
    /\ disk = Stage
    /\ at = "start" /\ code = "none" /\ ret = "ok"
    /\ p = NoPlist /\ pkg = PkgOf(manifest) /\ created = NoArchive
    /\ plist = <<>> /\ undefined = FALSE /\ faults = 0

----------------------------------------------------------------------------
(* The package under construction.  The actions on a plist work on a       *)
(* record s of struct plist, struct pkg, their result and the attributes.  *)

Duplicate(s) == [s EXCEPT !.rc = IF developer THEN "fatal" ELSE "ok"]
Or(given, default) == IF given # <<>> THEN given ELSE default

\* The attributes an action sees: freed memory holds anything.
Seen(s, junk) == IF s.attr.is = "freed" THEN junk ELSE s.attr

Entry(s, path, a) ==
    [path |-> path, owner |-> Or(a.owner, s.p.uname), group |-> Or(a.group, s.p.gname),
     mode |-> Or(a.mode, s.p.perm)]

pkg_addfile_attr(s, path, sum, a) ==
    LET e == Entry(s, path, a)
    IN  IF \E f \in Set(s.pkg.files) : f.path = path THEN Duplicate(s)
        ELSE [s EXCEPT !.pkg.files =
                 Append(@, [path |-> path, sum |-> sum, size |-> 0, owner |-> e.owner,
                            group |-> e.group, mode |-> e.mode])]

\* A directory listed by @dirrm has a slash at its end, one listed as a file
\* has none: they are not recognised as the same.
pkg_adddir_attr(s, path, slash, try, a) ==
    LET e == Entry(s, path, a)
    IN  IF \E d \in Set(s.pkg.dirs) : d.path = path /\ d.slash = slash THEN Duplicate(s)
        ELSE [s EXCEPT !.pkg.dirs =
                 Append(@, [path |-> path, slash |-> slash, try |-> try, owner |-> e.owner,
                            group |-> e.group, mode |-> e.mode])]

\* The results of these two are not looked at.
pkg_adddep(s, name, origin) ==
    IF \E d \in Set(s.pkg.deps) : d.origin = origin THEN s
    ELSE [s EXCEPT !.pkg.deps = Append(@, [name |-> name, origin |-> origin])]

pkg_addoption(s, word) ==
    IF \/ Len(word) < 2 \/ word[1] \notin {"+", "-"}
       \/ \E o \in Set(s.pkg.options) : o.key = word[2]
    THEN s
    ELSE [s EXCEPT !.pkg.options =
             Append(@, [key |-> word[2], value |-> IF word[1] = "+" THEN "on" ELSE "off"])]

----------------------------------------------------------------------------
(* Commands.                                                               *)

NeedsFile(cmd) == \E w \in Set(cmd) : Set(w) \cap {"%F", "%f", "%B"} # {}
Unformatted(s, cmd) == NeedsFile(cmd) /\ s.p.lastFile = <<>>

\* format_exec_cmd: %@ is the text of the line, and nothing special in @exec.
Expansion(s, c, line) ==
    CASE c = "%D" -> s.p.prefix
      [] c = "%F" -> s.p.lastFile
      [] c = "%f" -> <<Last(s.p.prefix \o s.p.lastFile)>>
      [] c = "%B" -> Front(s.p.prefix \o s.p.lastFile)
      [] c = "%@" -> Or(line, <<c>>)
      [] OTHER -> <<c>>
format_exec_cmd(s, cmd, line) ==
    [i \in DOMAIN cmd |->
        FoldLeft(LAMBDA word, c : word \o Expansion(s, c, line), <<>>, cmd[i])]

ValidMode(m) == Set(m) \subseteq {"0", "1", "2", "3", "4", "5", "6", "7"}
\* getmode: a mode that is wrong or 0 is none.
Mode(m) == IF ValidMode(m) /\ Set(m) # {"0"} THEN m ELSE <<>>

\* A buffer holds commands, each with the comment sign or without.
AppendTo(s, t, cmd, comment) ==
    [s EXCEPT !.p.buf[t] = Append(@, [cmd |-> cmd, comment |-> comment])]

\* @unexec rmdir, without a pattern or an option, stands for @dirrmtry.
IsDirrm(cmd) ==
    /\ cmd[1] = <<"rmdir">>
    /\ \A w \in Set(cmd) : "*" \notin Set(w)
    /\ Len(cmd) > 1 => cmd[2][1] # "-"
should_be_post(cmd) == cmd[1] \in ForcePost

----------------------------------------------------------------------------
(* Actions of keywords: each takes the text of the line, and the freed     *)
(* attributes' contents.                                                   *)

Resolve(prefix, path) == IF path # <<>> /\ path[1] = "/" THEN path ELSE prefix \o path
Missing(s) == [s EXCEPT !.rc = IF rooted \/ developer THEN "fatal" ELSE "ok"]

\* Without a prefix in the package the first one becomes its prefix; an
\* empty @cwd goes back to it.
setprefix(s, l, junk) ==
    LET prefix == Or(l.arg, s.pkg.prefix)
        t == [s EXCEPT !.p.prefix = prefix, !.pkg.prefix = Or(@, l.arg),
                       !.pkg.fields = @ \cup {"prefix"}]
    IN  FoldLeft(LAMBDA r, b : AppendTo(r, b, <<<<"cd">>, prefix>>, FALSE), t,
                 <<"post_install", "pre_deinstall", "post_deinstall">>)

name_key(s, l, junk) == [s EXCEPT !.pkg.fields = @ \cup {"name"}]

setpkgdep(s, l, junk) == [s EXCEPT !.p.pkgdep = Or(l.arg, @)]

meta_dirrm(s, path, try, junk) ==
    IF path \in DOMAIN disk /\ disk[path].is = "dir"
    THEN pkg_adddir_attr(s, path, TRUE, try, Seen(s, junk)) ELSE Missing(s)
dirrm(s, l, junk) == meta_dirrm(s, Resolve(s.p.prefix, l.arg), FALSE, junk)
dirrmtry(s, l, junk) == meta_dirrm(s, Resolve(s.p.prefix, l.arg), TRUE, junk)

Links(e) == {q \in DOMAIN disk : disk[q].inode = e.inode}
\* check_for_hardlink: the second name of a file is not counted again.
NewLink(e, hardlinks) == (\E q, r \in Links(e) : q # r) => e.inode \notin hardlinks

\* What file does with something that is there.  Another name of a file gets
\* no checksum here.
Found(s, path, junk) ==
    LET e == disk[path]
        regular == e.is = "reg" /\ NewLink(e, s.p.hardlinks)
        sum == IF regular \/ e.is = "link" THEN <<e.inode>> ELSE <<>>
        t == [s EXCEPT !.p.flatsize = @ + (IF regular THEN e.size ELSE 0),
                       !.p.hardlinks = IF e.is = "reg" THEN @ \cup {e.inode} ELSE @]
    IN  IF e.is = "dir" THEN pkg_adddir_attr(s, path, FALSE, TRUE, Seen(s, junk))
        ELSE pkg_addfile_attr(t, path, sum, Seen(s, junk))

file(s, l, junk) ==
    LET path == Resolve(s.p.prefix, l.arg)
    IN  IF path \in DOMAIN disk THEN Found(s, path, junk) ELSE Missing(s)

setmod(s, l, junk) == [s EXCEPT !.p.perm = Mode(l.arg)]
\* Fault: an empty @owner keeps the owner.
setownerKept(s, l, junk) == [s EXCEPT !.p.uname = Or(l.arg, @)]
setowner(s, l, junk) == [s EXCEPT !.p.uname = l.arg]
setgroup(s, l, junk) == [s EXCEPT !.p.gname = l.arg]

comment_key(s, l, junk) ==
    LET tag == SubSeq(l.arg, 1, 1)
    IN  CASE tag = <<"DEPORIGIN:">> ->
                [(IF s.p.pkgdep # <<>> THEN pkg_adddep(s, s.p.pkgdep, Tail(l.arg)) ELSE s)
                    EXCEPT !.p.pkgdep = <<>>]
          [] tag = <<"ORIGIN:">> -> [s EXCEPT !.pkg.fields = @ \cup {"origin"}]
          [] tag = <<"OPTIONS:">> -> FoldLeft(pkg_addoption, s, l.cmd)
          [] OTHER -> s

ignore_next(s, l, junk) == [s EXCEPT !.p.ignoreNext = TRUE]

exec(s, l, junk) ==
    IF Unformatted(s, l.cmd) THEN s
    ELSE AppendTo(s, "post_install", format_exec_cmd(s, l.cmd, <<>>), FALSE)

\* The directories get the attributes one after the other: the first one
\* frees them.
unexec(s, l, junk) ==
    LET cmd == format_exec_cmd(s, l.cmd, <<>>)
        t == IF ~should_be_post(cmd) THEN AppendTo(s, "pre_deinstall", cmd, IsDirrm(cmd))
             ELSE IF IsDirrm(cmd) THEN s
             ELSE AppendTo(s, "post_deinstall", cmd, FALSE)
        dirs == SelectSeq(Tail(cmd), LAMBDA w : w[1] = "/")
        listed == FoldLeft(LAMBDA r, d :
                              [meta_dirrm(r, d, TRUE, junk) EXCEPT !.attr = Null, !.rc = "ok"],
                           t, dirs)
    IN  IF Unformatted(s, l.cmd) THEN s
        ELSE IF IsDirrm(cmd) THEN listed ELSE t

Perform(act, s, l, junk) ==
    CASE act = "setprefix" -> setprefix(s, l, junk)
      [] act = "dirrm" -> dirrm(s, l, junk)
      [] act = "dirrmtry" -> dirrmtry(s, l, junk)
      [] act = "file" -> file(s, l, junk)
      [] act = "setmode" -> setmod(s, l, junk)
      [] act = "setowner" -> setowner(s, l, junk)
      [] act = "setgroup" -> setgroup(s, l, junk)
      [] act = "comment" -> comment_key(s, l, junk)
      [] act = "ignore_next" -> ignore_next(s, l, junk)
      [] act = "name" -> name_key(s, l, junk)
      [] act = "pkgdep" -> setpkgdep(s, l, junk)
      [] act = "exec" -> exec(s, l, junk)
      [] act = "unexec" -> unexec(s, l, junk)

KeyActs ==
    [cwd |-> "setprefix", ignore |-> "ignore_next", comment |-> "comment",
     dirrm |-> "dirrm", dirrmtry |-> "dirrmtry", mode |-> "setmode",
     owner |-> "setowner", group |-> "setgroup", exec |-> "exec", unexec |-> "unexec",
     name |-> "name", pkgdep |-> "pkgdep", mtree |-> "comment",
     stopdaemon |-> "comment", display |-> "comment", conflicts |-> "comment"]

\* Every action frees the attributes, an empty setmode excepted.
Performed(act, s, l, junk) ==
    LET t == Perform(act, s, l, junk)
    IN  IF s.attr.is = "null" \/ (act = "setmode" /\ l.arg = <<>>) THEN t
        ELSE [t EXCEPT !.attr = Freed, !.bad = @ \/ s.attr.is = "freed"]

----------------------------------------------------------------------------
(* Keyword files.                                                          *)

\* parse_attributes: what the file says goes before what the line says.
Attributes(k, attr) ==
    IF k.attr.is = "null" THEN attr
    ELSE Attr("live", Or(k.attr.owner, attr.owner), Or(k.attr.group, attr.group),
              Or(Mode(k.attr.mode), attr.mode))

\* The scripts for an upgrade go to the buffers of the deinstallation.
BufferOf(t) ==
    CASE t = "pre_upgrade" -> "pre_deinstall" [] t = "post_upgrade" -> "post_deinstall"
      [] OTHER -> t
\* A command that cannot be formatted leaves cmd uninitialized, and it is
\* printed all the same.
KeywordScript(s, x, l) ==
    IF Unformatted(s, x.cmd)
    THEN [AppendTo(s, BufferOf(x.type), <<>>, FALSE) EXCEPT !.bad = TRUE]
    ELSE AppendTo(s, BufferOf(x.type), format_exec_cmd(s, x.cmd, l.arg), FALSE)
KeywordScripts(s, k, l) == FoldLeft(LAMBDA r, x : KeywordScript(r, x, l), s, k.scripts)

\* parse_actions passes the same attributes to every action and does not look
\* at the results.
apply_keyword_file(s, k, l, junk) ==
    FoldLeft(LAMBDA r, act : [Performed(act, r, l, junk) EXCEPT !.rc = "ok"],
             KeywordScripts([s EXCEPT !.attr = Attributes(k, @)], k, l), k.actions)

external_keyword(s, l, junk) ==
    IF l.key \notin DOMAIN Keywords THEN s
    ELSE IF ~Keywords[l.key].valid THEN [s EXCEPT !.rc = "fatal"]
    ELSE apply_keyword_file(s, Keywords[l.key], l, junk)

\* Parentheses without their three parts, or with a wrong mode.
Malformed(l) == l.attr.is = "malformed" \/ ~ValidMode(l.attr.mode)

\* The mode in parentheses loses its last character before it is looked at: a
\* mode of one character is none.
LineAttr(l) == [l.attr EXCEPT !.mode = IF Len(@) < 2 THEN <<>> ELSE Mode(@)]

parse_keywords(s, l, junk) ==
    IF Malformed(l) THEN [s EXCEPT !.rc = "fatal"]
    ELSE IF l.key = "" THEN Performed("file", s, l, junk)
    ELSE IF l.key \in DOMAIN KeyActs THEN Performed(KeyActs[l.key], s, l, junk)
    ELSE external_keyword(s, l, junk)

----------------------------------------------------------------------------
(* ports_parse_plist.                                                      *)

Staged == form = "staged"

BeginPlist ==
    /\ at = "start" /\ Staged
    /\ at' = "plist"
    /\ p' = [p EXCEPT !.prefix = pkg.prefix]
    /\ UNCHANGED <<inputs, disk, pkg, ret, code, created, plist, undefined, faults>>

Before(l) == [p |-> p, pkg |-> pkg, rc |-> "ok", attr |-> LineAttr(l), bad |-> FALSE]

EmptyLine(l) == l.key = "file" /\ l.arg = <<>>

\* What a line that is not ignored does.  A plain line is the last file from
\* then on, one with attributes is not.
Obeyed(l, junk) ==
    IF EmptyLine(l) THEN Before(l)
    ELSE IF l.key = "file"
    THEN file([Before(l) EXCEPT !.p.lastFile = l.arg], l, junk)
    ELSE parse_keywords(Before(l), l, junk)

Ignored(l) == [Before(l) EXCEPT !.p.ignoreNext = FALSE]
LineRead(l, junk) == IF p.ignoreNext THEN Ignored(l) ELSE Obeyed(l, junk)

\* The actions a line stands for.
ActsOf(l) ==
    IF EmptyLine(l) \/ Malformed(l) THEN <<>>
    ELSE IF l.key \in {"", "file"} THEN <<"file">>
    ELSE IF l.key \in DOMAIN KeyActs THEN <<KeyActs[l.key]>>
    ELSE IF l.key \in DOMAIN Keywords /\ Keywords[l.key].valid THEN Keywords[l.key].actions
    ELSE <<>>

\* An empty @cwd in a package without prefix copies from NULL.
Faulting(l) ==
    ~p.ignoreNext /\ l.arg = <<>> /\ pkg.prefix = <<>> /\ "setprefix" \in Set(ActsOf(l))

Junk == {Null, Attr("live", <<"any">>, <<"any">>, <<"any">>)}

ReadLine(l, junk) ==
    /\ at = "plist" /\ Len(plist) < MaxLines /\ ~Faulting(l)
    /\ LET t == LineRead(l, junk)
       IN  /\ junk # Null => t.bad
           /\ p' = t.p /\ pkg' = t.pkg
           /\ ret' = IF t.rc = "ok" THEN ret ELSE "fatal"
           /\ undefined' = (undefined \/ t.bad)
    /\ plist' = Append(plist, l)
    /\ UNCHANGED <<inputs, at, disk, code, created, faults>>

\* NULL is read, or the attributes are freed a second time.
Crash(l) ==
    /\ at = "plist" /\ Len(plist) < MaxLines
    /\ Faulting(l) \/ LineRead(l, Null).bad
    /\ at' = "done" /\ code' = "crashed"
    /\ UNCHANGED <<inputs, disk, p, pkg, ret, created, plist, undefined, faults>>

\* flush_script_buffer appends to what the scripts of the package are.
Flushed ==
    [pkg EXCEPT !.flatsize = p.flatsize,
                !.scripts = [t \in Scripts |-> @[t] \o p.buf[t]]]

\* pkg_create_staged then needs a description or a www, and takes the www from
\* the description.
Described(ok) ==
    LET go == ok /\ pkg.fields \cap {"www", "desc"} # {}
    IN  /\ at' = IF go THEN "open" ELSE "done"
        /\ code' = IF go THEN code ELSE "fatal"

EndPlist ==
    /\ at = "plist" /\ Described(ret = "ok")
    /\ pkg' = [Flushed EXCEPT !.fields = @ \cup {"www"}]
    /\ p' = NoPlist /\ plist' = <<>>
    /\ UNCHANGED <<inputs, disk, ret, created, undefined, faults>>

----------------------------------------------------------------------------
(* pkg_create.c and packing.c.                                             *)

\* pkg create -m without a plist.
BeginWithout ==
    /\ at = "start" /\ Staged /\ Described(TRUE)
    /\ pkg' = [pkg EXCEPT !.fields = @ \cup {"www"}]
    /\ UNCHANGED <<inputs, disk, p, ret, created, plist, undefined, faults>>

pkg_create_from_manifest ==
    /\ at = "start" /\ form = "manifest" /\ at' = "open"
    /\ UNCHANGED <<inputs, disk, p, pkg, ret, code, created, plist, undefined, faults>>

pkg_create_installed ==
    /\ at = "start" /\ form = "installed" /\ at' = "open"
    /\ UNCHANGED <<inputs, disk, p, pkg, ret, code, created, plist, undefined, faults>>

\* No metadata, no plist, or a manifest that cannot be parsed.
BeginFails ==
    /\ at = "start" /\ form # "installed" /\ faults < MaxFaults /\ faults' = faults + 1
    /\ at' = "done" /\ code' = "fatal"
    /\ UNCHANGED <<inputs, disk, p, pkg, ret, created, plist, undefined>>

pkg_create_archive ==
    /\ at = "open" /\ at' = "sum"
    /\ created' = [created EXCEPT !.is = "open"]
    /\ UNCHANGED <<inputs, disk, p, pkg, ret, code, plist, undefined, faults>>

ArchiveFails ==
    /\ at = "open" /\ faults < MaxFaults /\ faults' = faults + 1
    /\ at' = "done" /\ code' = "fatal"
    /\ UNCHANGED <<inputs, disk, p, pkg, ret, created, plist, undefined>>

pkg_is_valid == Required \subseteq pkg.fields \cup {"arch"}

\* Sizes and checksums that are not known yet.  A size counts once for all
\* the names of a file, that of a link counts too.
Summed(r, f) ==
    LET e == disk[f.path]
        size == IF f.size = 0 THEN e.size ELSE f.size
    IN  [files |-> Append(r.files, [f EXCEPT !.size = size, !.sum = Or(@, <<e.inode>>)]),
         flatsize |-> r.flatsize + (IF NewLink(e, r.links) THEN size ELSE 0),
         links |-> r.links \cup {e.inode}]

\* The callers do not look at the result of pkg_create_from_dir: what it gives
\* up becomes an archive without its manifest.
SumFiles ==
    /\ at = "sum"
    /\ LET ok == pkg_is_valid /\ \A f \in Set(pkg.files) : f.path \in DOMAIN disk
           all == FoldLeft(Summed, [files |-> <<>>, flatsize |-> 0, links |-> {}], pkg.files)
       IN  /\ at' = IF ok THEN "meta" ELSE "finish"
           /\ pkg' = IF ok THEN [pkg EXCEPT !.files = all.files, !.flatsize = all.flatsize]
                     ELSE pkg
    /\ UNCHANGED <<inputs, disk, p, ret, code, created, plist, undefined, faults>>

packing_append_buffer ==
    \/ created' = [created EXCEPT !.meta = TRUE] /\ UNCHANGED faults
    \/ faults < MaxFaults /\ faults' = faults + 1 /\ UNCHANGED created

\* The manifests go first; that they could not be written goes unnoticed.
WriteMeta ==
    /\ at = "meta" /\ at' = "pack" /\ packing_append_buffer
    /\ UNCHANGED <<inputs, disk, p, pkg, ret, code, plist, undefined>>

Content == [i \in DOMAIN pkg.files |-> pkg.files[i].path]
           \o [i \in DOMAIN pkg.dirs |-> pkg.dirs[i].path]
Packed == created.entries

packing_append_file_attr ==
    /\ at = "pack" /\ Len(Packed) < Len(Content)
    /\ Content[Len(Packed) + 1] \in DOMAIN disk
    /\ created' = [created EXCEPT !.entries = Append(@, Content[Len(@) + 1])]
    /\ UNCHANGED <<inputs, at, disk, p, pkg, ret, code, plist, undefined, faults>>

\* Only the developer mode gives up after a file that could not be packed.
AppendFails ==
    /\ at = "pack" /\ Len(Packed) < Len(Content)
    /\ \/ Content[Len(Packed) + 1] \notin DOMAIN disk /\ UNCHANGED faults
       \/ Content[Len(Packed) + 1] \in DOMAIN disk /\ faults < MaxFaults /\ faults' = faults + 1
    /\ IF developer THEN at' = "finish" /\ UNCHANGED created
       ELSE at' = at /\ created' = [created EXCEPT !.entries = Append(@, <<>>)]
    /\ UNCHANGED <<inputs, disk, p, pkg, ret, code, plist, undefined>>

packing_finish ==
    /\ \/ at = "finish"
       \/ at = "pack" /\ Len(Packed) = Len(Content)
    /\ at' = "done" /\ code' = "ok"
    /\ created' = [created EXCEPT !.is = "closed"]
    /\ UNCHANGED <<inputs, disk, p, pkg, ret, plist, undefined, faults>>

\* Nothing keeps a file where it is between two looks at it.
Vanish(path) ==
    /\ at \in {"open", "meta"} /\ faults < MaxFaults /\ faults' = faults + 1
    /\ disk' = [q \in DOMAIN disk \ {path} |-> disk[q]]
    /\ UNCHANGED <<inputs, at, p, pkg, ret, code, created, plist, undefined>>

CreateNext ==
    \/ BeginPlist \/ (\E l \in Lines, junk \in Junk : ReadLine(l, junk))
    \/ (\E l \in Lines : Crash(l)) \/ EndPlist
    \/ BeginWithout \/ pkg_create_from_manifest \/ pkg_create_installed \/ BeginFails \/ pkg_create_archive \/ ArchiveFails
    \/ SumFiles \/ WriteMeta \/ packing_append_file_attr \/ AppendFails
    \/ packing_finish \/ (\E path \in DOMAIN disk : Vanish(path))

----------------------------------------------------------------------------
(* What a plist says, read backwards from each place in it.                *)

Ignores(l) == "ignore_next" \in Set(ActsOf(l))
\* A line counts if an even number of lines that ignore the next one stand
\* directly before it.
Live(i) ==
    Cardinality({k \in 1..(i - 1) : \A j \in (i - k)..(i - 1) : Ignores(plist[j])}) % 2 = 0

IsKeywordFile(l) == l.key \in DOMAIN Keywords
\* The scripts and the actions of a line, in their order.
Said(l) ==
    (IF IsKeywordFile(l) /\ Keywords[l.key].valid /\ ~Malformed(l)
     THEN [i \in DOMAIN Keywords[l.key].scripts |->
              [act |-> "script", line |-> l, script |-> Keywords[l.key].scripts[i]]]
     ELSE <<>>)
    \o [i \in DOMAIN ActsOf(l) |->
           [act |-> ActsOf(l)[i], line |-> l, script |-> [type |-> "none", cmd |-> l.cmd]]]
Sayings ==
    FoldLeft(LAMBDA r, i : IF Live(i) THEN r \o Said(plist[i]) ELSE r, <<>>,
             [i \in DOMAIN plist |-> i])

\* The text of the last line before place n that is of a kind.
LastOf(E, n, Kind(_), default) ==
    LET ms == {m \in 1..(n - 1) : Kind(E[m])}
    IN  IF ms = {} THEN default ELSE E[Max(ms)].line.arg
SetAt(E, n, act) == LastOf(E, n, LAMBDA e : e.act = act, <<>>)
PrefixAt(E, n) ==
    LET before == {m \in 1..(n - 1) : E[m].act = "setprefix"}
    IN  IF before = {} THEN manifest.prefix
        ELSE Or(E[Max(before)].line.arg, Or(manifest.prefix, E[Min(before)].line.arg))
LastFileAt(E, n) == LastOf(E, n, LAMBDA e : e.line.key = "file", <<>>)
CommandAt(E, n, line) ==
    format_exec_cmd([p |-> [prefix |-> PrefixAt(E, n), lastFile |-> LastFileAt(E, n)]],
                    E[n].script.cmd, line)
Formatted(E, n) == NeedsFile(E[n].script.cmd) => LastFileAt(E, n) # <<>>

\* What place n lists: <<"file", path>>, or a directory with its slash or not.
Path(E, n) == Resolve(PrefixAt(E, n), E[n].line.arg)
Is(path, kinds) == path \in DOMAIN disk /\ disk[path].is \in kinds
Dirs(paths) == {<<"dir/", path>> : path \in {q \in paths : Is(q, {"dir"})}}
Names(E, n) ==
    CASE E[n].act = "file" /\ Is(Path(E, n), {"reg", "link"}) -> {<<"file", Path(E, n)>>}
      [] E[n].act = "file" /\ Is(Path(E, n), {"dir"}) -> {<<"dir", Path(E, n)>>}
      [] E[n].act \in {"dirrm", "dirrmtry"} -> Dirs({Path(E, n)})
      [] E[n].act = "unexec" /\ Formatted(E, n) /\ IsDirrm(CommandAt(E, n, <<>>)) ->
            Dirs(Set(Tail(CommandAt(E, n, <<>>))))
      [] OTHER -> {}
NamedBefore(E, n) ==
    {<<"file", f.path>> : f \in Set(manifest.files)} \cup UNION {Names(E, m) : m \in 1..(n - 1)}

AttrAt(E, n) ==
    LET l == E[n].line
    IN  IF IsKeywordFile(l) THEN Attributes(Keywords[l.key], LineAttr(l)) ELSE LineAttr(l)
EntryAt(E, n) ==
    LET a == AttrAt(E, n)
    IN  [path |-> Path(E, n), owner |-> Or(a.owner, SetAt(E, n, "setowner")),
         group |-> Or(a.group, SetAt(E, n, "setgroup")),
         mode |-> Or(a.mode, Mode(SetAt(E, n, "setmode")))]

\* The first listing of a path counts, with the attributes of its line, else
\* with those set before it.
Listed(E) ==
    {EntryAt(E, n) : n \in {m \in DOMAIN E :
        E[m].act = "file" /\ <<"file", Path(E, m)>> \in Names(E, m) \ NamedBefore(E, m)}}

\* The commands for after the installation, in the order of the plist.
PostInstall(E) ==
    FoldLeft(LAMBDA r, n :
                IF E[n].act = "setprefix"
                THEN Append(r, <<<<"cd">>, PrefixAt(E, n + 1)>>)
                ELSE IF E[n].act = "exec" /\ Formatted(E, n)
                THEN Append(r, CommandAt(E, n, <<>>))
                ELSE IF E[n].act = "script" /\ E[n].script.type = "post_install"
                THEN Append(r, CommandAt(E, n, E[n].line.arg))
                ELSE r,
             <<>>, [n \in DOMAIN E |-> n])

\* A line that is wrong, or that lists by itself what is not there, or in
\* developer mode what was listed before.
Faulty(E) ==
    \/ \E i \in DOMAIN plist :
          /\ Live(i)
          /\ \/ Malformed(plist[i])
             \/ IsKeywordFile(plist[i]) /\ ~Keywords[plist[i].key].valid
    \/ \E n \in DOMAIN E :
          /\ E[n].act \in {"file", "dirrm", "dirrmtry"} /\ ~IsKeywordFile(E[n].line)
          /\ \/ Names(E, n) = {} /\ (rooted \/ developer)
             \/ Names(E, n) \cap NamedBefore(E, n) # {} /\ developer

PlistObeyed(E) ==
    /\ {[path |-> f.path, owner |-> f.owner, group |-> f.group, mode |-> f.mode] :
           f \in Set(pkg.files) \ Set(manifest.files)} = Listed(E)
    /\ {<<IF d.slash THEN "dir/" ELSE "dir", d.path>> : d \in Set(pkg.dirs)} =
          {x \in NamedBefore(E, Len(E) + 1) : x[1] # "file"}
    /\ [i \in DOMAIN p.buf["post_install"] |-> p.buf["post_install"][i].cmd] = PostInstall(E)
    /\ ret = "fatal" <=> Faulty(E)

SizeOf(inode) == (CHOOSE e \in {disk[q] : q \in DOMAIN disk} : e.inode = inode).size
PackageWhole ==
    /\ Staged /\ manifest.files = <<>> /\ pkg_is_valid => created.meta
    /\ created.meta =>
          /\ Packed = Content
          /\ \A f \in Set(pkg.files) : f.sum = <<disk[f.path].inode>>
          /\ pkg.flatsize = MapThenSumSet(SizeOf, {disk[f.path].inode : f \in Set(pkg.files)})

\* pkg-create(8): while the plist is read, the package has what the lines so
\* far say: the first listing of each path, with the owner, group, mode and
\* prefix in force at its line, the commands with the last file and prefix in
\* force at theirs, and an error exactly if a line has to be an error, lines
\* that were ignored left out.  A package created without an error from a
\* complete description, with nothing vanishing, has its manifest, everything
\* that is listed, the checksum of each file, and the size of each file once,
\* whatever its names.  Not covered: attributes used after they were freed,
\* and files a manifest itself lists that are not there.
PackageExact ==
    /\ at = "plist" /\ ~undefined => PlistObeyed(Sayings)
    /\ at = "done" /\ code = "ok" /\ faults = 0 => PackageWhole
=============================================================================
