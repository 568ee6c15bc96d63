------------------------------ MODULE PkgAudit ------------------------------
(***************************************************************************)
(* pkg audit: the VuXML file is fetched and unpacked over the old one      *)
(* (pkg_audit_fetch), mapped (pkg_audit_load), parsed event by event       *)
(* by the handlers, sorted (pkg_audit_preprocess) and searched             *)
(* for each package (pkg_audit_is_vulnerable); -r lists the packages that  *)
(* depend on a vulnerable one.                                             *)
(*                                                                         *)
(* The document is made up while it is read: an action reads one element   *)
(* and hands its events to the handlers, and doc remembers what the        *)
(* document says.  Names are sequences of characters; of the text only     *)
(* names and versions are kept.                                            *)
(***************************************************************************)
EXTENDS PkgVersion

CONSTANTS
    Patterns,       \* the names, with or without globs, an element <name> may hold
    Split,          \* the names whose text may come in two pieces
    RangesOf,       \* the ranges a package may have: sequences of sequences of bounds
    Queries,        \* the packages to check: [name, version]
    NoVersion,      \* the version of a package given by its name only
    Installed,      \* packages that may depend on each other
    MaxVulns, MaxPackages, MaxNames,    \* bounds on a document
    MaxSplit        \* bound on the names of a document with one in pieces

VARIABLES
    file,           \* vuln.xml: how much of it is there
    phase,          \* what the command does next
    open,           \* the elements that are open
    doc,            \* what the document read so far says
    ud,             \* struct vulnxml_userdata, with the list of entries
    items,          \* the sorted entries
    report,         \* the entries reported for each package that is checked
    rdeps, stack, seen, listed          \* print_recursive_rdeps

docvars == <<open, doc, ud>>
findvars == <<items, report>>
listvars == <<rdeps, stack, seen, listed>>
auditvars == <<file, phase, open, doc, ud, items, report, rdeps, stack, seen, listed>>

Bounds == [op : {"eq", "lt", "le", "gt", "ge"}, version : Versions]

ASSUME AuditAssumption ==
    /\ Patterns \subseteq Seq(Nat)
    /\ \A ranges \in RangesOf :
          ranges \in Seq(Seq(Bounds)) /\ \A r \in DOMAIN ranges : Len(ranges[r]) <= 2
    /\ Queries \subseteq [name : Seq(Nat) \ {<<>>}, version : {NoVersion} \cup Versions]
    /\ IsFiniteSet(Installed)

NoReport == [pkg \in Queries |-> {}]

(***************************************************************************)
(* Characters, by their codes.                                             *)
(***************************************************************************)
Asterisk == 42
Question == 63
Brace == 123
Globs == {Asterisk, Question, Brace}

Char(s, i) == IF i \in DOMAIN s THEN s[i] ELSE 0
strncmp(s, t, n) ==
    LET differ == {i \in 1..n : Char(s, i) # Char(t, i)}
    IN IF differ = {} THEN 0 ELSE Compare(Char(s, Min(differ)), Char(t, Min(differ)))

\* How much of the name a pattern may match, and with one more character.
Advance(reached, c, name) ==
    IF c = Asterisk THEN {k \in 0..Len(name) : \E j \in reached : j <= k}
    ELSE {k \in 1..Len(name) : k - 1 \in reached /\ c \in {Question, name[k]}}
fnmatch(pattern, name) ==
    LET matched[i \in 0..Len(pattern)] ==
            IF i = 0 THEN {0} ELSE Advance(matched[i - 1], pattern[i], name)
    IN  Len(name) \in matched[Len(pattern)]

-----------------------------------------------------------------------------
(***************************************************************************)
(* The parser.  Every list is built by prepending, so the element that is  *)
(* open is the first of its list.                                          *)
(***************************************************************************)
Ops == {"eq", "lt", "le", "gt", "ge"}
AnyVersion == [op |-> "any", version |-> <<>>]             \* no version: always matches
NewRange == [v1 |-> AnyVersion, v2 |-> AnyVersion]
NewPackage == [names |-> <<>>, versions |-> <<>>]
NoEntry == [vid |-> 0, packages |-> <<>>]
NewParser == [state |-> "INIT", range_num |-> 0, cur |-> NoEntry, entries |-> <<>>]

\* <<state, element, state inside the element>>
Nesting ==
    {<<"INIT", "vuln", "VULN">>, <<"VULN", "topic", "TOPIC">>,
     <<"VULN", "package", "PACKAGE">>, <<"VULN", "cvename", "CVE">>,
     <<"PACKAGE", "name", "PACKAGE_NAME">>, <<"PACKAGE", "range", "RANGE">>}
    \cup {<<"RANGE", op, op>> : op \in Ops}

InPackage(u, field, x) == [u EXCEPT !.cur.packages[1][field] = Cons(x, @)]

vulnxml_start_element(u, e) ==
    LET inside == {t \in Nesting : t[1] = u.state /\ t[2] = e.el}
        state == (CHOOSE t \in inside : TRUE)[3]
        v == [u EXCEPT !.state = state]
    IN IF inside = {} THEN u
       ELSE CASE state = "VULN"         -> [v EXCEPT !.cur = [NoEntry EXCEPT !.vid = e.vid]]
              [] state = "PACKAGE"      -> [v EXCEPT !.cur.packages = Cons(NewPackage, @)]
              [] state = "PACKAGE_NAME" -> InPackage(v, "names", <<>>)
              [] state = "RANGE"        -> [InPackage(v, "versions", NewRange)
                                              EXCEPT !.range_num = 0]
              [] state \in Ops          -> [v EXCEPT !.range_num = @ + 1]
              [] OTHER                  -> v

(***************************************************************************)
(* One entry for each name of each package, and one without a name that    *)
(* owns what they share.  An entry whose last package has no name is       *)
(* dropped with all its other packages.                                    *)
(***************************************************************************)
Refs(cur) ==
    FlattenSeq([p \in DOMAIN cur.packages |->
        [n \in DOMAIN cur.packages[p].names |->
            [vid |-> cur.vid, pkgname |-> cur.packages[p].names[n],
             versions |-> cur.packages[p].versions]]])

pkg_audit_expand_entry(cur, entries) ==
    IF cur.packages = <<>> \/ cur.packages[1].names = <<>> THEN entries
    ELSE Cons([vid |-> cur.vid, pkgname |-> <<>>, versions |-> <<>>],
                 Reverse(Refs(cur)) \o entries)

vulnxml_end_element(u, e) ==
    LET outside == {t \in Nesting : t[3] = u.state /\ t[2] = e.el}
        v == [u EXCEPT !.state = (CHOOSE t \in outside : TRUE)[1]]
    IN IF outside = {} THEN u
       ELSE IF e.el = "vuln"
            THEN [v EXCEPT !.entries = pkg_audit_expand_entry(u.cur, @)]
            ELSE v

(***************************************************************************)
(* Each piece of text replaces the one before.  The topic and the CVE      *)
(* names are only printed and are left out.                                *)
(***************************************************************************)
vulnxml_handle_data(u, e) ==
    CASE u.state = "PACKAGE_NAME" -> [u EXCEPT !.cur.packages[1].names[1] = e.text]
      [] u.state \in Ops /\ u.range_num = 1 ->
            [u EXCEPT !.cur.packages[1].versions[1].v1 = [op |-> u.state, version |-> e.text]]
      [] u.state \in Ops /\ u.range_num = 2 ->
            [u EXCEPT !.cur.packages[1].versions[1].v2 = [op |-> u.state, version |-> e.text]]
      [] OTHER -> u

Opening(el) == [t |-> "start", el |-> el, vid |-> 0, text |-> <<>>]
Closing(el) == [t |-> "end", el |-> el, vid |-> 0, text |-> <<>>]
Text(s)     == [t |-> "data", el |-> "none", vid |-> 0, text |-> s]

Event(u, e) ==
    CASE e.t = "start" -> vulnxml_start_element(u, e)
      [] e.t = "end"   -> vulnxml_end_element(u, e)
      [] e.t = "data"  -> vulnxml_handle_data(u, e)
Feed(u, events) ==
    LET fed[i \in 0..Len(events)] == IF i = 0 THEN u ELSE Event(fed[i - 1], events[i])
    IN  fed[Len(events)]

-----------------------------------------------------------------------------
(***************************************************************************)
(* The order of the entries and the jumps of the search.                   *)
(***************************************************************************)
pkg_audit_str_noglob_len(s) ==
    LET globs == {i \in DOMAIN s : s[i] \in Globs}
    IN IF globs = {} THEN Len(s) ELSE Min(globs) - 1

pkg_audit_entry_cmp(a, b) ==
    LET shorter == Min({a.noglob_len, b.noglob_len})
    IN First(<<strncmp(a.e.pkgname, b.e.pkgname, shorter), Compare(a.noglob_len, b.noglob_len)>>)

NewItem(e) == [e |-> e, noglob_len |-> pkg_audit_str_noglob_len(e.pkgname), next_pfx_incr |-> 1]

(***************************************************************************)
(* The entries with a name, in an order qsort may put them in: those that  *)
(* compare equal come in any.                                              *)
(***************************************************************************)
Sorted(entries) ==
    LET with == {i \in DOMAIN entries : entries[i].pkgname # <<>>}
        arranged == {[n \in DOMAIN p |-> NewItem(entries[p[n]])] :
                        p \in Surjection(1..Cardinality(with), with)}
    IN {s \in arranged : \A n \in 1..(Len(s) - 1) : pkg_audit_entry_cmp(s[n], s[n + 1]) <= 0}

(***************************************************************************)
(* The increments over a run of equal names, written when the run ends in  *)
(* a prefix of another length; the first run counts one too few, and a     *)
(* run that ends otherwise keeps its increments of 1.                      *)
(***************************************************************************)
Jumps(s, n, tofill) ==
    [i \in DOMAIN s |->
        IF tofill > 1 /\ i \in (n - tofill)..(n - 2)
        THEN [s[i] EXCEPT !.next_pfx_incr = n - i] ELSE s[i]]
SamePrefix(x, y) == x.noglob_len = y.noglob_len

RunEnds(acc, n) == [s |-> Jumps(acc.s, n, acc.tofill), tofill |-> 1]

\* Fault: a run goes on over another name with a prefix of the same length.
FillOverNames(s) ==
    LET FillOn(acc, n) ==
            IF ~SamePrefix(s[n - 1], s[n]) THEN RunEnds(acc, n)
            ELSE [s |-> acc.s, tofill |-> acc.tofill + 1]
        filled[n \in 1..Len(s)] ==
            IF n = 1 THEN [s |-> s, tofill |-> 0] ELSE FillOn(filled[n - 1], n)
    IN  IF s = <<>> THEN s ELSE filled[Len(s)].s

Fill(s, acc, n) ==
    IF ~SamePrefix(s[n - 1], s[n]) THEN RunEnds(acc, n)
    ELSE IF s[n - 1].e.pkgname = s[n].e.pkgname THEN [s |-> acc.s, tofill |-> acc.tofill + 1]
    ELSE [s |-> acc.s, tofill |-> 1]
FillIncrements(s) ==
    LET filled[n \in 1..Len(s)] ==
            IF n = 1 THEN [s |-> s, tofill |-> 0] ELSE Fill(s, filled[n - 1], n)
    IN  IF s = <<>> THEN s ELSE filled[Len(s)].s

pkg_audit_preprocess(entries) == {FillIncrements(s) : s \in Sorted(entries)}

(***************************************************************************)
(* audit_entry_first_byte_idx: the first entry that does not begin with a  *)
(* smaller character.                                                      *)
(***************************************************************************)
first_byte_idx(s, c) == Min({i \in DOMAIN s : s[i].e.pkgname[1] >= c} \cup {Len(s) + 1})

pkg_audit_version_match(version, v) ==
    LET cmp == pkg_version_cmp(version, v.version)
    IN \/ v.op = "any"
       \/ cmp = -1 /\ v.op \in {"lt", "le"}
       \/ cmp = 0 /\ v.op \in {"eq", "le", "ge"}
       \/ cmp = 1 /\ v.op \in {"gt", "ge"}

Hit(e, pkg) ==
    /\ fnmatch(e.pkgname, pkg.name)
    /\ \/ pkg.version = NoVersion
       \/ \E r \in DOMAIN e.versions :
             /\ pkg_audit_version_match(pkg.version, e.versions[r].v1)
             /\ pkg_audit_version_match(pkg.version, e.versions[r].v2)

(***************************************************************************)
(* The walk through the entries from index a on.  quiet stops at the first *)
(* hit.                                                                    *)
(***************************************************************************)
Prefixed(e, pkg) == strncmp(pkg.name, e.e.pkgname, e.noglob_len)
Hits(s, a, pkg) ==
    {i \in DOMAIN s : i >= a /\ i < a + s[a].next_pfx_incr /\ Hit(s[i].e, pkg)}
Found(s, hits, quiet, more) ==
    IF quiet /\ hits # {} THEN {s[Min(hits)].e.vid} ELSE {s[i].e.vid : i \in hits} \cup more
Look(s, a, pkg, quiet, cmp, more) ==
    CASE cmp < 0 -> {} [] cmp > 0 -> more [] cmp = 0 -> Found(s, Hits(s, a, pkg), quiet, more)

Search(s, a, pkg, quiet) ==
    LET found[x \in Nat \ {0}] ==
            IF x > Len(s) THEN {}
            ELSE Look(s, x, pkg, quiet, Prefixed(s[x], pkg), found[x + s[x].next_pfx_incr])
    IN  found[a]

pkg_audit_is_vulnerable(s, pkg, quiet) ==
    Search(s, first_byte_idx(s, pkg.name[1]), pkg, quiet)

-----------------------------------------------------------------------------
(***************************************************************************)
(* The command.                                                            *)
(***************************************************************************)
NoGraph == [p \in Installed |-> {}]
Idle ==
    /\ open = <<>> /\ doc = <<>> /\ ud = NewParser
    /\ items = <<>> /\ report = NoReport
NotListing == rdeps = NoGraph /\ stack = <<>> /\ seen = {} /\ listed = <<>>

(***************************************************************************)
(* A command with any file an earlier one has left, or one that has found  *)
(* a vulnerable package and is to list what depends on it.                 *)
(***************************************************************************)
CommandStarts ==
    /\ file = "none"
    /\ phase = "start"
    /\ Idle /\ NotListing
ListingStarts ==
    /\ file = "whole"
    /\ phase = "list"
    /\ Idle
    /\ rdeps \in [Installed -> SUBSET Installed]
    /\ \E p \in Installed : stack = <<[pkg |-> p, left |-> rdeps[p]]>>
    /\ seen = {} /\ listed = <<>>
AuditInit == CommandStarts \/ ListingStarts

Goto(p) == phase' = p /\ UNCHANGED <<docvars, findvars, listvars>>

(***************************************************************************)
(* pkg_audit_fetch: the server has a file newer than the one at dest, or   *)
(* not, whatever is in it; or the download fails.                          *)
(***************************************************************************)
FetchTmp ==
    /\ phase = "start"
    /\ UNCHANGED file
    /\ \/ file # "none" /\ Goto("load")
       \/ Goto("open")
       \/ Goto("end")

(***************************************************************************)
(* The old file is truncated before the new one is unpacked.               *)
(***************************************************************************)
OpenOut ==
    /\ phase = "open"
    /\ \/ file' = "empty" /\ Goto("extract")
       \/ UNCHANGED file /\ Goto("end")

(***************************************************************************)
(* An error while the data are read is reported, and lost: the fetch       *)
(* succeeds.  Only a stream that cannot be opened fails.                   *)
(***************************************************************************)
pkg_audit_sandboxed_extract ==
    /\ phase = "extract"
    /\ \/ file' \in {"empty", "cut", "whole"} /\ Goto("load")
       \/ UNCHANGED file /\ Goto("end")

CrashExtracting ==
    /\ phase = "extract"
    /\ file' \in {"empty", "cut"}
    /\ Goto("end")

(***************************************************************************)
(* pkg_audit_load, after a fetch or without one: an empty file cannot be   *)
(* mapped.                                                                 *)
(***************************************************************************)
pkg_audit_load ==
    /\ phase \in {"start", "load"}
    /\ UNCHANGED file
    /\ IF file \in {"none", "empty"} THEN Goto("end") ELSE Goto("parse")

-----------------------------------------------------------------------------
(***************************************************************************)
(* Reading the document: an element at a time.  The handlers run on what   *)
(* there is of a cut file, too, but their entries are never used: it is    *)
(* not read here.                                                          *)
(***************************************************************************)
Packages == UNION {{<<v, p>> : p \in DOMAIN doc[v]} : v \in DOMAIN doc}
Names == UNION {{<<p, n>> : n \in DOMAIN doc[p[1]][p[2]].names} : p \in Packages}
Here == Len(doc)
ThisPackage == Len(doc[Here])

InOnePiece ==
    \A v \in DOMAIN doc : \A p \in DOMAIN doc[v] : \A n \in DOMAIN doc[v][p].names :
        doc[v][p].names[n].pieces = 1

Read(events) ==
    /\ ud' = Feed(ud, events)
    /\ UNCHANGED <<file, phase, findvars, listvars>>

ReadVuln ==
    /\ phase = "parse" /\ file = "whole" /\ open = <<>> /\ Here < MaxVulns
    /\ Read(<<[Opening("vuln") EXCEPT !.vid = Here + 1],
              Opening("topic"), Text(<<>>), Closing("topic"), Opening("affects")>>)
    /\ open' = <<"vuln">>
    /\ doc' = Append(doc, <<>>)

ReadPackage ==
    /\ phase = "parse" /\ open = <<"vuln">> /\ Cardinality(Packages) < MaxPackages
    /\ Read(<<Opening("package")>>)
    /\ open' = <<"vuln", "package">>
    /\ doc' = [doc EXCEPT ![Here] = Append(@, [names |-> <<>>, ranges |-> <<>>])]

(***************************************************************************)
(* The text of a name comes in one piece or, with an entity or a line      *)
(* break in it, in several.  The names of a package come before its        *)
(* ranges.                                                                 *)
(***************************************************************************)
ReadName ==
    /\ phase = "parse" /\ open = <<"vuln", "package">> /\ Cardinality(Names) < MaxNames
    /\ doc[Here][ThisPackage].ranges = <<>>
    /\ \E p \in Patterns, cut \in {0, 1} :
          /\ cut = 1 => p \in Split
          /\ cut = 1 \/ ~InOnePiece => Cardinality(Names) < MaxSplit
          /\ LET text == IF cut = 0 THEN <<Text(p)>>
                         ELSE <<Text(SubSeq(p, 1, cut)), Text(From(p, cut + 1))>>
             IN Read(<<Opening("name")>> \o text \o <<Closing("name")>>)
          /\ doc' = [doc EXCEPT ![Here][ThisPackage].names =
                        Append(@, [name |-> p, pieces |-> cut + 1])]
    /\ UNCHANGED open

BoundEvents(b) == <<Opening(b.op), Text(b.version), Closing(b.op)>>
RangeEvents(r) ==
    <<Opening("range")>> \o FlattenSeq([b \in DOMAIN r |-> BoundEvents(r[b])]) \o <<Closing("range")>>
ReadRanges ==
    /\ phase = "parse" /\ open = <<"vuln", "package">>
    /\ doc[Here][ThisPackage].ranges = <<>>
    /\ \E ranges \in RangesOf :
          /\ Read(FlattenSeq([r \in DOMAIN ranges |-> RangeEvents(ranges[r])]))
          /\ doc' = [doc EXCEPT ![Here][ThisPackage].ranges = ranges]
    /\ UNCHANGED open

ReadEnd ==
    /\ phase = "parse" /\ open # <<>>
    /\ Read(IF Last(open) = "package" THEN <<Closing("package")>>
            ELSE <<Closing("affects"), Opening("references"), Opening("cvename"), Text(<<>>),
                   Closing("cvename"), Closing("references"), Closing("vuln")>>)
    /\ open' = Front(open)
    /\ UNCHANGED doc

(***************************************************************************)
(* pkg_audit_process: a document that ends too early is an error of        *)
(* XML_Parse.  The entries of a whole one are sorted; without any entry,   *)
(* the loop over the increments reads behind the array, and the command    *)
(* dies when it does not find zeros there.                                 *)
(***************************************************************************)
pkg_audit_process ==
    /\ phase = "parse"
    /\ \/ /\ file = "cut"
          /\ UNCHANGED file
          /\ Goto("end")
       \/ /\ file = "whole" /\ open = <<>>
          /\ items' \in pkg_audit_preprocess(ud.entries)
          /\ phase' \in IF ud.entries = <<>> THEN {"check", "end"} ELSE {"check"}
          /\ UNCHANGED <<file, docvars, report, listvars>>

(***************************************************************************)
(* exec_audit asks for each package of its list.                           *)
(***************************************************************************)
Check ==
    /\ phase = "check"
    /\ \E quiet \in BOOLEAN :
          /\ report' = [pkg \in Queries |-> pkg_audit_is_vulnerable(items, pkg, quiet)]
          /\ phase' = IF quiet THEN "toldbriefly" ELSE "told"
    /\ UNCHANGED <<file, docvars, items, listvars>>

(***************************************************************************)
(* pkg_audit_free, and the next command.                                   *)
(***************************************************************************)
pkg_audit_free ==
    /\ phase \in {"told", "toldbriefly", "end"} \/ (phase = "list" /\ stack = <<>>)
    /\ phase' = "start"
    /\ open' = <<>> /\ doc' = <<>> /\ ud' = NewParser
    /\ items' = <<>> /\ report' = NoReport
    /\ rdeps' = NoGraph /\ stack' = <<>> /\ seen' = {} /\ listed' = <<>>
    /\ UNCHANGED file

-----------------------------------------------------------------------------
(***************************************************************************)
(* print_recursive_rdeps: one step for a reverse dependency, one for the   *)
(* return to the caller.                                                   *)
(***************************************************************************)
Frame == Head(stack)
Passed(d) == [stack EXCEPT ![1].left = @ \ {d}]

Visit ==
    /\ phase = "list" /\ stack # <<>> /\ Frame.left # {}
    /\ \E d \in Frame.left :
          IF d \in seen
          THEN stack' = Passed(d) /\ UNCHANGED <<seen, listed>>
          ELSE /\ stack' = Cons([pkg |-> d, left |-> rdeps[d]], Passed(d))
               /\ seen' = seen \cup {d}
               /\ listed' = Append(listed, d)
    /\ UNCHANGED <<file, phase, docvars, findvars, rdeps>>

Return ==
    /\ phase = "list" /\ stack # <<>> /\ Frame.left = {}
    /\ stack' = Tail(stack)
    /\ UNCHANGED <<file, phase, docvars, findvars, rdeps, seen, listed>>

AuditNext ==
    \/ FetchTmp \/ OpenOut \/ pkg_audit_sandboxed_extract \/ CrashExtracting
    \/ pkg_audit_load
    \/ ReadVuln \/ ReadPackage \/ ReadName \/ ReadRanges \/ ReadEnd
    \/ pkg_audit_process \/ Check \/ pkg_audit_free
    \/ Visit \/ Return

AuditSpec == AuditInit /\ [][AuditNext]_auditvars

-----------------------------------------------------------------------------
(***************************************************************************)
(* What the document says, without any of the machinery above.             *)
(***************************************************************************)
Within(version, b) ==
    LET cmp == pkg_version_cmp(version, b.version)
    IN CASE b.op = "lt" -> cmp < 0 [] b.op = "le" -> cmp <= 0 [] b.op = "eq" -> cmp = 0
         [] b.op = "ge" -> cmp >= 0 [] b.op = "gt" -> cmp > 0
Covers(p, n, pkg) ==
    /\ fnmatch(p.names[n].name, pkg.name)
    /\ \/ pkg.version = NoVersion
       \/ \E r \in DOMAIN p.ranges :
             \A b \in DOMAIN p.ranges[r] : Within(pkg.version, p.ranges[r][b])
Vulns(pkg, Usable(_, _)) ==
    {v \in DOMAIN doc : \E p \in DOMAIN doc[v] : \E n \in DOMAIN doc[v][p].names :
        Usable(v, doc[v][p].names[n]) /\ Covers(doc[v][p], n, pkg)}

(***************************************************************************)
(* What the code makes use of: not a name that begins with a glob below    *)
(* the letters, nor an entry whose last package has no name.               *)
(***************************************************************************)
Used(v, n) == n.name[1] \notin {Asterisk, Question} /\ Last(doc[v]).names # <<>>
Everything(v, n) == TRUE
Reaches(p, q) ==
    \A S \in SUBSET Installed : rdeps[p] \subseteq S /\ (\A x \in S : rdeps[x] \subseteq S) => q \in S
DependentsExact ==
    /\ Len(stack) <= Cardinality(Installed) + 1
    /\ IsInjective(listed)
    /\ phase = "list" /\ stack # <<>> => \A q \in ToSet(listed) : Reaches(stack[Len(stack)].pkg, q)
    /\ phase = "list" /\ Len(stack) = 1 /\ Frame.left = {} =>
          \A q \in Installed : Reaches(Frame.pkg, q) => q \in ToSet(listed)

(***************************************************************************)
(* What pkg audit says of a package is what the document says: it reports  *)
(* no entry that does not affect the package and misses none it makes use  *)
(* of, whatever the order qsort gives to equal prefixes, the jumps of the  *)
(* search and the number of packages, names and ranges.  And it says       *)
(* nothing at all from a file of which a part is missing.  With -r it      *)
(* lists every package that depends on the vulnerable one, directly or     *)
(* not, once each, and gets to the end whatever cycles the dependencies    *)
(* have: the recursion is never deeper than the packages.                  *)
(***************************************************************************)
VerdictExact ==
    /\ DependentsExact
    /\ phase \in {"told", "toldbriefly"} =>
        /\ file = "whole" /\ open = <<>>
        /\ InOnePiece =>
              \A pkg \in Queries :
                  /\ report[pkg] \subseteq Vulns(pkg, Everything)
                  /\ IF phase = "told" THEN Vulns(pkg, Used) \subseteq report[pkg]
                     ELSE Vulns(pkg, Used) # {} => report[pkg] # {}

=============================================================================
