----------------------------- MODULE PkgVersion -----------------------------
(***************************************************************************)
(* The comparison of package versions (libpkg/pkg_version.c), on which     *)
(* upgrades, audits and pkg version rest.                                  *)
(*                                                                         *)
(* A version is a sequence of tokens: a run of digits, a run of letters    *)
(* (the stages pl, alpha, beta, pre and rc apart from every other word,    *)
(* which counts by its first letter only), and the characters that mean    *)
(* something.  The numbers are small: the saturation of strtoll is left    *)
(* out.  Two versions grow token by token, so that every pair up to        *)
(* the bounds is compared, as pkg version -t does with its arguments.      *)
(***************************************************************************)
EXTENDS Integers, Sequences, FiniteSetsExt, SequencesExt

CONSTANTS
    Tokens,                       \* the tokens the grown versions are made of
    MaxFirst, MaxSecond           \* bounds on the tokens of the grown versions

Separators == {"dot", "underscore", "comma", "dash"}
TokenKinds == {"num", "word", "stage", "star", "plus"} \cup Separators
Versions == Seq([k : TokenKinds, v : Nat])

ASSUME TokensAssumption == Tokens \subseteq [k : TokenKinds, v : Nat]

Num(n)   == [k |-> "num", v |-> n]
Word(a)  == [k |-> "word", v |-> a]           \* a: 1 for 'a', 2 for 'b', ...
Stage(a) == [k |-> "stage", v |-> a]
Sign(k)  == [k |-> k, v |-> 0]

Pl == Stage(0)
Alpha == Stage(1)
Beta == Stage(2)
Rc == Stage(18)
Dot == Sign("dot")
Plus == Sign("plus")
Star == Sign("star")
Underscore == Sign("underscore")
Comma == Sign("comma")
Dash == Sign("dash")

Is(s, kinds) == s # <<>> /\ Head(s).k \in kinds

-----------------------------------------------------------------------------
(***************************************************************************)
(* strtoul at the beginning of what is left: 0 when there is no number.    *)
(***************************************************************************)
NumberAt(s) == IF Is(s, {"num"}) THEN Head(s).v ELSE 0

LastOf(s, k, from) == Max({0} \cup {i \in DOMAIN s : i > from /\ s[i].k = k})
From(s, i) == SubSeq(s, i, Len(s))

(***************************************************************************)
(* NAME-VERSION_REVISION,EPOCH.  The epoch is looked for behind the last   *)
(* underscore only, when there is one.                                     *)
(***************************************************************************)
SplitAt(version, under, comma) ==
    [body     |-> SubSeq(version, 1,
                         (IF under # 0 THEN under
                          ELSE IF comma # 0 THEN comma ELSE Len(version) + 1) - 1),
     revision |-> IF under = 0 THEN 0 ELSE NumberAt(From(version, under + 1)),
     epoch    |-> IF comma = 0 THEN 0 ELSE NumberAt(From(version, comma + 1))]
SplitEpoch(version, under) == SplitAt(version, under, LastOf(version, "comma", under))
SplitRevision(version) == SplitEpoch(version, LastOf(version, "underscore", 0))
split_version(pkgname) == SplitRevision(From(pkgname, LastOf(pkgname, "dash", 0) + 1))

(***************************************************************************)
(* The next component, a number, a letter and a patch level, and what is   *)
(* behind it and its separators.  A star swallows everything up to the     *)
(* next plus; a stage behind a number starts a component of its own.       *)
(***************************************************************************)
FromFirst(s, kinds) ==
    From(s, Min({i \in DOMAIN s : s[i].k \in kinds} \cup {Len(s) + 1}))
SkipSeparators(s) == FromFirst(s, TokenKinds \ Separators)
UpToPlus(s) == FromFirst(s, {"plus"})

Component(n, a, pl, s) == [n |-> n, a |-> a, pl |-> pl, rest |-> SkipSeparators(s)]
WithPatch(n, a, s) ==
    IF Is(s, {"num"}) THEN Component(n, a, Head(s).v, Tail(s)) ELSE Component(n, a, -1, s)
WithLetter(n, s) ==
    IF Is(s, {"word"}) \/ (Is(s, {"stage"}) /\ n = -1)
    THEN WithPatch(n, Head(s).v, Tail(s)) ELSE Component(n, 0, 0, s)
get_component(s) ==
    CASE Is(s, {"num"})  -> WithLetter(Head(s).v, Tail(s))
      [] Is(s, {"star"}) -> WithLetter(-2, UpToPlus(Tail(s)))
      [] OTHER           -> WithLetter(-1, s)

Compare(x, y) == IF x < y THEN -1 ELSE IF x > y THEN 1 ELSE 0
First(results) == IF \A i \in DOMAIN results : results[i] = 0 THEN 0
                  ELSE results[Min({i \in DOMAIN results : results[i] # 0})]

(***************************************************************************)
(* The loop over the components.  A version that is at its end or at a     *)
(* plus is blocked and counts as zeros until the other one is, too.        *)
(***************************************************************************)
Blocked(s) == s = <<>> \/ Is(s, {"plus"})
Zeros(s) == [n |-> 0, a |-> 0, pl |-> 0, rest |-> s]
NextComponent(s) == IF Blocked(s) THEN Zeros(s) ELSE get_component(s)
PastPlus(s) == IF s = <<>> THEN s ELSE Tail(s)
CompareComponents(c1, c2) ==
    First(<<Compare(c1.n, c2.n), Compare(c1.a, c2.a), Compare(c1.pl, c2.pl)>>)

Difference(v) == CompareComponents(NextComponent(v[1]), NextComponent(v[2]))
Turn(v) ==
    IF Blocked(v[1]) /\ Blocked(v[2]) THEN <<PastPlus(v[1]), PastPlus(v[2])>>
    ELSE <<NextComponent(v[1]).rest, NextComponent(v[2]).rest>>

\* Fault: the loop ends with the shorter of the two versions.
ComponentsOfShorter(v1, v2) ==
    LET compared[v \in Versions \X Versions] ==
            IF v[1] = <<>> \/ v[2] = <<>> THEN 0
            ELSE IF Difference(v) # 0 THEN Difference(v) ELSE compared[Turn(v)]
    IN  compared[<<v1, v2>>]

Components(v1, v2) ==
    LET compared[v \in Versions \X Versions] ==
            IF v[1] = <<>> /\ v[2] = <<>> THEN 0
            ELSE IF Difference(v) # 0 THEN Difference(v) ELSE compared[Turn(v)]
    IN  compared[<<v1, v2>>]

CompareSplit(s1, s2) ==
    First(<<Compare(s1.epoch, s2.epoch),
            IF s1.body = s2.body THEN 0 ELSE Components(s1.body, s2.body),
            Compare(s1.revision, s2.revision)>>)
pkg_version_cmp(pkg1, pkg2) == CompareSplit(split_version(pkg1), split_version(pkg2))

ChangeFor(order) ==
    CASE order = -1 -> "upgrade" [] order = 0 -> "reinstall" [] order = 1 -> "downgrade"
pkg_version_change(old, new) == ChangeFor(pkg_version_cmp(old, new))

-----------------------------------------------------------------------------
(***************************************************************************)
(* Two versions, grown from nothing, and what pkg version -t says of them. *)
(***************************************************************************)
VARIABLES first, second, told
versionvars == <<first, second, told>>

(***************************************************************************)
(* A run of digits, or of letters, is one token.                           *)
(***************************************************************************)
Follows(s, t) ==
    s # <<>> => ~\E kinds \in {{"num"}, {"word", "stage"}} : {Last(s).k, t.k} \subseteq kinds

VersionInit == first = <<>> /\ second = <<>> /\ told = "reinstall"

Grow ==
    \/ /\ Len(first) < MaxFirst /\ second = <<>>
       /\ \E t \in Tokens : Follows(first, t) /\ first' = Append(first, t)
       /\ UNCHANGED second
    \/ /\ Len(second) < MaxSecond
       /\ \E t \in Tokens : Follows(second, t) /\ second' = Append(second, t)
       /\ UNCHANGED first

do_testversion ==
    /\ Grow
    /\ told' = pkg_version_change(first', second')

VersionSpec == VersionInit /\ [][do_testversion]_versionvars

(***************************************************************************)
(* The versions the comments of pkg_version.c compare.                     *)
(***************************************************************************)
Landmarks ==
    {<<Num(10)>>, <<Num(10), Word(1)>>, <<Num(10), Dot, Word(1)>>, <<Pl, Num(11)>>,
     <<Num(0), Dot, Num(1)>>, <<Num(0), Dot, Num(1), Beta, Num(2)>>,
     <<Num(2), Dot, Star>>, <<Num(2), Pl, Num(1)>>, <<Num(1), Dot, Num(0), Dot, Num(1)>>,
     <<Num(1), Plus, Num(1)>>, <<Num(1), Underscore, Num(1)>>, <<Num(1), Comma, Num(1)>>}

Plain(s) == s # <<>> /\ \A i \in DOMAIN s : s[i].k \in {"num", "word", "stage", "dot"}

Opposite(change) ==
    CASE change = "upgrade" -> "downgrade" [] change = "downgrade" -> "upgrade" [] OTHER -> change

(***************************************************************************)
(* pkg_version_cmp is a total order on versions up to equality: turning    *)
(* the arguments round turns the answer round, and no version lies on      *)
(* both sides of two others.  Without it, an upgrade in one repository is  *)
(* undone by the next and jobs are planned for ever.  And it is the order  *)
(* that the comments of get_component and pkg_version_cmp describe: a      *)
(* missing component is zero, a star is the smallest component, a stage    *)
(* comes before the release it leads to, the epoch supersedes the version  *)
(* and the version the revision.                                           *)
(***************************************************************************)
VersionOrder ==
    /\ first # second =>
          /\ told = Opposite(pkg_version_change(second, first))
          /\ told # "upgrade" => \A w \in Landmarks :
                pkg_version_cmp(first, w) <= 0 /\ pkg_version_cmp(w, second) <= 0
                => told = "reinstall" /\ pkg_version_cmp(first, w) = 0
    /\ Plain(first) /\ second = <<>> =>
          /\ pkg_version_cmp(first, first \o <<Dot, Num(0)>>) = 0
          /\ pkg_version_cmp(first, first \o <<Dot, Rc>>) = 1
    /\ Plain(first) /\ (\A i \in DOMAIN second : second[i].k \notin {"plus", "dash"}) =>
          pkg_version_cmp(first \o <<Dot, Star>>, first \o <<Dot>> \o second) <= 0
    /\ Plain(first) /\ Plain(second) =>
          /\ pkg_version_cmp(first, second \o <<Comma, Num(1)>>) = -1
          /\ told = "upgrade" => pkg_version_cmp(first \o <<Underscore, Num(1)>>, second) = -1
=============================================================================
