------------------------------ MODULE MCAudit ------------------------------
(***************************************************************************)
(* pkg version -t on versions that grow, and pkg audit on documents that   *)
(* grow.  They share the comparison and no state, so a behaviour is about  *)
(* one of them.                                                            *)
(***************************************************************************)
EXTENDS PkgAudit

MCTokens == {Num(0), Num(1), Word(1), Pl, Rc, Dot, Plus, Star, Underscore, Comma}
a == 97
b == 98
MCPatterns == {<<b, a>>, <<b, b>>, <<b, b, a, Asterisk>>, <<Asterisk, a>>}
MCSplit == {<<b, b, a, Asterisk>>}
One == <<Num(1)>>
OneRevised == <<Num(1), Underscore, Num(1)>>
Two == <<Num(2), Dot, Num(0)>>
Bound(op, v) == [op |-> op, version |-> v]
MCRanges == {<<<<Bound("gt", One), Bound("lt", Two)>>, <<Bound("ge", Two), Bound("eq", Two)>>>>}
Pkg(name, version) == [name |-> name, version |-> version]
MCQueries ==
    {Pkg(<<b, a>>, One), Pkg(<<b, a>>, NoVersion), Pkg(<<b, b>>, OneRevised),
     Pkg(<<b, b, a>>, OneRevised), Pkg(<<b, b, a>>, Two)}

MCInit == (VersionInit /\ CommandStarts) \/ (VersionInit /\ ListingStarts)
MCNext ==
    \/ do_testversion /\ phase = "start" /\ file = "none" /\ UNCHANGED auditvars
    \/ AuditNext /\ first = <<>> /\ second = <<>> /\ UNCHANGED versionvars
MCSpec == MCInit /\ [][MCNext]_<<auditvars, versionvars>>

=============================================================================
