----------------------------- MODULE MCPkgFetch -----------------------------
(* Instances of PkgFetch for TLC.                                          *)
EXTENDS PkgFetch

CONSTANTS a, b, d, e, p1, p2

MCSizeOf == a :> 2 @@ b :> 1 @@ d :> 1 @@ e :> 1
Both == {<<a, b>>, <<d, e>>}

\* Two commands share the cache of a plain repository and of one that is
\* mirrored; one command alone meets the ssh session and the lists of mirrors.
Conf(scheme, type, mirror, retry, users, programs) ==
    [scheme |-> scheme, mirror_type |-> type, mirror |-> mirror, FETCH_RETRY |-> retry,
     users |-> users, programs |-> programs]
MCConfs ==
    {Conf("ssh", "NOMIRROR", FALSE, 3, {p1}, Both),
     Conf("http", "SRV", FALSE, 3, {p1}, {<<d, e>>}),
     Conf("http", "HTTP", FALSE, 3, {p1}, {<<d, e>>}),
     Conf("http", "NOMIRROR", FALSE, 1, {p1, p2}, {<<a>>}),
     Conf("file", "NOMIRROR", TRUE, 0, {p1}, Both),
     Conf("file", "NOMIRROR", FALSE, 3, {p1}, Both)}

Srv(p, w) == [priority |-> p, weight |-> w]
\* Two priorities, the lower one weighed; a weight of zero, on which the
\* modulo traps; two small weights, which draw the same number.
MCZones ==
    {<<Srv(20, 1), Srv(10, 1), Srv(10, 1)>>, <<Srv(10, 0), Srv(10, 1), Srv(20, 1)>>,
     <<Srv(10, 1), Srv(10, 98), Srv(10, 1), Srv(20, 1)>>}
=============================================================================
