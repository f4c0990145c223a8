--------------------------- MODULE MCEgressProxy ---------------------------
(* A small instance of EgressProxy for TLC. *)
EXTENDS EgressProxy

Apex == <<"npmjs", "org">>
Below == <<"registry", "npmjs", "org">>
NamesApex == {Line("name", Host("name", Apex, 0))}
WildApex == {Line("wild", Host("name", Apex, 1))}
HasStar == {Line("name", Host("name", Below, 0)), Line("star", Host("name", <<>>, 0))}

MCFiles == {NamesApex, WildApex, HasStar}
MCHosts == {Host("name", Apex, 1), Host("name", Below, 0), Host("ip", Apex, 0), Host("junk", Apex, 0)}
MCMissing == {Line("missing", Host("junk", <<>>, 0))}
=============================================================================
