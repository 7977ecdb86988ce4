------------------------------ MODULE MCNamespace ------------------------------
(* Paths for TLC: nested targets, a path that only looks like one below    *)
(* /tmp, a missing one and a relative one.                                 *)
EXTENDS Namespace

data    == <<"/", "tmp", "/", "data">>
private == <<"/", "private">>
inner   == <<"/", "private", "/", "inner">>
missing == <<"/", "missing">>

MCSource     == {data, private, missing}
MCTarget     == {private, inner, Tmp, <<"private">>}
MCQuery      == {<<"/", "tmp", "x">>, inner \o <<"/", "f">>, data \o <<"/", "f">>}
MCAbyssPaths == {Root, private, inner}
================================================================================
