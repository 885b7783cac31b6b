------------------------------ MODULE MCCUtils ------------------------------
(***************************************************************************)
(* The utilities of c-utils, each on a small instance of its own.          *)
(***************************************************************************)
EXTENDS CUtils, TLC

CONSTANTS t1, t2, p1, p2, f1, o1, r1, r2

MCThread == {t1, t2}

MCPoint == {p1, p2}
\* Hits before, in and after the window.
MCFaultSpecs == {p1 :> [type |-> "once", start |-> 1, end |-> 0]
                 @@ p2 :> [type |-> other, start |-> 2, end |-> 2] : other \in {"repeat", "skip"}}

\* Tags of two submodules.
MCFnTag == {2, 1026}

MCStarter == {t1}
MCFid == {f1}
MCObj == {o1}
\* Keys before, with and after the prefix.
MCMotrKey == 1..4
MCMotrPrefix == {2, 3}

\* "/fs/x" lies under both controllers; one method is served by neither.
MCRequest == {r1, r2}
MCControllers == <<"/fs/x", "/fs">>
MCMatches == "/fs/x" :> {"/fs", "/fs/x"} @@ "/fs" :> {"/fs"} @@ "/" :> {}
MCApis == {<<"/fs", "PUT">>, <<"/fs/x", "GET">>}
=============================================================================
