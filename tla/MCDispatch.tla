------------------------------ MODULE MCDispatch ------------------------------
(***************************************************************************)
(* Values for the constants of Dispatch: two plugins, a method that all    *)
(* serve and one that only the second plugin serves, and an error whose    *)
(* text is that of another.                                                *)
(***************************************************************************)
EXTENDS Dispatch, TLC

CONSTANTS p1, p2, ping, echo

TwoPlugins == {p1, p2}
TwoMethods == {ping, echo}
HostServes == {ping}
PluginServes == p1 :> {ping} @@ p2 :> {ping, echo}
SomeTexts == {"spawn_error", "ParseError"}
=============================================================================
