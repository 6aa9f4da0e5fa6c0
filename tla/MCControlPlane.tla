---------------------------- MODULE MCControlPlane ----------------------------
(* Small instances of ControlPlane.                                            *)
EXTENDS ControlPlane

\* One switch: a single value restricts.
MCLimits == [s \in Settings |-> {"on"}]
SwitchOrder == <<"downloads">>
===============================================================================
