--------------------------- MODULE MCRunnerValues ---------------------------
(***************************************************************************)
(* Instances of RunnerValues for TLC.                                      *)
(***************************************************************************)
EXTENDS RunnerValues

OneOption == {"image"}

MCStrings == {"a", "b"}

Opt(s) == [o \in OneOption |-> s]

Cfg(min, max, s) == [min |-> min, max |-> max, opt |-> Opt(s)]

\* Two sets of defaults that differ in everything, one with a maximum of 0.
TwoConfigs == {Cfg(1, 2, "a"), Cfg(0, 0, "b")}

Body(url, label, min, max, s) ==
    [url |-> url, label |-> label, min |-> min, max |-> max, opt |-> Opt(s)]

\* Everything supplied, two ways; the least a create needs; nothing at all.
SomeBodies ==
    {Body("a", "b", 1, 2, "a"), Body("b", "a", 2, 1, "b"),
     Body("a", None, 0, 0, None), Body(None, None, 0, 0, None)}

=============================================================================
