--------------------------- MODULE MCBrainBackends ----------------------------
(***************************************************************************)
(* Small instances of BrainBackends for TLC: three names, the last in       *)
(* lower case, and texts that mention none, one or two of them.             *)
(***************************************************************************)
EXTENDS BrainBackends

Says(aliases, introduced) == [aliases |-> aliases, introduced |-> introduced]

\* "i am" before a capitalised canonical name is no evidence, before the
\* lower-case one it is.
MCUtterance == {Says({}, {1}), Says({}, {3}), Says({1}, {1}), Says({1, 2}, {})}

=============================================================================
