---------------------------- MODULE MCDispatcher ----------------------------
(* Small instances of the dispatcher for TLC.                              *)
EXTENDS Dispatcher, TLC

CONSTANTS a, b

MCKey == {a, b}
MCSymmetry == Permutations(MCKey)

(* An empty batch, a good one, and one each with a repeated and an empty id. *)
MCBatches == {<<>>, <<"c1", "c2", "c3">>, <<"c1", "c1">>, <<"c1", "">>}
MCTriple == {<<"c1", "c2", "c3">>}
MCIds == {"", "c1", "c2", "c3"}

MCLiveClasses == {Parallel, Serial, Keys({a})}
MCAllClasses == {Parallel, Serial, Keys({a}), Keys({b}), Keys({a, b})}
=============================================================================
