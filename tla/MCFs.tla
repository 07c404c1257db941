-------------------------------- MODULE MCFs ---------------------------------
(***************************************************************************)
(* An instance of Fs for TLC.                                              *)
(***************************************************************************)
EXTENDS Fs

TwoFiles == <<[name |-> "a", size |-> 5], [name |-> "b", size |-> 0]>>
SomePaths == {<<"a">>, <<"c">>, <<"b", "a">>, <<"long">>}
SomeSpans == {[offset |-> 1, count |-> 4]}

=============================================================================
