--------------------------- MODULE MCIdentityStore ---------------------------
(* Instances of IdentityStore for TLC.                                      *)
EXTENDS IdentityStore

FlatNames == {<<"a">>, <<"New Identity">>}
SomeNames == {<<"New Identity">>, <<"New Identity", "b">>, <<"a">>}
NewIdentity == <<"New Identity">>

(* Whatever it is.                                                          *)
SomethingBehind == [p \in {22} |-> <<"?">>]
=============================================================================
