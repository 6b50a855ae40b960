------------------------------ MODULE KVCallsMC ------------------------------
(* Two goroutines and every order of two hooks that matters to the others.   *)
EXTENDS KVCalls

SomeHookLists ==
    {<<"retry", "plugin">>, <<"list", "cache", "silent", "plugin">>}
=============================================================================
