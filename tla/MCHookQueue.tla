---------------------------- MODULE MCHookQueue ----------------------------
EXTENDS HookQueue, TLC
CONSTANTS k, e, q
OneOfEach == k :> "key" @@ e :> "event" @@ q :> "quit"
=============================================================================
