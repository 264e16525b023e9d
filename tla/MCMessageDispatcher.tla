------------------------ MODULE MCMessageDispatcher ------------------------
(* Instances of MessageDispatcher for TLC: two streams of two files.      *)
EXTENDS MessageDispatcher, TLC

CONSTANTS s1, s2, a, b

TwoFiles == (s1 :> a @@ s2 :> b)
OneEach == (s1 :> <<2>> @@ s2 :> <<1>>)
=============================================================================
