-------------------------- MODULE MCProtocolHandler --------------------------
(* Instances of ProtocolHandler for TLC: long and other take several frames*)
(* and have the same id in different sessions, data is one frame of a raw  *)
(* service and ack a control frame.                                        *)
EXTENDS ProtocolHandler, TLC

CONSTANTS long, other, data, ack

Of(l, o, d, a) ==
  Restrict((long :> l @@ other :> o @@ data :> d @@ ack :> a), Messages)

MCSession == Of(1, 2, 2, 2)
MCId      == Of(1, 1, 2, 3)
MCKind    == Of("rpc", "rpc", "raw", "control")
MCJson    == Of(1, 1, 0, 0)
MCBin     == Of(3, 1, 2, 1)
=============================================================================
