--------------------------- MODULE MessageChannel ---------------------------
(***************************************************************************)
(* What a transport of ATF promises its users: at each of its ends the     *)
(* messages that went in come out once each, unchanged and in the order    *)
(* they went in.  Both directions are shown to implement this module: the  *)
(* queue of frames of MessageDispatcher on the way to SDL, the reassembly  *)
(* of ProtocolHandler on the way back.                                     *)
(***************************************************************************)
EXTENDS Sequences, SequencesExt

CONSTANT Ends   \* the channels, each with an order of its own

VARIABLES
  sent,   \* sent[e]: the messages that went in, in their order
  got     \* got[e]: the messages that came out, in their order

Init == sent = [e \in Ends |-> <<>>] /\ got = [e \in Ends |-> <<>>]

(* More messages go in, and some of those that are inside come out.        *)
Transfer ==
  \A e \in Ends :
    /\ IsPrefix(sent[e], sent'[e])
    /\ IsPrefix(got[e], got'[e])
    /\ IsPrefix(got'[e], sent'[e])

Spec == Init /\ [][Transfer]_<<sent, got>>
=============================================================================
