--------------------------- MODULE MCControlTunnel ---------------------------
(***************************************************************************)
(* Instances of ControlTunnel for TLC.                                     *)
(***************************************************************************)
EXTENDS ControlTunnelInvariant, TLC

CONSTANTS page, stop    \* two requests

(* A page reads an event stream or a large response; the other request is  *)
(* small.                                                                  *)
MCKindOf == (page :> {"event_stream", "large"}) @@ (stop :> {"small"})

(* Two deletions, say.                                                    *)
MCSmall == [r \in {page, stop} |-> {"small"}]
=============================================================================
