----------------------------- MODULE MCChannels -----------------------------
(***************************************************************************)
(* Channels for TLC: two requests, two listens, two lines.                 *)
(***************************************************************************)
EXTENDS Channels, TLC

CONSTANTS l1, l2, a, b

\* Both listens are one client's, at its cap.
AsksOf == l1 :> a @@ l2 :> a
=============================================================================
