-------------------------- MODULE MCAutomaticWebhook --------------------------
(***************************************************************************)
(* Values of the constants of AutomaticWebhook for TLC.                    *)
(***************************************************************************)
EXTENDS AutomaticWebhook, TLC

CONSTANTS r1, r2,   \* runs
          u1, u2,   \* receiver URLs
          e1, e2,   \* ensure requests that want different URLs for one kind
          gate,     \* an observation gated on the URL of e1
          look,     \* an observation that expects nothing
          bad       \* a request whose input is refused

TwoRuns == {r1, r2}

KindOf == e1 :> "rec" @@ e2 :> "rec" @@ gate :> "rec" @@ look :> "cobr" @@ bad :> "none"
WantedOf == e1 :> u1 @@ e2 :> u2 @@ gate :> u1 @@ look :> Ungated @@ bad :> u1
===============================================================================
