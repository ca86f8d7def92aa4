----------------------------- MODULE MCAskGraph -----------------------------
(***************************************************************************)
(* AskGraph as deployed: every kind of request and every setting.          *)
(***************************************************************************)
EXTENDS AskGraph
=============================================================================
