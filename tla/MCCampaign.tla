----------------------------- MODULE MCCampaign -----------------------------
(* Bounded instance of Campaign: one fixture in two rounds. *)
EXTENDS Campaign

MCFixtures == <<"fixture-001">>

=============================================================================
