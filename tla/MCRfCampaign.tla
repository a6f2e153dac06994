----------------------------- MODULE MCRfCampaign -----------------------------
(* RfCampaign on the instance of MCRfInjector.                              *)
EXTENDS MCRfInjector, RfCampaign
=============================================================================
