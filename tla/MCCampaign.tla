----------------------------- MODULE MCCampaign -----------------------------
EXTENDS Campaign
MCStrategies == <<"independent", "ca_ztcf">>
MCSeeds == <<1>>
MCFairSpec == CampaignSpec /\ CampaignFairness
=============================================================================
