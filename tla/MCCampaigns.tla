----------------------------- MODULE MCCampaigns -----------------------------
EXTENDS Campaigns, TLC
CONSTANTS p1, u1, u2, e1
=============================================================================
