---------------------------- MODULE MCCampaign ----------------------------
(* Model-checking instance of Campaign: three initial workers and a       *)
(* restart budget of two, so that replacements crash again and the bound  *)
(* trips with several crashed workers pending.                            *)
EXTENDS Campaign

MCWorkerCnt == 3
MCMaxRestartCnt == 2
=============================================================================
