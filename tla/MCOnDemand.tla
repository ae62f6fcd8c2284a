------------------------------- MODULE MCOnDemand -------------------------------
(* A small instance of OnDemand: the Edge Functions of one environment.          *)
EXTENDS OnDemand

MCFunctions == <<"functions">>
================================================================================
