------------------------------ MODULE MC_Transport ------------------------------
(* Instances of Transport for TLC; the other values are in the .cfg files. *)
EXTENDS Transport
MCProviders == <<"openai", "anthropic">>
MCAnthropic == <<"anthropic", "anthropic">>
================================================================================
