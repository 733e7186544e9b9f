-------------------------- MODULE MCProviderConfig ---------------------------
(***************************************************************************)
(* One instance of the server and one provider, for the run about what a   *)
(* refresh brings to the gateway.                                          *)
(***************************************************************************)
EXTENDS ProviderConfig

MCInstances == {"i1"}
MCKeyOf     == [i \in MCInstances |-> "k1"]
MCOrder     == <<"deepseek">>
MCLabel     == [n \in {"deepseek"} |-> n]
=============================================================================
