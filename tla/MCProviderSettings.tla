-------------------------- MODULE MCProviderSettings --------------------------
(* Instances of ProviderSettings for TLC: what the form may save, and how the *)
(* Worker may be deployed.                                                  *)
EXTENDS ProviderSettings, TLC

CONSTANT k1

MCAdds == {[kind |-> "openai_compatible", key |-> k1, enabled |-> "on"]}

\* A key for whatever the provider is, or the free service instead.
MCEdits == {[kind |-> "openai_compatible", key |-> k1, enabled |-> "on"],
            [kind |-> "siliconflow_free", key |-> "keep", enabled |-> "on"]}

\* The free service first, then a provider with a key.
MCStarts ==
    {[i \in Ids |->
        IF i = 1 THEN [kind |-> "siliconflow_free", key |-> None, priority |-> 1,
                       enabled |-> "on", copy |-> FALSE]
        ELSE IF i = 2 THEN [kind |-> "openai_compatible", key |-> k1, priority |-> 2,
                            enabled |-> "on", copy |-> FALSE]
        ELSE None]}

Interchangeable == Permutations(Calls)

\* As in production, with the keys missing, native only, and off.
MCConfigs ==
    LET On == [enabled |-> TRUE, source |-> "openai_compatible", endpoint |-> TRUE,
               keys |-> 2, secret |-> TRUE] IN
    {On, [On EXCEPT !.keys = 0], [On EXCEPT !.source = "siliconflow_free"],
     [On EXCEPT !.enabled = FALSE]}

=============================================================================
