------------------------- MODULE MCConfigurationTopic -------------------------
(* A number and a configuration over the topic, with two clients, payloads *)
(* for each outcome of the handler, and any order of losses.               *)
EXTENDS ConfigurationTopic, TLC

Symmetry == Permutations(Clients)
===============================================================================
