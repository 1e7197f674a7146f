----------------------------- MODULE MC_Session -----------------------------
(* Security options of the ends: none; one mechanism (and a routing id);   *)
(* two of them; two of them, the first choice without its keys.            *)
EXTENDS Session

Cfg(use, keys, id) == [use |-> use, keys |-> keys, id |-> id]

MC_Configs == {
    Cfg({}, {}, FALSE),
    Cfg({"CURVE"}, {"CURVE"}, TRUE),
    Cfg({"PLAIN", "NOISE_XX"}, {"NOISE_XX"}, FALSE),
    Cfg({"PLAIN", "NOISE_XX"}, {}, FALSE)}
=============================================================================
