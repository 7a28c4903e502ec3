--------------------------- MODULE MCConfigManager ---------------------------
(* Instance of ConfigManager for TLC: besides the defaults one valid         *)
(* configuration and one that load() does not accept.  The two processes are *)
(* alike.                                                                    *)
EXTENDS ConfigManager, TLC

CONSTANTS cfgA, cfgBad, default

MCObject == {default, cfgA, cfgBad}
MCValid == {default, cfgA}
MCSymmetry == Permutations(Proc)
=============================================================================
