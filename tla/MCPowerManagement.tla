-------------------------- MODULE MCPowerManagement --------------------------
(***************************************************************************)
(* Instances of PowerManagement for TLC.                                    *)
(***************************************************************************)
EXTENDS PowerManagement

S == "sleep_operation"

\* Retain all, keep nothing, and two between; and the memories apart.
SymmetricModes == {{S}, {}, {S, "pd_l2", "pd_l2_udma"},
                   {S, "pd_mram_sleep", "pd_mram_active"}}
SkewedModes    == {{}, {S, "pd_l2_udma"}}

AtOnce   == {Domains}
Together == {{"L2", "L2_UDMA"}, {"LOGIC", "L1"}, {"UDMA"}}
=============================================================================
