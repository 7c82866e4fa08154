------------------------- MODULE MC_SensorDispatch -------------------------
(* Two subscriptions sharing one kprobe, two CPUs.                        *)
EXTENDS SensorDispatch

CONSTANTS s1, s2, p1, c1, c2

MCSubs == {s1, s2}
MCProbes == {p1}
MCCPUs == {c1, c2}

=============================================================================
