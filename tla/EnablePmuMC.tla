----------------------------- MODULE EnablePmuMC -----------------------------
(* Instances of EnablePmu: users on one CPU; processors with as many       *)
(* counters as the probe tests and with more and fewer, and an old one;    *)
(* builds that read the counters that are tested, and that read more.      *)
EXTENDS EnablePmu

OneCpu == [u \in Users |-> CHOOSE c \in Cpus : TRUE]
Machine(arch, ff, gp) == [leaf |-> 22, pdcm |-> TRUE, arch |-> arch, ff |-> ff, gp |-> gp]

SomeEvents == {<<>>, <<"only2", "only1", "on">>}
SomeMachines == {Machine(5, 3, 3), Machine(3, 2, 2), Machine(3, 1, 3), Machine(2, 3, 3)}
EvUser == CHOOSE u \in Users : TRUE
EvAndEvx == [u \in Users |-> IF u = EvUser THEN GpInit ELSE GpInit + 1]

=============================================================================
