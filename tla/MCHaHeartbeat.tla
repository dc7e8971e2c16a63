------------------------- MODULE MCHaHeartbeat -------------------------
(* Instances of HaHeartbeat for model checking.                            *)
EXTENDS HaHeartbeat

SameTimeouts == [s \in Servers |-> 4]
LongPrimary  == [s \in Servers |-> IF s = "A" THEN 9 ELSE 2]

NoLinks          == {}
CutDiscovery     == {<<0, Servers>>}
ReplicationLinks == {<<1, Servers>>, <<1, {"B"}>>}
AnyLink          == {0, 1} \X {{"A"}, {"B"}, Servers}
========================================================================
