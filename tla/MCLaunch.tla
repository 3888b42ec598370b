------------------------------ MODULE MCLaunch ------------------------------
(* Instances of Launch for TLC. *)
EXTENDS LaunchInv

\* Representative launches for the temporal properties.
FewConfigs ==
    {c \in Admitted : /\ c.egress = c.strict /\ ~c.userns
                      /\ c.net # "gvisor-host" /\ (c.net = "none" => ~c.egress)
                      /\ c.defer => (c.root /\ c.net = "none")}

Quiet == {c \in Admitted : c.net = "none" /\ ~c.egress}
GVisorDeferred == {c \in Quiet : c.gvisor /\ c.defer}
NativeRun == {c \in Quiet : ~c.gvisor /\ ~c.defer}
NativeDeferred == {c \in Quiet : ~c.gvisor /\ c.defer /\ ~c.visible}

None == {}
BothKills == {"child", "init"}
InitKill == {"init"}
ChildKill == {"child"}
=============================================================================
