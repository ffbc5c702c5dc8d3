---------------------------- MODULE MCNetworkFence ----------------------------
(***************************************************************************)
(* A template that exposes one of two ports and one that exposes none, and *)
(* an administrator who opens a fence to one network or for the other port.*)
(***************************************************************************)
EXTENDS NetworkFence

Web    == [containerPort |-> 80, expose |-> TRUE]
Shell  == [containerPort |-> 22, expose |-> FALSE]

MCTemplates == {{Web, Shell}, {Shell}}

MCEdits == {[allow |-> {[cidr |-> "10.0.42.0/24", port |-> 22]}, deny |-> {},
             allowEgress |-> TRUE],
            [allow |-> {[cidr |-> NoCIDR, port |-> 22]}, deny |-> {DefaultNamespace},
             allowEgress |-> FALSE]}
===============================================================================
