-------------------------- MODULE ResourceLifecycle --------------------------
(***************************************************************************)
(* What the control plane promises about the life of its resources, with  *)
(* accounts, CIDRs, addresses and the provisioning task left out:          *)
(*   - an id is used once: it goes from unused to live to deleted, and a   *)
(*     deleted resource never comes back (spec 4.2, 4.3);                  *)
(*   - an instance moves along pending -> running | error, running ->      *)
(*     stopped, and any live state -> deleted (spec 4.3);                  *)
(*   - a VPC is created empty, a subnet inside a live VPC, an instance in a *)
(*     live subnet, and nothing is deleted while it has live dependents    *)
(*     (spec 4.4);                                                         *)
(*   - a pending instance does not stay pending (spec 4.3, 8).             *)
(***************************************************************************)
CONSTANTS VpcIds, SubnetIds, InstIds, None

VARIABLES vpcSt, subnetOf, instOf

\* vpcSt[v] \in {"none", "available", "deleted"}
\* subnetOf[s] = [st |-> state, vpc |-> parent]
\* instOf[i]   = [st |-> state, subnet |-> parent]
absVars == <<vpcSt, subnetOf, instOf>>

Live == {"pending", "running", "stopped", "error"}

LiveSubnets(v) == {s \in SubnetIds : subnetOf[s].st = "available" /\ subnetOf[s].vpc = v}

LiveInstances(s) == {i \in InstIds : instOf[i].st \in Live /\ instOf[i].subnet = s}

Init ==
    /\ vpcSt = [v \in VpcIds |-> "none"]
    /\ subnetOf = [s \in SubnetIds |-> [st |-> "none", vpc |-> None]]
    /\ instOf = [i \in InstIds |-> [st |-> "none", subnet |-> None]]

NewVpc(v) ==
    /\ vpcSt[v] = "none"
    /\ vpcSt' = [vpcSt EXCEPT ![v] = "available"]
    /\ UNCHANGED <<subnetOf, instOf>>

NewSubnet(s, v) ==
    /\ subnetOf[s].st = "none" /\ vpcSt[v] = "available"
    /\ subnetOf' = [subnetOf EXCEPT ![s] = [st |-> "available", vpc |-> v]]
    /\ UNCHANGED <<vpcSt, instOf>>

NewInstance(i, s) ==
    /\ instOf[i].st = "none" /\ subnetOf[s].st = "available"
    /\ instOf' = [instOf EXCEPT ![i] = [st |-> "pending", subnet |-> s]]
    /\ UNCHANGED <<vpcSt, subnetOf>>

Settle(i) ==
    /\ instOf[i].st = "pending"
    /\ \E to \in {"running", "error"} : instOf' = [instOf EXCEPT ![i].st = to]
    /\ UNCHANGED <<vpcSt, subnetOf>>

Stop(i) ==
    /\ instOf[i].st = "running"
    /\ instOf' = [instOf EXCEPT ![i].st = "stopped"]
    /\ UNCHANGED <<vpcSt, subnetOf>>

RemoveInstance(i) ==
    /\ instOf[i].st \in Live
    /\ instOf' = [instOf EXCEPT ![i].st = "deleted"]
    /\ UNCHANGED <<vpcSt, subnetOf>>

RemoveSubnet(s) ==
    /\ subnetOf[s].st = "available" /\ LiveInstances(s) = {}
    /\ subnetOf' = [subnetOf EXCEPT ![s].st = "deleted"]
    /\ UNCHANGED <<vpcSt, instOf>>

RemoveVpc(v) ==
    /\ vpcSt[v] = "available" /\ LiveSubnets(v) = {}
    /\ vpcSt' = [vpcSt EXCEPT ![v] = "deleted"]
    /\ UNCHANGED <<subnetOf, instOf>>

Next ==
    \/ \E v \in VpcIds : NewVpc(v) \/ RemoveVpc(v)
    \/ \E s \in SubnetIds : RemoveSubnet(s) \/ \E v \in VpcIds : NewSubnet(s, v)
    \/ \E i \in InstIds :
          \/ Settle(i) \/ Stop(i) \/ RemoveInstance(i)
          \/ \E s \in SubnetIds : NewInstance(i, s)

\* A pending instance is settled unless it is deleted first.
Spec == Init /\ [][Next]_absVars /\ \A i \in InstIds : WF_absVars(Settle(i))

=============================================================================
