---------------------------- MODULE ControlPlane ----------------------------
(***************************************************************************)
(* The resource-provisioning control plane that the load-test scripts      *)
(* drive: Identity Store, Network Fabric Manager, Instance Orchestrator,   *)
(* Dependency Guard and Telemetry Reader.  No implementation of it is in   *)
(* the repository, so every operation here is modelled from spec.md        *)
(* (sections 3, 4, 6 and 9).                                               *)
(*                                                                         *)
(* Each request is one atomic step; an operation takes the response code   *)
(* it returns as its last argument so a caller can branch on it.  The     *)
(* background provisioning of an instance is a separate unit of work in    *)
(* two steps (the infrastructure's outcome, then the commit of the new     *)
(* status), so that a DELETE can fall between them.                        *)
(***************************************************************************)
EXTENDS Naturals, FiniteSets

CONSTANTS
    Accounts,    \* e-mail addresses; an account's API key is named by it
    VpcIds,      \* the id namespace of VPCs
    SubnetIds,   \* the id namespace of subnets
    InstIds,     \* the id namespace of instances
    AddrBits,    \* width of the modelled address space
    Malformed,   \* a CIDR string that does not parse
    None,        \* absent owner, parent, CIDR or IP
    VpcCidrIn,   \* CIDR inputs callers send to POST /vpcs
    SubnetCidrIn \* CIDR inputs callers send to POST /vpcs/{id}/subnets

ASSUME AddrBits \in Nat \ {0}

VARIABLES
    registered,  \* accounts that exist
    keys,        \* accounts whose API key has been issued by a login
    vpc,         \* vpc[v]    = [st, owner, cidr]
    subnet,      \* subnet[s] = [st, vpc, cidr]
    inst,        \* inst[i]   = [st, owner, vpc, subnet, ip]
    job          \* job[i]    = state of instance i's provisioning task

cpVars == <<registered, keys, vpc, subnet, inst, job>>

(***************************************************************************)
(* CIDR blocks as numeric ranges (spec 4.2: "checked by numeric range     *)
(* comparison, not string comparison").  Parsing a CIDR string yields its  *)
(* aligned base and prefix length, or Malformed.                           *)
(***************************************************************************)
Addresses == 0..(2^AddrBits - 1)

Cidrs == UNION { { [base |-> k * 2^(AddrBits - p), plen |-> p] : k \in 0..(2^p - 1) } :
                 p \in 0..AddrBits }

Addrs(c) == c.base .. (c.base + 2^(AddrBits - c.plen) - 1)

Contains(outer, c) == Addrs(c) \subseteq Addrs(outer)

Overlap(c, d) == Addrs(c) \cap Addrs(d) # {}

VpcStates    == {"none", "available", "deleted"}
SubnetStates == {"none", "available", "deleted"}
InstStates   == {"none", "pending", "running", "stopped", "error", "deleted"}
JobStates    == {"none", "queued", "ok", "fail", "done"}
Codes        == {200, 201, 202, 204, 400, 401, 404, 409}

LiveInst == {"pending", "running", "stopped", "error"}

Init ==
    /\ registered = {}
    /\ keys = {}
    /\ vpc = [v \in VpcIds |-> [st |-> "none", owner |-> None, cidr |-> None]]
    /\ subnet = [s \in SubnetIds |-> [st |-> "none", vpc |-> None, cidr |-> None]]
    /\ inst = [i \in InstIds |-> [st |-> "none", owner |-> None, vpc |-> None,
                                  subnet |-> None, ip |-> None]]
    /\ job = [i \in InstIds |-> "none"]

(***************************************************************************)
(* Identity Store (spec 4.1).  The key is stable across logins.            *)
(***************************************************************************)
Authenticated(k) == k \in keys

Register(a, code) ==
    \/ /\ a \in registered
       /\ code = 409
       /\ UNCHANGED cpVars
    \/ /\ a \notin registered
       /\ code = 201
       /\ registered' = registered \cup {a}
       /\ UNCHANGED <<keys, vpc, subnet, inst, job>>

\* Mutant: a login that issues a key without finding the account.
LoginMutant(a, passwordOk, code) ==
    /\ code = 200
    /\ keys' = keys \cup {a}
    /\ UNCHANGED <<registered, vpc, subnet, inst, job>>

Login(a, passwordOk, code) ==
    \/ /\ (a \notin registered \/ ~passwordOk)
       /\ code = 401
       /\ UNCHANGED cpVars
    \/ /\ a \in registered /\ passwordOk
       /\ code = 200
       /\ keys' = keys \cup {a}
       /\ UNCHANGED <<registered, vpc, subnet, inst, job>>

\* The first checks of every authenticated request, in the gateway's order.
Unauthorized(k, code) ==
    /\ ~Authenticated(k) /\ code = 401 /\ UNCHANGED cpVars

OwnedVpc(k, v) == vpc[v].st = "available" /\ vpc[v].owner = k

OwnedSubnet(k, s) == subnet[s].st = "available" /\ OwnedVpc(k, subnet[s].vpc)

OwnedInst(k, i) == inst[i].st \in LiveInst /\ inst[i].owner = k

(***************************************************************************)
(* Network Fabric Manager (spec 4.2).  v and s are the ids the server      *)
(* allocates on success: any id never used before (no reuse).              *)
(***************************************************************************)
CreateVpc(k, c, v, code) ==
    \/ Unauthorized(k, code)
    \/ /\ Authenticated(k) /\ c = Malformed
       /\ code = 400 /\ UNCHANGED cpVars
    \/ /\ Authenticated(k) /\ c # Malformed
       /\ vpc[v].st = "none"
       /\ code = 201
       /\ vpc' = [vpc EXCEPT ![v] = [st |-> "available", owner |-> k, cidr |-> c]]
       /\ UNCHANGED <<registered, keys, subnet, inst, job>>

Siblings(v) == {t \in SubnetIds : subnet[t].st = "available" /\ subnet[t].vpc = v}

SubnetFits(v, c) ==
    /\ c # Malformed
    /\ Contains(vpc[v].cidr, c)
    /\ \A t \in Siblings(v) : ~Overlap(subnet[t].cidr, c)

CreateSubnet(k, v, c, s, code) ==
    \/ Unauthorized(k, code)
    \/ /\ Authenticated(k) /\ ~OwnedVpc(k, v)
       /\ code = 404 /\ UNCHANGED cpVars
    \/ /\ Authenticated(k) /\ OwnedVpc(k, v) /\ ~SubnetFits(v, c)
       /\ code = 400 /\ UNCHANGED cpVars
    \/ /\ Authenticated(k) /\ OwnedVpc(k, v) /\ SubnetFits(v, c)
       /\ subnet[s].st = "none"
       /\ code = 201
       /\ subnet' = [subnet EXCEPT ![s] = [st |-> "available", vpc |-> v, cidr |-> c]]
       /\ UNCHANGED <<registered, keys, vpc, inst, job>>

(***************************************************************************)
(* Dependency Guard (spec 4.4): a delete with dependents is a Conflict     *)
(* that leaves everything in place.                                        *)
(***************************************************************************)
SubnetHasDependents(s) == \E i \in InstIds : inst[i].st \in LiveInst /\ inst[i].subnet = s

DeleteVpc(k, v, code) ==
    \/ Unauthorized(k, code)
    \/ /\ Authenticated(k) /\ ~OwnedVpc(k, v)
       /\ code = 404 /\ UNCHANGED cpVars
    \/ /\ Authenticated(k) /\ OwnedVpc(k, v) /\ Siblings(v) # {}
       /\ code = 409 /\ UNCHANGED cpVars
    \/ /\ Authenticated(k) /\ OwnedVpc(k, v) /\ Siblings(v) = {}
       /\ code = 204
       /\ vpc' = [vpc EXCEPT ![v].st = "deleted"]
       /\ UNCHANGED <<registered, keys, subnet, inst, job>>

DeleteSubnet(k, s, code) ==
    \/ Unauthorized(k, code)
    \/ /\ Authenticated(k) /\ ~OwnedSubnet(k, s)
       /\ code = 404 /\ UNCHANGED cpVars
    \/ /\ Authenticated(k) /\ OwnedSubnet(k, s) /\ SubnetHasDependents(s)
       /\ code = 409 /\ UNCHANGED cpVars
    \/ /\ Authenticated(k) /\ OwnedSubnet(k, s) /\ ~SubnetHasDependents(s)
       /\ code = 204
       /\ subnet' = [subnet EXCEPT ![s].st = "deleted"]
       /\ UNCHANGED <<registered, keys, vpc, inst, job>>

(***************************************************************************)
(* Instance Orchestrator (spec 4.3 and 9).                                 *)
(***************************************************************************)
\* subnetId names a subnet of the caller inside vpcId; a body without
\* vpc_id or subnet_id (v or s = None) is no valid pair.
ValidPair(k, v, s) == s \in SubnetIds /\ OwnedSubnet(k, s) /\ subnet[s].vpc = v

LaunchInstance(k, v, s, i, code) ==
    \/ Unauthorized(k, code)
    \/ /\ Authenticated(k) /\ ~ValidPair(k, v, s)
       /\ code = 400 /\ UNCHANGED cpVars
    \/ /\ Authenticated(k) /\ ValidPair(k, v, s)
       /\ inst[i].st = "none"
       /\ code = 202
       /\ inst' = [inst EXCEPT ![i] = [st |-> "pending", owner |-> k, vpc |-> v,
                                       subnet |-> s, ip |-> None]]
       /\ job' = [job EXCEPT ![i] = "queued"]
       /\ UNCHANGED <<registered, keys, vpc, subnet>>

\* The background task runs on the infrastructure, which succeeds or fails.
ProvisionStart(i) ==
    /\ job[i] = "queued"
    /\ \E outcome \in {"ok", "fail"} : job' = [job EXCEPT ![i] = outcome]
    /\ UNCHANGED <<registered, keys, vpc, subnet, inst>>

\* Mutant: addresses held by other instances are not excluded.
FreeIpsMutant(s) == Addrs(subnet[s].cidr)

FreeIps(s) == Addrs(subnet[s].cidr) \ {inst[j].ip : j \in {j \in InstIds : inst[j].subnet = s}}

\* Mutant: the commit writes the outcome without re-reading the record.
ProvisionCommitMutant(i) ==
    LET s == inst[i].subnet IN
    /\ job[i] \in {"ok", "fail"}
    /\ job' = [job EXCEPT ![i] = "done"]
    /\ \/ /\ job[i] = "ok"
          /\ \E ip \in FreeIps(s) : inst' = [inst EXCEPT ![i].st = "running", ![i].ip = ip]
       \/ /\ (job[i] = "fail" \/ FreeIps(s) = {})
          /\ inst' = [inst EXCEPT ![i].st = "error"]
    /\ UNCHANGED <<registered, keys, vpc, subnet>>

\* Commit the outcome: check-then-act on the record ("cancel on delete").
\* A success takes a free address of the subnet; an exhausted pool is a
\* provisioning failure.
ProvisionCommit(i) ==
    LET s == inst[i].subnet IN
    /\ job[i] \in {"ok", "fail"}
    /\ job' = [job EXCEPT ![i] = "done"]
    /\ \/ /\ inst[i].st # "pending"
          /\ UNCHANGED inst
       \/ /\ inst[i].st = "pending" /\ job[i] = "ok"
          /\ \E ip \in FreeIps(s) :
                inst' = [inst EXCEPT ![i].st = "running", ![i].ip = ip]
       \/ /\ inst[i].st = "pending"
          /\ (job[i] = "fail" \/ FreeIps(s) = {})
          /\ inst' = [inst EXCEPT ![i].st = "error"]
    /\ UNCHANGED <<registered, keys, vpc, subnet>>

StopInstance(k, i, code) ==
    \/ Unauthorized(k, code)
    \/ /\ Authenticated(k) /\ ~(OwnedInst(k, i) /\ inst[i].st = "running")
       /\ code = 404 /\ UNCHANGED cpVars
    \/ /\ Authenticated(k) /\ OwnedInst(k, i) /\ inst[i].st = "running"
       /\ code = 200
       /\ inst' = [inst EXCEPT ![i].st = "stopped"]
       /\ UNCHANGED <<registered, keys, vpc, subnet, job>>

\* Permitted from any live state; releases the address.
DeleteInstance(k, i, code) ==
    \/ Unauthorized(k, code)
    \/ /\ Authenticated(k) /\ ~OwnedInst(k, i)
       /\ code = 404 /\ UNCHANGED cpVars
    \/ /\ Authenticated(k) /\ OwnedInst(k, i)
       /\ code = 204
       /\ inst' = [inst EXCEPT ![i].st = "deleted", ![i].ip = None]
       /\ UNCHANGED <<registered, keys, vpc, subnet, job>>

(***************************************************************************)
(* Reads: GET /instances/{id} and GET /instances/{id}/stats (spec 4.5).    *)
(***************************************************************************)
GetInstanceCode(k, i) ==
    IF ~Authenticated(k) THEN 401 ELSE IF OwnedInst(k, i) THEN 200 ELSE 404

\* GET /instances, GET /vpcs and GET /api/dashboard/summary (spec 6):
\* read-only, 200 for any authenticated caller.
ListCode(k) == IF Authenticated(k) THEN 200 ELSE 401

GetStatsCode(k, i) ==
    IF ~Authenticated(k) THEN 401
    ELSE IF OwnedInst(k, i) /\ inst[i].st = "running" THEN 200 ELSE 404

(***************************************************************************)
(* The server's own steps, and every request any caller may send.  The    *)
(* caller's inputs come from the small sets VpcCidrIn and SubnetCidrIn.    *)
(***************************************************************************)
ClientRequest ==
    \E k \in Accounts :
        \/ \E code \in {201, 409} : Register(k, code)
        \/ \E ok \in BOOLEAN, code \in {200, 401} : Login(k, ok, code)
        \/ \E c \in VpcCidrIn, v \in VpcIds, code \in {201, 400, 401} :
              CreateVpc(k, c, v, code)
        \/ \E v \in VpcIds, c \in SubnetCidrIn, s \in SubnetIds, code \in {201, 400, 401, 404} :
              CreateSubnet(k, v, c, s, code)
        \/ \E v \in VpcIds, code \in {204, 401, 404, 409} : DeleteVpc(k, v, code)
        \/ \E s \in SubnetIds, code \in {204, 401, 404, 409} : DeleteSubnet(k, s, code)
        \/ \E v \in VpcIds, s \in SubnetIds, i \in InstIds, code \in {202, 400, 401} :
              LaunchInstance(k, v, s, i, code)
        \/ \E i \in InstIds, code \in {200, 401, 404} : StopInstance(k, i, code)
        \/ \E i \in InstIds, code \in {204, 401, 404} : DeleteInstance(k, i, code)

Next == ClientRequest \/ \E i \in InstIds : ProvisionStart(i) \/ ProvisionCommit(i)

\* Provisioning "proceeds asynchronously ... after an unspecified-but-
\* bounded delay" (spec 4.3): the server's task is weakly fair; callers are not.
Fairness == \A i \in InstIds : WF_cpVars(ProvisionStart(i)) /\ WF_cpVars(ProvisionCommit(i))

Spec == Init /\ [][Next]_cpVars /\ Fairness

(***************************************************************************)
(* Properties.                                                             *)
(***************************************************************************)
TypeOK ==
    /\ registered \subseteq Accounts
    /\ keys \subseteq registered
    /\ \A v \in VpcIds : vpc[v].st \in VpcStates
                         /\ vpc[v].cidr \in Cidrs \cup {None}
    /\ \A s \in SubnetIds : subnet[s].st \in SubnetStates
                            /\ subnet[s].vpc \in VpcIds \cup {None}
    /\ \A i \in InstIds : inst[i].st \in InstStates
                          /\ inst[i].ip \in Addresses \cup {None}
    /\ job \in [InstIds -> JobStates]

\* Provisioning commit and DeleteInstance (spec 4.3, 8): a running or
\* stopped instance holds an address of its own subnet that no other live
\* instance of its VPC holds; pending, failed and deleted instances hold
\* none, so a delete racing the commit cannot leak or duplicate an address.
IpAssignmentValid ==
    /\ \A i \in InstIds :
          inst[i].st \in {"running", "stopped"} <=>
             inst[i].ip # None
    /\ \A i \in InstIds : inst[i].ip # None =>
          inst[i].ip \in Addrs(subnet[inst[i].subnet].cidr)
    /\ \A i, j \in InstIds :
          /\ i # j /\ inst[i].vpc = inst[j].vpc /\ inst[i].ip # None
          => inst[i].ip # inst[j].ip

\* The whole control plane (requests of any callers, the two-step
\* provisioning task and its cancel-on-delete check) implements the
\* lifecycle the spec promises, liveness of pending instances included.
Lifecycle == INSTANCE ResourceLifecycle WITH
    vpcSt    <- [v \in VpcIds |-> vpc[v].st],
    subnetOf <- [s \in SubnetIds |-> [st |-> subnet[s].st, vpc |-> subnet[s].vpc]],
    instOf   <- [i \in InstIds |-> [st |-> inst[i].st, subnet |-> inst[i].subnet]]

ImplementsLifecycle == Lifecycle!Spec

=============================================================================
