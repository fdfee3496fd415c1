------------------------------ MODULE Lifecycle ------------------------------
(***************************************************************************)
(* The k6 virtual users of src/tests/load/real-world-lifecycle.js driving  *)
(* the control plane.  Each virtual user runs the script's default         *)
(* function MaxIters times: register, login, create a VPC and a subnet,    *)
(* launch an instance, poll it up to PollLimit times, read its stats if it *)
(* runs, delete the instance, delete the VPC.  Every request of the script *)
(* is one atomic step of ControlPlane; the provisioning task runs between  *)
(* any two of them.                                                        *)
(*                                                                         *)
(* k6 gives up on a request after its timeout and reports status 0; the    *)
(* server may or may not have applied it.  At most MaxTimeouts requests    *)
(* of a run time out.                                                      *)
(***************************************************************************)
EXTENDS Naturals, FiniteSets

CONSTANTS
    Accounts, VpcIds, SubnetIds, InstIds, AddrBits, Malformed, None,
    VUs,          \* k6 virtual users
    MaxIters,     \* iterations of the default function per virtual user
    PollLimit,    \* the script's polling budget (10 in the script)
    MaxTimeouts,  \* requests of the whole run that may time out
    VpcCidr,      \* '10.0.0.0/16', parsed
    SubnetCidr    \* '10.0.1.0/24', parsed

VARIABLES registered, keys, vpc, subnet, inst, job,
          vu,        \* vu[u]: the script's locals and where it is
          iter,      \* iterations virtual user u has finished
          failed,    \* names of the checks of u that have failed
          lost,      \* names of the checks of u whose response was status 0
          timeouts   \* requests timed out so far

CP == INSTANCE ControlPlane WITH VpcCidrIn <- {VpcCidr}, SubnetCidrIn <- {SubnetCidr}

cpVars == <<registered, keys, vpc, subnet, inst, job>>
vuVars == <<vu, iter, failed, lost, timeouts>>
vars == <<cpVars, vuVars>>

Pcs == {"register", "login", "vpc", "subnet", "launch", "poll", "stats",
        "delinst", "delvpc", "end", "done"}

Checks == {"reg success", "login success", "vpc created", "subnet created",
           "instance launch accepted", "instance is running", "stats retrieved",
           "inst deleted", "vpc deleted"}

Fresh == [pc |-> "register", email |-> None, vpc |-> None, subnet |-> None,
          inst |-> None, polls |-> 0, running |-> FALSE]

Init ==
    /\ CP!Init
    /\ vu = [u \in VUs |-> Fresh]
    /\ iter = [u \in VUs |-> 0]
    /\ failed = [u \in VUs |-> {}]
    /\ lost = [u \in VUs |-> {}]
    /\ timeouts = 0

(***************************************************************************)
(* One HTTP exchange.  Req(code, id) is the server's handling, id the id   *)
(* it allocates (None if it allocates none); Then(code, id) is what the    *)
(* script does with the response, code 0 when the request timed out.      *)
(***************************************************************************)
Exchange(Req(_, _), Ids, Then(_, _)) ==
    \/ /\ \E code \in CP!Codes, id \in Ids : Req(code, id) /\ Then(code, id)
       /\ UNCHANGED timeouts
    \/ /\ timeouts < MaxTimeouts
       /\ timeouts' = timeouts + 1
       /\ \/ UNCHANGED cpVars
          \/ \E code \in CP!Codes, id \in Ids : Req(code, id)
       /\ Then(0, None)

\* check(res, {name: ok}): k6 counts a failed check; status 0 is noted too.
Check(u, name, ok, code) ==
    /\ failed' = [failed EXCEPT ![u] = IF ok THEN @ ELSE @ \cup {name}]
    /\ lost' = [lost EXCEPT ![u] = IF code = 0 THEN @ \cup {name} ELSE @]

\* The id the server allocates next; which unused id it is does not matter.
NextId(ids, used(_)) == IF \E x \in ids : ~used(x) THEN {CHOOSE x \in ids : ~used(x)} ELSE {}


Read(code, expected) == code = expected /\ UNCHANGED cpVars

Key(u) == vu[u].email   \* the API key the login returned names the account

At(u, pc) == vu[u].pc = pc

(***************************************************************************)
(* The script's steps.                                                     *)
(***************************************************************************)
RegisterStep(u) ==
    /\ At(u, "register")
    /\ \E e \in Accounts :   \* user-<uuid prefix>@loadtest.local
          LET Req(code, id) == CP!Register(e, code)
              Then(code, id) ==
                 LET ok == code \in {200, 201} IN
                 /\ Check(u, "reg success", ok, code)
                 /\ vu' = [vu EXCEPT ![u].email = e,
                                     ![u].pc = IF ok THEN "login" ELSE "end"]
          IN Exchange(Req, {None}, Then)
    /\ UNCHANGED iter

LoginStep(u) ==
    /\ At(u, "login")
    /\ LET Req(code, id) == CP!Login(vu[u].email, TRUE, code)
           Then(code, id) ==
              /\ Check(u, "login success", code = 200, code)
              /\ vu' = [vu EXCEPT ![u].pc = IF code = 200 THEN "vpc" ELSE "end"]
       IN Exchange(Req, {None}, Then)
    /\ UNCHANGED iter

CreateVpcStep(u) ==
    /\ At(u, "vpc")
    /\ LET Req(code, id) == CP!CreateVpc(Key(u), VpcCidr, id, code)
           Then(code, id) ==
              /\ Check(u, "vpc created", code = 201, code)
              /\ vu' = [vu EXCEPT ![u].vpc = IF code = 201 THEN id ELSE None,
                                  ![u].pc = IF code = 201 THEN "subnet" ELSE "end"]
       IN Exchange(Req, NextId(VpcIds, LAMBDA x : vpc[x].st # "none"), Then)
    /\ UNCHANGED iter

CreateSubnetStep(u) ==
    /\ At(u, "subnet")
    /\ LET Req(code, id) == CP!CreateSubnet(Key(u), vu[u].vpc, SubnetCidr, id, code)
           Then(code, id) ==
              /\ Check(u, "subnet created", code = 201, code)
              /\ vu' = [vu EXCEPT ![u].subnet = IF code = 201 THEN id ELSE None,
                                  ![u].pc = IF code = 201 THEN "launch" ELSE "end"]
       IN Exchange(Req, NextId(SubnetIds, LAMBDA x : subnet[x].st # "none"), Then)
    /\ UNCHANGED iter

LaunchStep(u) ==
    /\ At(u, "launch")
    /\ LET Req(code, id) == CP!LaunchInstance(Key(u), vu[u].vpc, vu[u].subnet, id, code)
           Then(code, id) ==
              /\ Check(u, "instance launch accepted", code = 202, code)
              /\ vu' = [vu EXCEPT ![u].inst = IF code = 202 THEN id ELSE None,
                                  ![u].pc = IF code = 202 THEN "poll" ELSE "end"]
       IN Exchange(Req, NextId(InstIds, LAMBDA x : inst[x].st # "none"), Then)
    /\ UNCHANGED iter

\* Mutant: the loop bound is off by one (i <= 10).
PollStepMutant(u) ==
    /\ At(u, "poll")
    /\ vu[u].polls <= PollLimit
    /\ LET i == vu[u].inst
           Req(code, id) == Read(code, CP!GetInstanceCode(Key(u), i))
           Then(code, id) ==
              /\ IF code = 200 /\ inst[i].st = "running"
                    THEN vu' = [vu EXCEPT ![u].running = TRUE, ![u].pc = "stats"]
                    ELSE vu' = [vu EXCEPT ![u].polls = @ + 1]
              /\ UNCHANGED <<failed, lost>>
       IN Exchange(Req, {None}, Then)
    /\ UNCHANGED iter

\* Mutant: a poll that does not see the instance running is not counted.
PollStepUncountedMutant(u) ==
    /\ At(u, "poll")
    /\ vu[u].polls < PollLimit
    /\ LET i == vu[u].inst
           Req(code, id) == Read(code, CP!GetInstanceCode(Key(u), i))
           Then(code, id) ==
              /\ IF code = 200 /\ inst[i].st = "running"
                    THEN vu' = [vu EXCEPT ![u].running = TRUE, ![u].pc = "stats"]
                    ELSE UNCHANGED vu
              /\ UNCHANGED <<failed, lost>>
       IN Exchange(Req, {None}, Then)
    /\ UNCHANGED iter

\* One turn of the polling loop: GET, break if running, else sleep(1).
PollStep(u) ==
    /\ At(u, "poll")
    /\ vu[u].polls < PollLimit
    /\ LET i == vu[u].inst
           Req(code, id) == Read(code, CP!GetInstanceCode(Key(u), i))
           Then(code, id) ==
              /\ IF code = 200 /\ inst[i].st = "running"
                    THEN vu' = [vu EXCEPT ![u].running = TRUE, ![u].pc = "stats"]
                    ELSE vu' = [vu EXCEPT ![u].polls = @ + 1]
              /\ UNCHANGED <<failed, lost>>
       IN Exchange(Req, {None}, Then)
    /\ UNCHANGED iter

\* Mutant: the stats request is sent without the if (isRunning) guard.
PollsExhaustedMutant(u) ==
    /\ At(u, "poll")
    /\ vu[u].polls = PollLimit
    /\ failed' = [failed EXCEPT ![u] = @ \cup {"instance is running"}]
    /\ vu' = [vu EXCEPT ![u].pc = "stats"]
    /\ UNCHANGED <<cpVars, iter, lost, timeouts>>

\* The loop ran out: check(isRunning) fails and, as isRunning is false,
\* the stats request is skipped.
PollsExhausted(u) ==
    /\ At(u, "poll")
    /\ vu[u].polls = PollLimit
    /\ failed' = [failed EXCEPT ![u] = @ \cup {"instance is running"}]
    /\ vu' = [vu EXCEPT ![u].pc = "delinst"]
    /\ UNCHANGED <<cpVars, iter, lost, timeouts>>

StatsStep(u) ==
    /\ At(u, "stats")
    /\ LET Req(code, id) == Read(code, CP!GetStatsCode(Key(u), vu[u].inst))
           Then(code, id) ==
              /\ Check(u, "stats retrieved", code = 200, code)
              /\ vu' = [vu EXCEPT ![u].pc = "delinst"]
       IN Exchange(Req, {None}, Then)
    /\ UNCHANGED iter

DeleteInstanceStep(u) ==
    /\ At(u, "delinst")
    /\ LET Req(code, id) == CP!DeleteInstance(Key(u), vu[u].inst, code)
           Then(code, id) ==
              /\ Check(u, "inst deleted", code \in {200, 204}, code)
              /\ vu' = [vu EXCEPT ![u].pc = "delvpc"]
       IN Exchange(Req, {None}, Then)
    /\ UNCHANGED iter

DeleteVpcStep(u) ==
    /\ At(u, "delvpc")
    /\ LET Req(code, id) == CP!DeleteVpc(Key(u), vu[u].vpc, code)
           Then(code, id) ==
              /\ Check(u, "vpc deleted", code \in {200, 204}, code)
              /\ vu' = [vu EXCEPT ![u].pc = "end"]
       IN Exchange(Req, {None}, Then)
    /\ UNCHANGED iter

\* The default function returns; k6 calls it again until the run ends.
EndIteration(u) ==
    /\ At(u, "end")
    /\ iter' = [iter EXCEPT ![u] = @ + 1]
    /\ vu' = [vu EXCEPT ![u] = IF iter[u] + 1 < MaxIters THEN Fresh
                               ELSE [Fresh EXCEPT !.pc = "done"]]
    /\ UNCHANGED <<cpVars, failed, lost, timeouts>>

Step(u) ==
    \/ RegisterStep(u) \/ LoginStep(u) \/ CreateVpcStep(u)
    \/ CreateSubnetStep(u) \/ LaunchStep(u) \/ PollStep(u)
    \/ PollsExhausted(u) \/ StatsStep(u) \/ DeleteInstanceStep(u)
    \/ DeleteVpcStep(u) \/ EndIteration(u)

\* The test run is over once every virtual user has finished.
RunOver ==
    /\ \A u \in VUs : At(u, "done")
    /\ UNCHANGED vars

Next ==
    \/ \E u \in VUs : Step(u)
    \/ \E i \in InstIds : CP!ProvisionStart(i) /\ UNCHANGED vuVars
    \/ \E i \in InstIds : CP!ProvisionCommit(i) /\ UNCHANGED vuVars
    \/ RunOver

\* A virtual user runs its script without stopping; provisioning is the
\* server's weakly fair background task.
Fairness ==
    /\ \A u \in VUs : WF_vars(Step(u))
    /\ \A i \in InstIds : WF_vars(CP!ProvisionStart(i) /\ UNCHANGED vuVars)
    /\ \A i \in InstIds : WF_vars(CP!ProvisionCommit(i) /\ UNCHANGED vuVars)

Spec == Init /\ [][Next]_vars /\ Fairness

(***************************************************************************)
(* Properties.                                                             *)
(***************************************************************************)
TypeOK ==
    /\ CP!TypeOK
    /\ \A u \in VUs :
          /\ vu[u].pc \in Pcs
          /\ vu[u].email \in Accounts \cup {None}
          /\ vu[u].vpc \in VpcIds \cup {None}
          /\ vu[u].subnet \in SubnetIds \cup {None}
          /\ vu[u].inst \in InstIds \cup {None}
          /\ vu[u].polls \in 0..PollLimit
          /\ vu[u].running \in BOOLEAN
    /\ iter \in [VUs -> 0..MaxIters]
    /\ \A u \in VUs : failed[u] \subseteq Checks /\ lost[u] \subseteq Checks
    /\ timeouts \in 0..MaxTimeouts

\* Checks a reader of the k6 report may see fail.  With the server the spec
\* describes, registration fails only on an e-mail collision, the instance
\* may be slow or fail to provision, and the VPC delete meets the subnet the
\* script never deletes; every other check of the script fails only when
\* its response timed out.
ExpectedFailures == {"reg success", "instance is running", "vpc deleted"}

OnlyExpectedChecksFail ==
    \A u \in VUs : failed[u] \ lost[u] \subseteq ExpectedFailures

\* Cleanup of the script (DELETE /instances/{id}) against the provisioning
\* task's commit: every live instance belongs to a virtual user that has
\* launched it and not yet sent its DELETE, unless a launch or delete
\* response was lost to a timeout.  A pending instance deleted after the
\* polls ran out stays deleted even if its provisioning commits later.
InstancePhase == {"poll", "stats", "delinst"}

NoOrphanInstance ==
    \A i \in InstIds : inst[i].st \in CP!LiveInst =>
        \/ \E u \in VUs : vu[u].inst = i /\ vu[u].pc \in InstancePhase
        \/ \E u \in VUs : {"instance launch accepted", "inst deleted"} \cap lost[u] # {}

\* Every virtual user finishes all its iterations: the polling loop is
\* bounded and no request waits on another.
IterationsComplete == <>(\A u \in VUs : At(u, "done"))

\* The scenario of spec section 8 ("delete instance -> delete VPC
\* succeeds") and the script's own check 'vpc deleted' on line 102.
VpcDeleteCheckPasses == \A u \in VUs : "vpc deleted" \notin failed[u]

=============================================================================
