----------------------------- MODULE Scalability -----------------------------
(***************************************************************************)
(* The k6 virtual users of src/tests/load/scalability-test.js driving the *)
(* control plane.  Every iteration batches three dashboard reads and, on   *)
(* every fifth iteration (__ITER % 5 === 0), posts an instance with a name *)
(* and an image only, expects 201, and deletes what it created.  All       *)
(* virtual users send the one API key the run is given (API_KEY).          *)
(*                                                                         *)
(* The key is issued before the run by a register and a login, so the      *)
(* server starts with that account and its key and nothing else.  Sleeps   *)
(* only pace the run and are left out; MaxIters stands for the stages'     *)
(* duration.  The server's provisioning task is left out: it runs only for *)
(* an instance, and the POST without a subnet never creates one.           *)
(***************************************************************************)
EXTENDS Naturals, FiniteSets

CONSTANTS
    Accounts, VpcIds, SubnetIds, InstIds, AddrBits, Malformed, None,
    ApiKey,     \* __ENV.API_KEY: the account whose key the run is given
    VUs,        \* k6 virtual users
    MaxIters    \* iterations of the default function per virtual user

VARIABLES registered, keys, vpc, subnet, inst, job,
          pc,          \* pc[u]: where virtual user u is in the function
          iter,        \* __ITER of virtual user u
          failed,      \* names of the checks of u that have failed
          reqs,        \* HTTP requests of the run (k6 http_reqs)
          failedReqs   \* of them, responses with status >= 400

CP == INSTANCE ControlPlane WITH VpcCidrIn <- {}, SubnetCidrIn <- {}

cpVars == <<registered, keys, vpc, subnet, inst, job>>
vuVars == <<pc, iter, failed, reqs, failedReqs>>
vars == <<cpVars, vuVars>>

Checks == {"summary success", "instances success", "inst created during scale"}

\* Bound of the request counters: four requests per iteration at most.
MaxReqs == 4 * MaxIters * Cardinality(VUs)

\* k6's http_req_failed counts a response outside 200-399 as failed.
Failing(code) == IF code >= 400 THEN 1 ELSE 0

Init ==
    /\ registered = {ApiKey} /\ keys = {ApiKey}
    /\ vpc = [v \in VpcIds |-> [st |-> "none", owner |-> None, cidr |-> None]]
    /\ subnet = [s \in SubnetIds |-> [st |-> "none", vpc |-> None, cidr |-> None]]
    /\ inst = [i \in InstIds |-> [st |-> "none", owner |-> None, vpc |-> None,
                                  subnet |-> None, ip |-> None]]
    /\ job = [i \in InstIds |-> "none"]
    /\ pc = [u \in VUs |-> "batch"]
    /\ iter = [u \in VUs |-> 0]
    /\ failed = [u \in VUs |-> {}]
    /\ reqs = 0 /\ failedReqs = 0

Fail(u, name, ok) == failed' = [failed EXCEPT ![u] = IF ok THEN @ ELSE @ \cup {name}]

\* http.batch of GET summary, GET /instances and GET /vpcs (lines 22-34),
\* the checks of the first two (lines 36-37), and the __ITER % 5 branch.
BatchStep(u) ==
    LET code == CP!ListCode(ApiKey) IN
    /\ pc[u] = "batch"
    /\ reqs' = reqs + 3
    /\ failedReqs' = failedReqs + 3 * Failing(code)
    /\ failed' = [failed EXCEPT ![u] = IF code = 200 THEN @
                                       ELSE @ \cup {"summary success", "instances success"}]
    /\ pc' = [pc EXCEPT ![u] = IF iter[u] % 5 = 0 THEN "create" ELSE "end"]
    /\ UNCHANGED <<cpVars, iter>>

\* POST /instances with no vpc_id or subnet_id, check 201 (lines 40-46).
\* On 201 the script reads res.json('id'), which the response (data.id)
\* does not have, and sends DELETE /instances/undefined: a 404 that
\* changes nothing (lines 48-52).
CreateStep(u) ==
    /\ pc[u] = "create"
    /\ \E i \in InstIds, code \in CP!Codes :
          /\ CP!LaunchInstance(ApiKey, None, None, i, code)
          /\ reqs' = reqs + (IF code = 201 THEN 2 ELSE 1)
          /\ failedReqs' = failedReqs + Failing(code) + (IF code = 201 THEN 1 ELSE 0)
          /\ Fail(u, "inst created during scale", code = 201)
          /\ pc' = [pc EXCEPT ![u] = "end"]
    /\ UNCHANGED iter

\* Mutant: off by one, one iteration more than the run has.
EndIterationMutant(u) ==
    /\ pc[u] = "end"
    /\ iter' = [iter EXCEPT ![u] = @ + 1]
    /\ pc' = [pc EXCEPT ![u] = IF iter[u] + 1 <= MaxIters THEN "batch" ELSE "done"]
    /\ UNCHANGED <<cpVars, failed, reqs, failedReqs>>

\* sleep(1) and return; k6 calls the function again with __ITER + 1.
EndIteration(u) ==
    /\ pc[u] = "end"
    /\ iter' = [iter EXCEPT ![u] = @ + 1]
    /\ pc' = [pc EXCEPT ![u] = IF iter[u] + 1 < MaxIters THEN "batch" ELSE "done"]
    /\ UNCHANGED <<cpVars, failed, reqs, failedReqs>>

Step(u) == BatchStep(u) \/ CreateStep(u) \/ EndIteration(u)

\* The stages have run out for every virtual user.
RunOver ==
    /\ \A u \in VUs : pc[u] = "done"
    /\ UNCHANGED vars

Next == (\E u \in VUs : Step(u)) \/ RunOver

\* A virtual user runs its script without stopping.
Spec == Init /\ [][Next]_vars /\ \A u \in VUs : WF_vars(Step(u))

(***************************************************************************)
(* Properties.                                                             *)
(***************************************************************************)
TypeOK ==
    /\ CP!TypeOK
    /\ pc \in [VUs -> {"batch", "create", "end", "done"}]
    /\ iter \in [VUs -> 0..MaxIters]
    /\ \A u \in VUs : failed[u] \subseteq Checks
    /\ reqs \in 0..MaxReqs /\ failedReqs \in 0..reqs

\* The script's check 'inst created during scale' (line 46).
ScaleCreateCheckPasses == \A u \in VUs : "inst created during scale" \notin failed[u]

\* The threshold http_req_failed: ['rate<0.02'] (line 13), judged at the
\* end of the run.
FailedRateThresholdMet ==
    (\A u \in VUs : pc[u] = "done") => 50 * failedReqs < reqs

=============================================================================
