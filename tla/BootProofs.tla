----------------------------- MODULE BootProofs -----------------------------
(***************************************************************************)
(* The safety properties of Boot hold for any number of workers and faults *)
(* and whatever .env may hold.  Each step of a worker may rely on what its   *)
(* earlier steps have ensured because no step removes a queue or a policy. *)
(***************************************************************************)
EXTENDS Boot, TLAPS

Ensured(p) == {<<"dlq", p>>, <<"main", p>>} \subseteq queues /\ p \in policies

\* What a worker has ensured when it is at a step.
WorkerInv(w) ==
  /\ worker[w] = "arn" => at[w] = "dlq"
  /\ worker[w] = "policy" => at[w] = "main"
  /\ worker[w] # "down" /\ at[w] = "main" => <<"dlq", pair[w]>> \in queues
  /\ worker[w] # "down" /\ pair[w] = "audit" => Ensured("jobs")
  /\ worker[w] = "consuming" => Ensured("jobs") /\ Ensured("audit")

\* What the chain of the API has done when it is at a step.
ApiInv ==
  /\ api # "down" => Valid(apiEnv)
  /\ api \in {"seed", "main", "serving"} => migrated
  /\ api \in {"main", "serving"} => PhoneTaken(apiEnv)

OneRowEach ==
  \A s, t \in tenants : s.id = t.id \/ s.phone = t.phone => s = t

Inv == TypeOK /\ ApiInv /\ OneRowEach /\ \A w \in Worker : WorkerInv(w)

-----------------------------------------------------------------------------
\* Queues and policies are only added.
LEMMA NothingIsRemoved ==
  TypeOK /\ [Next]_vars => queues \subseteq queues' /\ policies \subseteq policies'
  BY DEF TypeOK, Next, ApiGoesOn, EditEnv, ApiEnds, StartApi, Migrate, Seed, SeedRefused,
         Listen, WorkerGoesOn, StartWorker, CreateQueue, CreateFails, GetArn, SetPolicy,
         NextPair, Refused, WorkerExits, WorkerEnds, vars, apiVars, workerVars

\* A step of the API keeps the tenants and what its chain has done.
LEMMA ApiStepsKeep ==
  ASSUME Inv, ApiGoesOn \/ EditEnv \/ ApiEnds
  PROVE  /\ TypeOK' /\ ApiInv' /\ OneRowEach'
         /\ tenants \subseteq tenants'
         /\ UNCHANGED workerVars
<1> USE DEF Inv, TypeOK, ApiInv, OneRowEach, ApiSteps, PhoneTaken, IdTaken, Tenant
<1>1. CASE StartApi   BY <1>1 DEF StartApi, workerVars
<1>2. CASE Migrate    BY <1>2 DEF Migrate, workerVars
<1>3. CASE Seed       BY <1>3 DEF Seed, workerVars
<1>4. CASE SeedRefused BY <1>4 DEF SeedRefused, workerVars
<1>5. CASE Listen     BY <1>5 DEF Listen, workerVars
<1>6. CASE EditEnv    BY <1>6, BoundAssumption DEF EditEnv, Fault, workerVars
<1>7. CASE ApiEnds    BY <1>7, BoundAssumption DEF ApiEnds, Fault, workerVars
<1> QED  BY <1>1, <1>2, <1>3, <1>4, <1>5, <1>6, <1>7 DEF ApiGoesOn

\* A step of a worker leaves the API's side alone and keeps the types.
LEMMA WorkerKeepsTypes ==
  ASSUME Inv, NEW w \in Worker, WorkerGoesOn(w) \/ CreateFails(w) \/ WorkerEnds(w)
  PROVE  TypeOK' /\ UNCHANGED apiVars
<1> USE DEF Inv, TypeOK, apiVars, Goto, WorkerSteps, Pairs, Queues
<1>1. CASE StartWorker(w) BY <1>1 DEF StartWorker
<1>2. CASE CreateQueue(w) BY <1>2 DEF CreateQueue, AfterCreate
<1>3. CASE CreateFails(w) BY <1>3, BoundAssumption DEF CreateFails, AfterCreate, Fault
<1>4. CASE GetArn(w)      BY <1>4 DEF GetArn
<1>5. CASE SetPolicy(w)   BY <1>5 DEF SetPolicy, NextPair
<1>6. CASE Refused(w)     BY <1>6 DEF Refused, WorkerExits
<1>7. CASE WorkerEnds(w)  BY <1>7, BoundAssumption DEF WorkerEnds, WorkerExits, Fault
<1> QED  BY <1>1, <1>2, <1>3, <1>4, <1>5, <1>6, <1>7 DEF WorkerGoesOn

\* A step of a worker ensures what its next step relies on, ...
LEMMA WorkerEnsures ==
  ASSUME Inv, NEW w \in Worker, WorkerGoesOn(w) \/ CreateFails(w) \/ WorkerEnds(w)
  PROVE  WorkerInv(w)'
<1> USE DEF Inv, TypeOK, WorkerInv, Ensured, Goto, WorkerSteps, Pairs, Queues
<1>1. CASE StartWorker(w) BY <1>1 DEF StartWorker
<1>2. CASE CreateQueue(w) BY <1>2 DEF CreateQueue, AfterCreate
<1>3. CASE CreateFails(w) BY <1>3 DEF CreateFails, AfterCreate
<1>4. CASE GetArn(w)      BY <1>4 DEF GetArn
<1>5. CASE SetPolicy(w)   BY <1>5 DEF SetPolicy, NextPair
<1>6. CASE Refused(w)     BY <1>6 DEF Refused, WorkerExits
<1>7. CASE WorkerEnds(w)  BY <1>7 DEF WorkerEnds, WorkerExits
<1> QED  BY <1>1, <1>2, <1>3, <1>4, <1>5, <1>6, <1>7 DEF WorkerGoesOn

\* ... and no step takes away what another worker has ensured.
LEMMA OthersKeep ==
  ASSUME Inv, NEW w \in Worker, WorkerGoesOn(w) \/ CreateFails(w) \/ WorkerEnds(w),
         NEW v \in Worker, v # w
  PROVE  WorkerInv(v)'
<1>1. queues \subseteq queues' /\ policies \subseteq policies'
      BY NothingIsRemoved DEF Inv, Next
<1>2. worker'[v] = worker[v] /\ pair'[v] = pair[v] /\ at'[v] = at[v]
  BY DEF Inv, TypeOK, WorkerGoesOn, StartWorker, CreateQueue, CreateFails, GetArn,
         SetPolicy, NextPair, Refused, WorkerExits, WorkerEnds, AfterCreate, Goto
<1> QED  BY <1>1, <1>2 DEF Inv, WorkerInv, Ensured

\* Inv is inductive.
LEMMA InvHolds == Spec => []Inv
<1>1. Init => Inv
  <2> SUFFICES ASSUME Init  PROVE Inv
      OBVIOUS
  <2>1. TypeOK
        BY DEF Init, TypeOK, ApiSteps, WorkerSteps, Pairs, Queues
  <2>2. ApiInv /\ OneRowEach /\ \A w \in Worker : WorkerInv(w)
        BY DEF Init, ApiInv, OneRowEach, WorkerInv
  <2> QED  BY <2>1, <2>2 DEF Inv
<1>2. Inv /\ [Next]_vars => Inv'
  <2> SUFFICES ASSUME Inv, [Next]_vars  PROVE Inv'
      OBVIOUS
  <2>1. CASE ApiGoesOn \/ EditEnv \/ ApiEnds
    <3>1. /\ TypeOK' /\ ApiInv' /\ OneRowEach'
          /\ UNCHANGED workerVars
          BY <2>1, ApiStepsKeep
    <3>2. \A w \in Worker : WorkerInv(w)'
          BY <3>1 DEF Inv, WorkerInv, Ensured, workerVars
    <3> QED  BY <3>1, <3>2 DEF Inv
  <2>2. CASE \E w \in Worker : WorkerGoesOn(w) \/ CreateFails(w) \/ WorkerEnds(w)
    <3>1. PICK w \in Worker : WorkerGoesOn(w) \/ CreateFails(w) \/ WorkerEnds(w)
          BY <2>2
    <3>2. TypeOK' /\ UNCHANGED apiVars
          BY <3>1, WorkerKeepsTypes
    <3>3. \A v \in Worker : WorkerInv(v)'
          BY <3>1, WorkerEnsures, OthersKeep
    <3> QED  BY <3>2, <3>3 DEF Inv, ApiInv, OneRowEach, PhoneTaken, apiVars
  <2>3. CASE UNCHANGED vars
        BY <2>3 DEF Inv, TypeOK, ApiInv, OneRowEach, WorkerInv, Ensured, PhoneTaken,
                    vars, apiVars, workerVars
  <2> QED  BY <2>1, <2>2, <2>3 DEF Next
<1> QED  BY <1>1, <1>2, PTL DEF Spec

\* The variables keep their types; in particular each row of tenants is the tenant of a
\* valid environment.
THEOREM TypeCorrect == Spec => []TypeOK
<1>1. Inv => TypeOK
      BY DEF Inv
<1> QED  BY <1>1, InvHolds, PTL

\* A worker consumes only queues with a redrive policy, however many workers start,
\* fail and start again side by side.
THEOREM ConsumesWithPolicyHolds == Spec => []ConsumesWithPolicy
<1>1. Inv => ConsumesWithPolicy
  <2> SUFFICES ASSUME Inv, NEW w \in Worker, worker[w] = "consuming"
               PROVE  policies = Pairs /\ queues = Queues
      BY DEF ConsumesWithPolicy
  <2>1. Ensured("jobs") /\ Ensured("audit")
        BY DEF Inv, WorkerInv
  <2>2. policies = Pairs
        BY <2>1 DEF Inv, TypeOK, Ensured, Pairs
  <2>3. \A q \in Queues : q \in queues
        BY <2>1 DEF Ensured, Pairs, Queues
  <2> QED  BY <2>2, <2>3 DEF Inv, TypeOK
<1> QED  BY <1>1, InvHolds, PTL

\* The API serves only a phone number that some tenant owns.
THEOREM ServesKnownPhoneHolds == Spec => []ServesKnownPhone
<1>1. Inv => ServesKnownPhone
      BY DEF Inv, ApiInv, ServesKnownPhone
<1> QED  BY <1>1, InvHolds, PTL

\* Tenants stay, with one row per id and per phone number.
THEOREM TenantsAreKeptHolds == Spec => TenantsAreKept
<1>1. Inv /\ Inv' /\ [Next]_vars =>
      [/\ tenants \subseteq tenants'
       /\ \A s, t \in tenants' : s.id = t.id \/ s.phone = t.phone => s = t]_vars
  <2> SUFFICES ASSUME Inv, Inv', Next
               PROVE  tenants \subseteq tenants' /\ OneRowEach'
      BY DEF OneRowEach
  <2>1. CASE ApiGoesOn \/ EditEnv \/ ApiEnds
        BY <2>1, ApiStepsKeep
  <2>2. CASE \E w \in Worker : WorkerGoesOn(w) \/ CreateFails(w) \/ WorkerEnds(w)
        BY <2>2, WorkerKeepsTypes DEF apiVars, Inv
  <2> QED  BY <2>1, <2>2 DEF Next
<1> QED  BY <1>1, InvHolds, PTL DEF Spec, TenantsAreKept

=============================================================================
