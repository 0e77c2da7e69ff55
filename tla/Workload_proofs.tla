-------------------------- MODULE Workload_proofs --------------------------
(***************************************************************************)
(* Proofs about a Pod from its API object to the guest, for every Pod      *)
(* spec, every content and history of its ConfigMaps and Secrets and any   *)
(* number of failures, crashes, restarts and incarnations.                 *)
(***************************************************************************)
EXTENDS Workload, WellFoundedInduction, TLAPS

-----------------------------------------------------------------------------
(* What is assumed of a Pod, and least and greatest numbers.               *)

LEMMA PodShape ==
  ASSUME NEW p \in PodSet
  PROVE  /\ Len(p.envFrom) \in Nat /\ DOMAIN p.envFrom = 1..Len(p.envFrom)
         /\ Len(p.env) \in Nat /\ DOMAIN p.mounts \subseteq Nat
         /\ \A i \in 1..Len(p.envFrom) : p.envFrom[i].kind \in {"configMap", "secret"}
         /\ \A i \in 1..Len(p.env) : p.env[i].kind \in EntryKinds
BY WorkloadAssumption, Zenon

\* A set of numbers has a least element, so what fails for some number fails
\* for a first one; one with a bound has a greatest.
LEMMA LeastExists ==
  ASSUME NEW T, T \subseteq Nat, T # {}
  PROVE  \E m \in T : \A n \in T : m <= n
<1> DEFINE R == {d \in Nat \X Nat : d[1] < d[2]}
<1>1. IsWellFoundedOn(R, Nat)
  BY NatLessThanWellFounded DEF OpToRel
<1>2. PICK m \in T : \A n \in T : <<n, m>> \notin R
  BY <1>1, WFMin, Zenon
<1>3. ASSUME NEW n \in T PROVE m <= n
  <2>1. m \in Nat /\ n \in Nat /\ <<n, m>> \notin R
    BY <1>2, Zenon
  <2>2. n < m => <<n, m>> \in R
    BY <2>1
  <2> QED BY <2>1, <2>2
<1> QED BY <1>3

LEMMA MinInSet == ASSUME NEW T, T \subseteq Nat, T # {} PROVE Min(T) \in T /\ \A n \in T : Min(T) <= n
BY LeastExists DEF Min

LEMMA MaxInSet ==
  ASSUME NEW N \in Nat, NEW T, T \subseteq 0..N, T # {}
  PROVE  Max(T) \in T /\ \A n \in T : n <= Max(T)
<1> DEFINE D == {N - n : n \in T}
<1>1. D \subseteq Nat /\ D # {}
  OBVIOUS
<1>2. PICK d \in D : \A e \in D : d <= e
  BY <1>1, LeastExists, Zenon
<1>3. PICK x \in T : d = N - x
  BY <1>2
<1>4. ASSUME NEW y \in T PROVE y <= x
  <2>1. N - y \in D
    BY Zenon
  <2>2. d <= N - y /\ x \in 0..N /\ y \in 0..N
    BY <1>2, <2>1, Zenon
  <2> QED BY <1>3, <2>2
<1>5. \E x1 \in T : \A y \in T : x1 >= y
  BY <1>4
<1> QED BY <1>5 DEF Max

-----------------------------------------------------------------------------
(* The spec, the API and what is left of the bounds.                       *)

\* A behaviour is about one spec.
LEMMA SpecStays == [Next]_vars => spec' = spec
BY Zenon DEF Next, vars, Apply, RequestDelete, EditObject, GuestReady, GuestFails, CreateSteps,
   Translate, EnsureDirs, WriteFile, Lookup, Pull, Launch, Adopt, LaunchFails, AdoptFails,
   Reconcile, RestartBegin, RestartEnd, RestartFails, Prober, Probe, ProbeActs, ProbeCondemns,
   ProberLeaves, Forget, Delete, Crash, Start

Budgets == [uids : 0..MaxUid, edits : Nat, faults : Nat, flakes : Nat]

\* A Pod that is wanted or being deleted has a UID, which is in bounds.
ApiInv ==
  /\ spec \in PodSet
  /\ budget \in Budgets
  /\ api \in [uid : 0..MaxUid, phase : {"none", "wanted", "deleting"}]
  /\ api.phase # "none" => api.uid \in Uids

\* Spending one of the bounds leaves the number of UIDs alone.
LEMMA SpendKeeps ==
  ASSUME budget \in Budgets, NEW b \in {"edits", "faults", "flakes"}, Spend(b)
  PROVE  budget' \in Budgets
<1>1. budget[b] \in Nat /\ budget[b] > 0 /\ budget' = [budget EXCEPT ![b] = budget[b] - 1]
  BY DEF Budgets, Spend
<1>2. budget[b] - 1 \in Nat
  BY <1>1
<1> QED BY <1>1, <1>2 DEF Budgets

\* So every step keeps the bounds' types.
LEMMA BudgetKeeps == ASSUME budget \in Budgets, [Next]_vars PROVE budget' \in Budgets
<1>1. ASSUME NEW ok, May(ok) PROVE budget' \in Budgets
  BY <1>1, SpendKeeps, Zenon DEF May
<1>2. UNCHANGED budget \/ (\E ok : May(ok)) \/ (\E b \in {"edits", "faults", "flakes"} : Spend(b))
  BY Zenon DEF Next, vars, Apply, RequestDelete, EditObject, GuestReady, GuestFails, CreateSteps,
     Translate, EnsureDirs, WriteFile, Lookup, Pull, Launch, Adopt, LaunchFails, AdoptFails,
     Reconcile, RestartBegin, RestartEnd, RestartFails, Prober, Probe, ProbeActs, ProbeCondemns,
     ProberLeaves, Forget, Delete, Crash, Start
<1> QED BY <1>1, <1>2, SpendKeeps, Zenon

\* A Pod is created anew, is to be deleted, or is gone; nothing else touches it.
LEMMA NextApi == ASSUME ApiInv, [Next]_vars PROVE ApiInv'
<1>1. budget' \in Budgets /\ spec' \in PodSet
  BY BudgetKeeps, SpecStays, Zenon DEF ApiInv
<1>2. UNCHANGED api \/ Apply \/ RequestDelete \/ Gone
  BY Zenon DEF Next, vars, EditObject, GuestReady, GuestFails, CreateSteps,
     Translate, EnsureDirs, WriteFile, Lookup, Pull, Launch, Adopt, LaunchFails, AdoptFails,
     Reconcile, RestartBegin, RestartEnd, RestartFails, Prober, Probe, ProbeActs, ProbeCondemns,
     ProberLeaves, Forget, Delete, Crash, Start
<1> DEFINE Typed == /\ api \in [uid : 0..MaxUid, phase : {"none", "wanted", "deleting"}]
                    /\ api.phase # "none" => api.uid \in Uids
<1>3. CASE UNCHANGED api
  BY <1>1, <1>3, Zenon DEF ApiInv, Uids
<1>4. CASE Apply
  <2>1. api.uid \in Nat /\ budget.uids \in 0..MaxUid /\ api.uid < budget.uids /\ MaxUid \in Nat
    BY <1>4, WorkloadAssumption DEF Apply, ApiInv, Budgets
  <2>2. api.uid + 1 \in 0..MaxUid /\ api.uid + 1 \in 1..MaxUid
    BY <2>1
  <2>3. api' = [uid |-> api.uid + 1, phase |-> "wanted"]
    BY <1>4 DEF Apply
  <2>4. Typed'
    BY <2>2, <2>3 DEF Uids
  <2> QED BY <1>1, <2>4, Zenon DEF ApiInv
<1>5. CASE RequestDelete \/ Gone
  <2>1. \E ph \in {"none", "deleting"} : api' = [api EXCEPT !.phase = ph] /\ (ph = "none" \/ api.phase # "none")
    BY <1>5 DEF RequestDelete, Gone
  <2>2. Typed'
    BY <2>1 DEF ApiInv, Uids
  <2> QED BY <1>1, <2>2, Zenon DEF ApiInv
<1> QED BY <1>2, <1>3, <1>4, <1>5, Zenon

-----------------------------------------------------------------------------
(* Probes.                                                                 *)

(***************************************************************************)
(* The flags of the probeState that is stored are backed by the verdicts   *)
(* of its own generation, unless a cancelled prober wrote one.  A          *)
(* generation that is live has a number, NoProbes has none.                *)
(***************************************************************************)
ProbeStates == [gen : 1..MaxGen, has : {Declared(spec.probes)}, startupDone : BOOLEAN, ready : BOOLEAN]

ProbeInv ==
  probes = NoProbes \/
    /\ probes \in ProbeStates
    /\ ~late =>
         /\ probes.startupDone /\ spec.probes["startup"] = "ok" => "startup" \in passed
         /\ probes.ready /\ spec.probes["readiness"] = "ok" => "readiness" \in passed

\* Every probeState of a Pod has the probes its spec declares.
LEMMA SameStates == spec' = spec => ProbeStates' = ProbeStates
BY DEF ProbeStates, Declared

\* Steps that leave the stored flags and the verdicts alone.
LEMMA ProbeFrame == ProbeInv /\ UNCHANGED <<spec, probes, passed, late>> => ProbeInv'
<1> SUFFICES ASSUME ProbeInv, UNCHANGED <<spec, probes, passed, late>> PROVE ProbeInv'
  OBVIOUS
<1>1. spec' = spec /\ probes' = probes /\ passed' = passed /\ (late' <=> late)
  OBVIOUS
<1>2. CASE probes = NoProbes
  BY <1>1, <1>2 DEF ProbeInv
<1>3. CASE probes # NoProbes
  <2>1. probes' \in ProbeStates'
    BY <1>1, <1>3, SameStates DEF ProbeInv
  <2>2. ASSUME ~late'
        PROVE  /\ probes'.startupDone /\ spec'.probes["startup"] = "ok" => "startup" \in passed'
               /\ probes'.ready /\ spec'.probes["readiness"] = "ok" => "readiness" \in passed'
    <3>1. /\ probes.startupDone /\ spec.probes["startup"] = "ok" => "startup" \in passed
          /\ probes.ready /\ spec.probes["readiness"] = "ok" => "readiness" \in passed
      BY <1>1, <1>3, <2>2, Zenon DEF ProbeInv
    <3> QED BY <1>1, <3>1
  <2> QED BY <2>1, <2>2, Zenon DEF ProbeInv
<1> QED BY <1>2, <1>3

\* A set of probers that is stopped leaves no flag.
LEMMA ProbesCleared == probes' = NoProbes => ProbeInv'
BY Zenon DEF ProbeInv

\* startProbes: nothing has passed yet, and no flag says so.
LEMMA ProbesStarted ==
  ASSUME ProbeInv, startProbes(spec.probes), spec' = spec
  PROVE  ProbeInv'
<1>1. CASE UNCHANGED probeVars
  BY <1>1, ProbeFrame, Zenon DEF probeVars
<1>2. CASE ~UNCHANGED probeVars
  <2>1. PICK g \in 1..MaxGen :
          probes' = [gen |-> g, has |-> Declared(spec.probes), ready |-> FALSE,
                     startupDone |-> spec.probes["startup"] # "ok"]
    BY <1>2, Zenon DEF startProbes
  <2>2. /\ probes'.ready = FALSE /\ probes'.startupDone = (spec.probes["startup"] # "ok")
        /\ probes' \in ProbeStates
    BY <2>1 DEF ProbeStates
  <2> QED BY <2>2, SameStates, Zenon DEF ProbeInv
<1> QED BY <1>1, <1>2

\* A verdict of the stored generation sets a flag together with what backs it;
\* one of another generation that changes a flag is noted as late.
LEMMA VerdictRecorded ==
  ASSUME ProbeInv, NEW g \in 1..MaxGen, NEW k \in Kinds, NEW ok,
         Act(g, k, ok), spec' = spec
  PROVE  ProbeInv'
<1> DEFINE v == Verdict(Counted(probers[<<g, k>>], k, ok), k)
<1>1. /\ ~Fails(k, v) /\ probes' = Recorded(k, v)
      /\ passed' = CASE Live(g) /\ v = "good" -> passed \cup {k}
                     [] Live(g) /\ v = "bad"  -> passed \ {k}
                     [] OTHER -> passed
      /\ late' = (late \/ (~Live(g) /\ probes' # probes))
  BY Zenon DEF Act
<1> HIDE DEF v
<1>2. CASE probes' = probes
  <2>1. ~late' => ~late
    BY <1>1, Zenon
  <2>2. \A x \in {"startup", "readiness"} : x \in passed' \/ x \notin passed \/ probes = NoProbes
          \/ (x = "readiness" /\ ~probes.ready)
    <3>1. CASE v = "bad"
      <4>1. k = "readiness"
        BY <1>1, <3>1, Zenon DEF Fails
      <4>2. probes = NoProbes \/ ~probes.ready
        <5>1. CASE probes # NoProbes
          <6>1. probes' = [probes EXCEPT !.ready = FALSE]
            BY <1>1, <3>1, <4>1, <5>1 DEF Recorded
          <6> QED BY <1>2, <5>1, <6>1 DEF ProbeInv, ProbeStates
        <5> QED BY <5>1
      <4> QED BY <1>1, <3>1, <4>1, <4>2
    <3> QED BY <1>1, <3>1
  <2> QED BY <1>2, <2>1, <2>2, SameStates, Zenon DEF ProbeInv
<1>3. CASE probes' # probes
  <2>1. probes # NoProbes
    BY <1>1, <1>3, Zenon DEF Recorded
  <2>2. CASE ~Live(g)
    <3>1. late'
      BY <1>1, <1>3, <2>2, Zenon
    <3>2. probes' \in ProbeStates
      BY <1>1, <2>1 DEF Recorded, ProbeInv, ProbeStates
    <3> QED BY <3>1, <3>2, SameStates, Zenon DEF ProbeInv
  <2>3. CASE Live(g)
    <3>1. CASE k = "startup" /\ v = "good"
      <4>1. probes' = [probes EXCEPT !.startupDone = TRUE]
        BY <1>1, <2>1, <3>1 DEF Recorded
      <4>2. probes' \in ProbeStates /\ probes'.ready = probes.ready
        BY <2>1, <4>1 DEF ProbeInv, ProbeStates
      <4>3. "startup" \in passed' /\ ("readiness" \in passed => "readiness" \in passed')
        BY <1>1, <2>3, <3>1, Zenon
      <4>4. ~late' => ~late
        BY <1>1, Zenon
      <4> QED BY <2>1, <4>2, <4>3, <4>4, SameStates, Zenon DEF ProbeInv
    <3>2. CASE k = "readiness" /\ v # "none"
      <4>1. probes' = [probes EXCEPT !.ready = (v = "good")]
        BY <1>1, <2>1, <3>2 DEF Recorded
      <4>2. /\ probes' \in ProbeStates /\ probes'.startupDone = probes.startupDone
            /\ probes'.ready => v = "good"
        BY <2>1, <4>1 DEF ProbeInv, ProbeStates
      <4>3. ("startup" \in passed => "startup" \in passed') /\ (v = "good" => "readiness" \in passed')
        BY <1>1, <2>3, <3>2
      <4>4. ~late' => ~late
        BY <1>1, Zenon
      <4> QED BY <2>1, <4>2, <4>3, <4>4, SameStates, Zenon DEF ProbeInv
    <3> QED BY <1>1, <1>3, <2>1, <3>1, <3>2 DEF Recorded
  <2> QED BY <2>2, <2>3
<1> QED BY <1>2, <1>3

\* Every step keeps it.
LEMMA NextProbes == ASSUME ProbeInv, [Next]_vars PROVE ProbeInv'
<1>0. spec' = spec
  BY SpecStays
<1>1. CASE Apply \/ RequestDelete \/ EditObject \/ GuestReady \/ GuestFails
  BY <1>1, ProbeFrame, Zenon
     DEF Apply, RequestDelete, EditObject, GuestReady, GuestFails, probeVars
<1>2. CASE Translate \/ LaunchFails \/ AdoptFails \/ Reconcile \/ RestartFails \/ Start
  BY <1>2, ProbeFrame, Zenon
     DEF Translate, LaunchFails, AdoptFails, Reconcile, RestartFails, Start, probeVars
<1>3. ASSUME NEW ok \in BOOLEAN, EnsureDirs(ok) \/ WriteFile(ok) \/ Lookup(ok) \/ Pull(ok) \/ Delete(ok)
      PROVE  ProbeInv'
  BY <1>3, ProbeFrame, Zenon DEF EnsureDirs, WriteFile, Lookup, Pull, Delete, probeVars
<1>4. ASSUME NEW ok \in BOOLEAN, Launch(ok) \/ Adopt(ok) \/ RestartEnd(ok) PROVE ProbeInv'
  <2>1. startProbes(spec.probes) \/ UNCHANGED probeVars
    BY <1>4, Zenon DEF Launch, Adopt, RestartEnd, Commit
  <2> QED BY <1>0, <2>1, ProbesStarted, ProbeFrame, Zenon DEF probeVars
<1>5. CASE RestartBegin \/ Crash
  BY <1>5, ProbesCleared, Zenon DEF RestartBegin, Crash, stopProbes
<1>6. CASE Forget
  BY <1>0, <1>6, ProbesCleared, ProbeFrame, Zenon DEF Forget, stopProbes, probeVars
<1>7. ASSUME NEW g \in 1..MaxGen, NEW k \in Kinds, Prober(g, k) PROVE ProbeInv'
  <2>1. CASE ProberLeaves(g, k) \/ \E ok \in BOOLEAN : Probe(g, k, ok)
    BY <1>0, <2>1, ProbeFrame, Zenon DEF ProberLeaves, Leave, Probe, Attempt
  <2>2. CASE ProbeActs(g, k)
    <3>1. PICK ok \in Answers(g, k) : Act(g, k, ok)
      BY <2>2, Zenon DEF ProbeActs
    <3> QED BY <1>0, <3>1, VerdictRecorded, Zenon
  <2>3. CASE ProbeCondemns(g, k)
    <3>1. PICK ok \in BOOLEAN : failProbe(ok)
      BY <2>3, Zenon DEF ProbeCondemns
    <3> QED BY <1>0, <3>1, ProbesCleared, ProbeFrame, Zenon DEF failProbe
  <2> QED BY <1>7, <2>1, <2>2, <2>3, Zenon DEF Prober
<1>8. CASE UNCHANGED vars
  BY <1>8, ProbeFrame, Zenon DEF vars, probeVars
<1> QED BY <1>1, <1>2, <1>3, <1>4, <1>5, <1>6, <1>7, <1>8, Zenon DEF Next, CreateSteps

(***************************************************************************)
(* A Pod that has probers is reported Ready only on the good verdicts of   *)
(* its own startup and readiness probers, unless a cancelled prober's      *)
(* verdict came in late.                                                   *)
(***************************************************************************)
THEOREM ReadinessIsEarned == Spec => []ReadyIsProbed
<1>1. Init => ProbeInv
  BY Zenon DEF Init, probeInit, ProbeInv
<1>2. ProbeInv => ReadyIsProbed
  <2> SUFFICES ASSUME ProbeInv, ReportedReady, probes # NoProbes, ~late, NEW k \in Gates
               PROVE  k \in passed
    BY Zenon DEF ReadyIsProbed
  <2>1. probes.has = Declared(spec.probes)
    BY DEF ProbeInv, ProbeStates
  <2>2. k \in {"startup", "readiness"} /\ spec.probes[k] = "ok"
    BY Zenon DEF Gates
  <2>3. k \in probes.has
    BY <2>1, <2>2 DEF Declared, Kinds
  <2>4. started /\ ("readiness" \in probes.has => probes.ready)
    BY Zenon DEF ReportedReady, probeReadiness
  <2>5. "startup" \in probes.has => probes.startupDone
    BY <2>4, Zenon DEF started, startupDone, hasStartupProbe
  <2> QED BY <2>2, <2>3, <2>4, <2>5, Zenon DEF ProbeInv
<1> QED BY <1>1, <1>2, NextProbes, PTL DEF Spec

-----------------------------------------------------------------------------
(* Who is at work, and on what spec.                                       *)

IsCall(c) == c = [pc |-> c.pc, uid |-> c.uid, run |-> c.run, seen |-> c.seen, todo |-> c.todo]
IsPod(q)  == q = [uid |-> q.uid, st |-> q.st, restarting |-> q.restarting, run |-> q.run, seen |-> q.seen]
IsVM(v)   == v = [uid |-> v.uid, run |-> v.run, seen |-> v.seen, guest |-> v.guest]

\* run is what translatePod made of the Pod, for that UID and those objects.
Resolved(uid, seen, run) == translatePod(spec, uid, seen) = Got(run)

Creating == {"dirs", "files", "pull", "launch", "adopt"}

(***************************************************************************)
(* Nothing is tracked, and so nothing restarts, while a call of CreatePod  *)
(* or DeletePod is between its steps.                                      *)
(***************************************************************************)
CallInv ==
  call # Idle =>
    /\ IsCall(call) /\ call.uid \in Uids /\ call.pc \in Creating \cup {"delete"}
    /\ pod = NoPod
    /\ call.pc # "delete" => Resolved(call.uid, call.seen, call.run)

\* A tracked Pod keeps the spec its call built; only one that runs restarts.
PodInv ==
  /\ pod # NoPod =>
       /\ IsPod(pod) /\ pod.uid \in Uids /\ pod.st \in {"running", "terminal"}
       /\ pod.st = "running" => Resolved(pod.uid, pod.seen, pod.run)
  /\ restart # "none" => pod.st = "running" /\ spec.policy # "Never"

VMInv == vm # NoVM => IsVM(vm) /\ Resolved(vm.uid, vm.seen, vm.run)

WorkInv == CallInv /\ PodInv /\ VMInv

LEMMA AtRest == /\ Idle.pc = "idle" /\ IsCall(Idle) /\ NoPod.st = "none" /\ NoVM.guest = "none"
                /\ IsPod(NoPod) /\ IsVM(NoVM)
BY DEF Idle, NoPod, NoVM, IsCall, IsPod, IsVM

\* A translation that succeeds is the value of a result.
LEMMA TranslationGot ==
  ASSUME NEW p, NEW u, NEW s, translatePod(p, u, s).err = "ok"
  PROVE  /\ translatePod(p, u, s) = Got(translatePod(p, u, s).val)
         /\ resolveVolumes(p, u, s).err = "ok" /\ resolveEnv(p, u, s).err = "ok"
         /\ translatePod(p, u, s).val
              = translateContainer(p, resolveEnv(p, u, s).val, resolveVolumes(p, u, s).val)
<1> DEFINE a == resolveVolumes(p, u, s)
           b == resolveEnv(p, u, s)
           t == translatePod(p, u, s)
           r == CASE a.err # "ok" -> a
                  [] a.err = "ok" /\ b.err # "ok" -> b
                  [] OTHER -> Got(translateContainer(p, b.val, a.val))
<1>1. unsupportedReasons(p) = {}
  BY DEF translatePod, Failed
<1>2. t \in {r}
  BY <1>1 DEF translatePod, With
<1> HIDE DEF a, b
<1>3. r = t
  BY <1>2, Zenon
<1> HIDE DEF t
<1>4. a.err = "ok" /\ b.err = "ok"
  BY <1>3 DEF t
<1>5. t = Got(translateContainer(p, b.val, a.val))
  BY <1>3, <1>4
<1>6. Got(translateContainer(p, b.val, a.val)).val = translateContainer(p, b.val, a.val)
  BY DEF Got
<1> QED BY <1>4, <1>5, <1>6, Zenon DEF a, b, t

\* Each part only depends on what it is about.
LEMMA CallFrame == CallInv /\ UNCHANGED <<spec, call, pod>> => CallInv'
BY Zenon DEF CallInv, Resolved

LEMMA PodFrame == PodInv /\ UNCHANGED <<spec, pod, restart>> => PodInv'
BY Zenon DEF PodInv, Resolved

LEMMA VMFrame == VMInv /\ UNCHANGED <<spec, vm>> => VMInv'
BY Zenon DEF VMInv, Resolved

\* A call that is not there claims nothing.
LEMMA CallEnds == call' = Idle => CallInv'
BY Zenon DEF CallInv

LEMMA PodEnds == pod' = NoPod /\ restart' = "none" => PodInv'
BY Zenon DEF PodInv

LEMMA VMEnds == vm' = NoVM => VMInv'
BY Zenon DEF VMInv

\* A call is at work only while nothing is tracked, and so nothing restarts.
LEMMA AtWork ==
  ASSUME WorkInv, NEW pc \in Creating \cup {"delete"}, call.pc = pc
  PROVE  /\ call # Idle /\ IsCall(call) /\ call.uid \in Uids
         /\ pod = NoPod /\ restart = "none"
         /\ pc # "delete" => Resolved(call.uid, call.seen, call.run)
<1>1. call # Idle
  BY AtRest DEF Creating
<1>2. pod.st = "none" => restart = "none"
  BY DEF WorkInv, PodInv
<1> QED BY <1>1, <1>2, AtRest, Zenon DEF WorkInv, CallInv

\* A step within a call keeps its UID and its spec.
LEMMA CallGoesOn ==
  ASSUME WorkInv, call.pc \in Creating, UNCHANGED <<spec, pod>>,
         NEW pc \in Creating, NEW todo,
         call' = [call EXCEPT !.pc = pc] \/ call' = [call EXCEPT !.todo = todo]
  PROVE  CallInv'
<1>1. IsCall(call) /\ call.uid \in Uids /\ pod = NoPod /\ Resolved(call.uid, call.seen, call.run)
  BY AtWork, Zenon DEF Creating
<1>2. /\ IsCall(call') /\ call'.pc \in Creating \cup {"delete"}
      /\ call'.uid = call.uid /\ call'.seen = call.seen /\ call'.run = call.run
  BY <1>1 DEF IsCall
<1> QED BY <1>1, <1>2, Zenon DEF CallInv, Resolved

\* markTerminalFailure tracks a Pod that will not run.
LEMMA TerminalKept ==
  ASSUME NEW uid \in Uids, markTerminalFailure(uid), UNCHANGED restart, restart = "none"
  PROVE  PodInv'
<1>1. IsPod(pod') /\ pod'.uid = uid /\ pod'.st = "terminal"
  BY DEF markTerminalFailure, NoPod, IsPod
<1> QED BY <1>1 DEF PodInv

\* The restart's flag is all it changes in the entry.
LEMMA FlagKept ==
  ASSUME PodInv, pod.st = "running", UNCHANGED spec, NEW b, pod' = [pod EXCEPT !.restarting = b],
         restart' = "none" \/ spec.policy # "Never"
  PROVE  PodInv'
<1>1. pod # NoPod /\ IsPod(pod) /\ pod.uid \in Uids /\ Resolved(pod.uid, pod.seen, pod.run)
  BY AtRest DEF PodInv
<1>2. /\ IsPod(pod') /\ pod'.st = "running"
      /\ pod'.uid = pod.uid /\ pod'.seen = pod.seen /\ pod'.run = pod.run
  BY <1>1 DEF IsPod
<1> QED BY <1>1, <1>2 DEF PodInv, Resolved

\* A guest that changes keeps the spec its micro-VM was made of.
LEMMA GuestKept ==
  ASSUME VMInv, vm # NoVM, UNCHANGED spec, NEW g, vm' = [vm EXCEPT !.guest = g]
  PROVE  VMInv'
<1>1. IsVM(vm) /\ Resolved(vm.uid, vm.seen, vm.run)
  BY DEF VMInv
<1>2. IsVM(vm') /\ vm'.uid = vm.uid /\ vm'.seen = vm.seen /\ vm'.run = vm.run
  BY <1>1 DEF IsVM
<1> QED BY <1>1, <1>2, Zenon DEF VMInv, Resolved

\* A micro-VM is made of a spec that was resolved.
LEMMA VMMade ==
  ASSUME NEW u, NEW s, NEW r, NEW g, Resolved(u, s, r), UNCHANGED spec,
         vm' = [uid |-> u, run |-> r, seen |-> s, guest |-> g]
  PROVE  VMInv'
<1>1. IsVM(vm') /\ vm'.uid = u /\ vm'.seen = s /\ vm'.run = r
  BY DEF IsVM
<1> QED BY <1>1, Zenon DEF VMInv, Resolved

\* Launch and Adopt: the Pod is tracked with the spec of its call.
LEMMA CommitKeeps ==
  ASSUME WorkInv, NEW g, NEW ok, Commit(g, ok), UNCHANGED spec, call.pc \in {"launch", "adopt"}
  PROVE  CallInv' /\ PodInv'
<1> DEFINE again == ok /\ g = "exited" /\ spec.policy # "Never"
<1>1. call.uid \in Uids /\ restart = "none" /\ Resolved(call.uid, call.seen, call.run)
  BY AtWork DEF Creating
<1>2. /\ pod' = [uid |-> call.uid, st |-> "running", restarting |-> again, run |-> call.run, seen |-> call.seen]
      /\ restart' # "none" => spec.policy # "Never"
      /\ call' = Idle
  BY <1>1, Zenon DEF Commit, Return
<1>3. /\ IsPod(pod') /\ pod'.st = "running"
      /\ pod'.uid = call.uid /\ pod'.seen = call.seen /\ pod'.run = call.run
  BY <1>2 DEF IsPod
<1>4. PodInv'
  BY <1>1, <1>2, <1>3 DEF PodInv, Resolved
<1> QED BY <1>2, <1>4, CallEnds

\* Translate starts a call on a spec it has resolved, or tracks the failure.
LEMMA TranslateKeeps == ASSUME WorkInv, ApiInv, Translate PROVE WorkInv'
<1> DEFINE t == translatePod(spec, api.uid, objs)
<1>1. api.uid \in Uids /\ call = Idle /\ pod = NoPod /\ Translated(t) /\ UNCHANGED <<spec, vm, restart>>
  BY Zenon DEF Translate, ApiInv
<1>2. restart = "none"
  BY <1>1, AtRest DEF WorkInv, PodInv
<1>3. VMInv'
  BY <1>1, VMFrame, Zenon DEF WorkInv
<1> HIDE DEF t
<1>4. CASE t.err = "ok"
  <2>1. /\ call' = [pc |-> "dirs", uid |-> api.uid, run |-> t.val, seen |-> objs, todo |-> Positions(t.val.mounts)]
        /\ pod' = pod
    BY <1>1, <1>4 DEF Translated
  <2>2. /\ IsCall(call') /\ call'.pc = "dirs" /\ call'.uid = api.uid /\ call'.seen = objs /\ call'.run = t.val
    BY <2>1 DEF IsCall
  <2>3. translatePod(spec, api.uid, objs) = Got(t.val)
    BY <1>4, TranslationGot, Zenon DEF t
  <2>4. CallInv'
    BY <1>1, <2>1, <2>2, <2>3, Zenon DEF CallInv, Resolved, Creating
  <2> QED BY <1>1, <1>3, <2>1, <2>4, PodFrame, Zenon DEF WorkInv
<1>5. CASE t.err = "pending"
  BY <1>1, <1>3, <1>5, CallFrame, PodFrame DEF Translated, WorkInv
<1>6. CASE t.err \notin {"ok", "pending"}
  <2>1. markTerminalFailure(api.uid) /\ call' = call
    BY <1>1, <1>6 DEF Translated
  <2>2. PodInv' /\ CallInv'
    BY <1>1, <1>2, <2>1, TerminalKept, CallEnds, Zenon
  <2> QED BY <1>3, <2>2, Zenon DEF WorkInv
<1> QED BY <1>4, <1>5, <1>6

\* The steps of CreatePod before the micro-VM.
LEMMA PrepareKeeps ==
  ASSUME WorkInv, NEW ok, EnsureDirs(ok) \/ WriteFile(ok) \/ Lookup(ok) \/ Pull(ok)
  PROVE  WorkInv'
<1>1. call.pc \in Creating /\ UNCHANGED <<spec, vm, restart>>
  BY Zenon DEF EnsureDirs, WriteFile, Lookup, Pull, Creating
<1>2. VMInv'
  BY <1>1, VMFrame, Zenon DEF WorkInv
<1>3. call.uid \in Uids /\ restart = "none" /\ pod = NoPod
  BY <1>1, AtWork, Zenon
<1>4. \/ UNCHANGED pod /\ (Return \/ (\E pc \in Creating : GoTo(pc)) \/ (\E x : call' = [call EXCEPT !.todo = @ \ {x}]))
      \/ Return /\ markTerminalFailure(call.uid)
  <2>1. CASE EnsureDirs(ok)
    BY <2>1, Zenon DEF EnsureDirs, Creating
  <2>2. CASE WriteFile(ok)
    BY <2>2, Zenon DEF WriteFile
  <2>3. CASE Lookup(ok)
    BY <2>3, Zenon DEF Lookup, Creating
  <2>4. CASE Pull(ok)
    BY <2>4, Zenon DEF Pull, Creating
  <2> QED BY <2>1, <2>2, <2>3, <2>4
<1>5. CallInv'
  BY <1>1, <1>4, CallGoesOn, CallEnds, Zenon DEF Return, GoTo
<1>6. PodInv'
  BY <1>1, <1>3, <1>4, TerminalKept, PodFrame, Zenon DEF WorkInv
<1> QED BY <1>2, <1>5, <1>6, Zenon DEF WorkInv

\* Starting a micro-VM that is there keeps what it was made of.
LEMMA BootKeeps == ASSUME VMInv, vm # NoVM, UNCHANGED spec, vm' = Booted(vm) PROVE VMInv'
BY GuestKept, VMFrame, Zenon DEF Booted

\* The steps of CreatePod that make or take over the micro-VM.
LEMMA LaunchKeeps ==
  ASSUME WorkInv, NEW ok, Launch(ok) \/ Adopt(ok) \/ LaunchFails \/ AdoptFails
  PROVE  WorkInv'
<1>1. spec' = spec /\ call.pc \in {"launch", "adopt"}
  BY Zenon DEF Launch, Adopt, LaunchFails, AdoptFails
<1>2. restart = "none" /\ Resolved(call.uid, call.seen, call.run)
  BY <1>1, AtWork DEF Creating
<1>3. CallInv' /\ PodInv'
  <2>1. CASE Launch(ok) \/ Adopt(ok)
    BY <1>1, <2>1, CommitKeeps, Zenon DEF Launch, Adopt
  <2>2. CASE LaunchFails \/ AdoptFails
    BY <1>1, <2>2, PodFrame, CallEnds, Zenon DEF LaunchFails, AdoptFails, WorkInv, Return
  <2> QED BY <2>1, <2>2
<1>4. \/ vm' = vm \/ vm' = NoVM \/ vm' = Launched \/ (vm # NoVM /\ vm' = Booted(vm))
  BY Zenon DEF Launch, Adopt, LaunchFails, AdoptFails
<1>5. VMInv'
  BY <1>1, <1>2, <1>4, VMFrame, VMEnds, VMMade, BootKeeps, Zenon DEF WorkInv, Launched
<1> QED BY <1>3, <1>5, Zenon DEF WorkInv

\* A restart makes its micro-VM of the spec the entry keeps.
LEMMA RestartKeeps ==
  ASSUME WorkInv, Reconcile \/ RestartBegin \/ RestartFails \/ (\E ok : RestartEnd(ok))
  PROVE  WorkInv'
<1>1. UNCHANGED <<spec, call>> /\ pod.st = "running" /\ spec.policy # "Never"
  BY DEF Reconcile, RestartBegin, RestartFails, RestartEnd, WorkInv, PodInv
<1>2. pod # NoPod /\ Resolved(pod.uid, pod.seen, pod.run) /\ call = Idle
  BY <1>1, AtRest DEF WorkInv, PodInv, CallInv
<1>3. CallInv'
  BY <1>1, <1>2, CallEnds, Zenon
<1>4. pod' = pod \/ \E b \in BOOLEAN : pod' = [pod EXCEPT !.restarting = b]
  BY Zenon DEF Reconcile, RestartBegin, RestartFails, RestartEnd
<1>5. PodInv'
  <2>1. CASE pod' = pod
    BY <1>1, <1>2, <2>1 DEF WorkInv, PodInv, Resolved
  <2>2. CASE pod' # pod
    BY <1>1, <1>4, <2>2, FlagKept, Zenon DEF WorkInv
  <2> QED BY <2>1, <2>2
<1>6. \/ vm' = vm \/ vm' = NoVM \/ vm' = Rebuilt
      \/ (vm # NoVM /\ (vm' = Booted(vm) \/ vm' = [vm EXCEPT !.guest = "booting"]))
  BY Zenon DEF Reconcile, RestartBegin, RestartFails, RestartEnd
<1>7. VMInv'
  BY <1>1, <1>2, <1>6, VMFrame, VMEnds, VMMade, BootKeeps, GuestKept, Zenon DEF WorkInv, Rebuilt
<1> QED BY <1>3, <1>5, <1>7, Zenon DEF WorkInv

\* A verdict restarts the Pod or fails it; DeletePod forgets it first.
LEMMA ProberKeeps == ASSUME WorkInv, NEW g, NEW k, Prober(g, k) PROVE WorkInv'
<1>1. UNCHANGED <<spec, call>>
  BY Zenon DEF Prober, Probe, ProbeActs, ProbeCondemns, ProberLeaves
<1>2. UNCHANGED <<pod, vm, restart>> \/ \E ok \in BOOLEAN : failProbe(ok)
  BY Zenon DEF Prober, Probe, ProbeActs, ProbeCondemns, ProberLeaves
<1>3. CASE UNCHANGED <<pod, vm, restart>>
  BY <1>1, <1>3, CallFrame, PodFrame, VMFrame, Zenon DEF WorkInv
<1>4. ASSUME NEW ok \in BOOLEAN, failProbe(ok), ~UNCHANGED <<pod, vm, restart>> PROVE WorkInv'
  <2>1. pod.st = "running"
    BY <1>4, Zenon DEF failProbe
  <2>2. pod # NoPod /\ call = Idle
    BY <2>1, AtRest DEF WorkInv, CallInv
  <2>3. CallInv'
    BY <1>1, <2>2, CallEnds, Zenon
  <2>4. VMInv'
    <3>1. vm' = vm \/ vm' = NoVM
      BY <1>4, Zenon DEF failProbe
    <3> QED BY <1>1, <3>1, VMFrame, VMEnds, Zenon DEF WorkInv
  <2>5. PodInv'
    <3>1. CASE spec.policy # "Never"
      <4>1. pod' = [pod EXCEPT !.restarting = TRUE]
        BY <1>4, <2>1, <3>1, Zenon DEF failProbe
      <4> QED BY <1>1, <2>1, <3>1, <4>1, FlagKept, Zenon DEF WorkInv
    <3>2. CASE spec.policy = "Never"
      <4>1. pod' = [pod EXCEPT !.st = "terminal"] /\ restart' = restart
        BY <1>4, <2>1, <3>2 DEF failProbe
      <4>2. restart = "none" /\ IsPod(pod) /\ pod.uid \in Uids
        BY <2>2, <3>2 DEF WorkInv, PodInv
      <4>3. IsPod(pod') /\ pod'.st = "terminal" /\ pod'.uid = pod.uid
        BY <4>1, <4>2 DEF IsPod
      <4> QED BY <4>1, <4>2, <4>3 DEF PodInv
    <3> QED BY <3>1, <3>2
  <2> QED BY <2>3, <2>4, <2>5, Zenon DEF WorkInv
<1> QED BY <1>2, <1>3, <1>4, Zenon

LEMMA DeleteKeeps == ASSUME WorkInv, Forget \/ (\E ok : Delete(ok)) PROVE WorkInv'
<1>1. spec' = spec /\ restart' = restart
  BY Zenon DEF Forget, Delete
<1>2. CASE Forget
  <2>1. UNCHANGED <<call, pod>> \/ (pod # NoPod /\ pod' = NoPod /\ call' = [Idle EXCEPT !.pc = "delete", !.uid = pod.uid])
    BY <1>2, Zenon DEF Forget
  <2>2. vm' = vm /\ restart = "none"
    BY <1>2, Zenon DEF Forget
  <2>3. CASE UNCHANGED <<call, pod>>
    BY <1>1, <2>2, <2>3, CallFrame, PodFrame, VMFrame, Zenon DEF WorkInv
  <2>4. CASE pod # NoPod /\ pod' = NoPod /\ call' = [Idle EXCEPT !.pc = "delete", !.uid = pod.uid]
    <3>1. pod.uid \in Uids
      BY <2>4, Zenon DEF WorkInv, PodInv
    <3>2. IsCall(call') /\ call'.pc = "delete" /\ call'.uid = pod.uid
      BY <2>4 DEF IsCall, Idle
    <3>3. CallInv'
      BY <2>4, <3>1, <3>2, Zenon DEF CallInv
    <3> QED BY <1>1, <2>2, <2>4, <3>3, PodEnds, VMFrame, Zenon DEF WorkInv
  <2> QED BY <2>1, <2>3, <2>4, Zenon
<1>3. ASSUME NEW ok, Delete(ok) PROVE WorkInv'
  <2>1. call' = Idle /\ pod' = pod /\ (vm' = vm \/ vm' = NoVM)
    BY <1>3, Zenon DEF Delete, Return
  <2> QED BY <1>1, <2>1, CallEnds, PodFrame, VMFrame, VMEnds, Zenon DEF WorkInv
<1> QED BY <1>2, <1>3, Zenon

\* What a kubelet that dies leaves behind was made of a resolved spec.
LEMMA CrashKeeps == ASSUME WorkInv, Crash PROVE WorkInv'
<1>1. spec' = spec /\ call' = Idle /\ pod' = NoPod /\ restart' = "none"
  BY Zenon DEF Crash, Return
<1>2. \/ vm' = vm \/ vm' = NoVM
      \/ call.pc = "launch" /\ vm' = Launched
      \/ restart = "working" /\ vm' = Rebuilt
  BY Zenon DEF Crash
<1>3. call.pc = "launch" => Resolved(call.uid, call.seen, call.run)
  BY AtWork DEF Creating
<1>4. restart = "working" => Resolved(pod.uid, pod.seen, pod.run)
  BY AtRest DEF WorkInv, PodInv
<1>5. VMInv'
  BY <1>1, <1>2, <1>3, <1>4, VMFrame, VMEnds, VMMade, Zenon DEF WorkInv, Launched, Rebuilt
<1> QED BY <1>1, <1>5, CallEnds, PodEnds, Zenon DEF WorkInv

\* Every step keeps it.
LEMMA NextWork == ASSUME WorkInv, ApiInv, [Next]_vars PROVE WorkInv'
<1>1. CASE Apply \/ RequestDelete \/ EditObject \/ Start \/ UNCHANGED vars
  BY <1>1, CallFrame, PodFrame, VMFrame, Zenon DEF Apply, RequestDelete, EditObject, Start, vars, WorkInv
<1>2. CASE GuestReady \/ GuestFails
  <2>1. UNCHANGED <<spec, call, pod, restart>> /\ \E g : vm' = [vm EXCEPT !.guest = g]
    BY <1>2, Zenon DEF GuestReady, GuestFails
  <2>2. vm # NoVM
    BY <1>2, AtRest DEF GuestReady, GuestFails
  <2> QED BY <2>1, <2>2, CallFrame, PodFrame, GuestKept, Zenon DEF WorkInv
<1>3. CASE CreateSteps
  BY <1>3, TranslateKeeps, PrepareKeeps, LaunchKeeps, Zenon DEF CreateSteps
<1>4. CASE Reconcile \/ RestartBegin \/ RestartFails \/ (\E ok \in BOOLEAN : RestartEnd(ok))
  BY <1>4, RestartKeeps, Zenon
<1>5. ASSUME NEW g \in 1..MaxGen, NEW k \in Kinds, Prober(g, k) PROVE WorkInv'
  BY <1>5, ProberKeeps, Zenon
<1>6. CASE Forget \/ (\E ok \in BOOLEAN : Delete(ok)) \/ Crash
  BY <1>6, DeleteKeeps, CrashKeeps, Zenon
<1> QED BY <1>1, <1>2, <1>3, <1>4, <1>5, <1>6, Zenon DEF Next

-----------------------------------------------------------------------------
(* Mounts, and the files under them.                                       *)

\* What Gather returns when nothing failed.
LEMMA GatherOk ==
  ASSUME NEW rs, DOMAIN rs \subseteq Nat, Gather(rs).err = "ok"
  PROVE  /\ \A i \in DOMAIN rs : rs[i].err = "ok"
         /\ Gather(rs).val = [i \in DOMAIN rs |-> rs[i].val]
<1> DEFINE bad == {i \in DOMAIN rs : rs[i].err # "ok"}
           r   == IF bad # {} THEN Failed(rs[Min(bad)].err) ELSE Got([i \in DOMAIN rs |-> rs[i].val])
<1>1. Gather(rs) \in {r}
  BY DEF Gather, With
<1>2. r.err = "ok" /\ Gather(rs) = r
  BY <1>1
<1>3. bad = {}
  <2>1. CASE bad # {}
    <3>1. Min(bad) \in bad
      BY <2>1, MinInSet, Zenon
    <3>2. Failed(rs[Min(bad)].err).err = "ok"
      BY <1>2, <2>1, Zenon
    <3> QED BY <3>1, <3>2 DEF Failed
  <2> QED BY <2>1
<1> QED BY <1>2, <1>3 DEF Got

\* A mount that is backed is backed by its volume's own directory, and the
\* files are its volume's.
LEMMA MountOk ==
  ASSUME NEW u, NEW s, NEW vol, NEW m, resolveMount(u, s, vol, m).err = "ok"
  PROVE  /\ resolveMount(u, s, vol, m).val.dir \in {"", m.volume}
         /\ resolveMount(u, s, vol, m).val.files = VolumeFiles(u, s, vol).val
<1> DEFINE backed == vol.kind # "hostPath" /\ ~(vol.kind = "emptyDir" /\ vol.medium = "Memory")
           v == VolumeFiles(u, s, vol)
           t == [target |-> m.target, dir |-> IF backed THEN m.volume ELSE "",
                 readOnly |-> \/ vol.kind \in {"configMap", "secret", "projected"}
                              \/ m.readOnly /\ (backed \/ vol.kind = "hostPath"),
                 files |-> v.val]
           r == resolveMount(u, s, vol, m)
<1>1. ~(m.subPath \/ m.target = "relative")
  BY DEF resolveMount, Failed
<1>2. r \in {IF v.err # "ok" THEN v ELSE Got(t)}
  BY <1>1, Zenon DEF resolveMount, With
<1>3. t.dir \in {"", m.volume} /\ t.files = v.val
  OBVIOUS
<1>0. r.err = "ok"
  BY Zenon
<1> HIDE DEF v, t, r
<1>4. r = Got(t)
  <2>1. r = IF v.err # "ok" THEN v ELSE Got(t)
    BY <1>2, Zenon
  <2> QED BY <1>0, <2>1, Zenon
<1>5. r.val = t
  BY <1>4 DEF Got
<1> QED BY <1>3, <1>5, Zenon DEF v, r

\* Two mounts under one directory are of one volume, and so hold the same files.
SameDirSameFiles(mounts) ==
  \A i, j \in DOMAIN mounts :
    mounts[i].dir # "" /\ mounts[i].dir = mounts[j].dir => mounts[i].files = mounts[j].files

LEMMA VolumesOk ==
  ASSUME NEW p \in PodSet, NEW u, NEW s, resolveVolumes(p, u, s).err = "ok"
  PROVE  SameDirSameFiles(resolveVolumes(p, u, s).val)
<1> DEFINE Vol(i) == byName(p)[p.mounts[i].volume]
<1>1. PICK rs : rs = [i \in takenMounts(p) |-> resolveMount(u, s, Vol(i), p.mounts[i])]
  OBVIOUS
<1>2. DOMAIN rs = takenMounts(p) /\ DOMAIN rs \subseteq Nat
  BY <1>1, PodShape DEF takenMounts
<1>3. resolveVolumes(p, u, s) = Gather(rs)
  BY <1>1 DEF resolveVolumes, Failed
<1>4. PICK val : val = resolveVolumes(p, u, s).val
  OBVIOUS
<1>5. (\A i \in DOMAIN rs : rs[i].err = "ok") /\ val = [i \in DOMAIN rs |-> rs[i].val]
  BY <1>2, <1>3, <1>4, GatherOk
<1> HIDE DEF Vol
<1>6. ASSUME NEW i \in DOMAIN rs
      PROVE  /\ val[i].dir \in {"", p.mounts[i].volume}
             /\ val[i].files = VolumeFiles(u, s, Vol(i)).val
  <2>1. PICK v, m : v = Vol(i) /\ m = p.mounts[i]
    OBVIOUS
  <2>2. rs[i] = resolveMount(u, s, v, m) /\ rs[i].err = "ok" /\ val[i] = rs[i].val
    BY <1>1, <1>2, <1>5, <2>1
  <2>3. resolveMount(u, s, v, m).err = "ok" /\ val[i] = resolveMount(u, s, v, m).val
    BY <2>2, Zenon
  <2>4. /\ resolveMount(u, s, v, m).val.dir \in {"", m.volume}
        /\ resolveMount(u, s, v, m).val.files = VolumeFiles(u, s, v).val
    BY <2>3, MountOk, Zenon
  <2> QED BY <2>1, <2>3, <2>4, Zenon
<1>7. ASSUME NEW i \in DOMAIN val, NEW j \in DOMAIN val, val[i].dir # "", val[i].dir = val[j].dir
      PROVE  val[i].files = val[j].files
  <2>1. i \in DOMAIN rs /\ j \in DOMAIN rs
    BY <1>5
  <2>2. p.mounts[i].volume = p.mounts[j].volume
    BY <1>6, <1>7, <2>1, Zenon
  <2> QED BY <1>6, <2>1, <2>2, Zenon DEF Vol
<1> QED BY <1>4, <1>7, Zenon DEF SameDirSameFiles

\* The mounts of a spec that was resolved.
LEMMA MountsResolved ==
  ASSUME spec \in PodSet, NEW u, NEW s, NEW run, Resolved(u, s, run)
  PROVE  SameDirSameFiles(run.mounts)
<1>1. translatePod(spec, u, s).err = "ok" /\ translatePod(spec, u, s).val = run
  BY DEF Resolved, Got
<1>2. /\ resolveVolumes(spec, u, s).err = "ok"
      /\ run = translateContainer(spec, resolveEnv(spec, u, s).val, resolveVolumes(spec, u, s).val)
  BY <1>1, TranslationGot, Zenon
<1>3. run.mounts = resolveVolumes(spec, u, s).val
  BY <1>2 DEF translateContainer
<1> QED BY <1>2, <1>3, VolumesOk

-----------------------------------------------------------------------------
(* The volume tree.                                                        *)

IsTree(t) == t = [dirs |-> t.dirs, files |-> t.files]

\* File f of mount m is in tree t, with what one of the mount's files of that
\* path says.
Held(t, m, f) ==
  /\ <<m.dir, f.path>> \in DOMAIN t.files
  /\ \E j \in DOMAIN m.files :
       m.files[j].path = f.path /\ m.files[j].data = t.files[<<m.dir, f.path>>].data

\* The directories of the mounts are there, and all their files but those in todo.
DirsMade(t, mounts) == \A i \in DOMAIN mounts : mounts[i].dir # "" => mounts[i].dir \in t.dirs
FilesHeld(t, mounts, todo) ==
  \A i \in DOMAIN mounts : \A j \in DOMAIN mounts[i].files :
    mounts[i].dir # "" /\ <<i, j>> \notin todo => Held(t, mounts[i], mounts[i].files[j])
Stocked(t, run, todo) == DirsMade(t, run.mounts) /\ FilesHeld(t, run.mounts, todo)

(***************************************************************************)
(* A call that has been through its files has them all on disk, and so has *)
(* the Pod it commits: nothing removes them while the Pod is tracked, and  *)
(* what is rolled back is not committed.                                   *)
(***************************************************************************)
TreeInv ==
  /\ disk = [u \in Uids |-> disk[u]] /\ \A u \in Uids : IsTree(disk[u])
  /\ call.pc = "dirs" => call.todo = Positions(call.run.mounts)
  /\ call.pc = "files" => /\ call.todo \subseteq Positions(call.run.mounts)
                          /\ Stocked(disk[call.uid], call.run, call.todo)
  /\ call.pc \in {"pull", "launch", "adopt"} => Stocked(disk[call.uid], call.run, {})
  /\ pod.st = "running" => Stocked(disk[pod.uid], pod.run, {})

LEMMA TreeFrame == TreeInv /\ UNCHANGED <<disk, call, pod>> => TreeInv'
BY Zenon DEF TreeInv

\* The tree of one UID is replaced by another.
LEMMA TreeReplaced ==
  ASSUME TreeInv, NEW u \in Uids, NEW t, IsTree(t), disk' = [disk EXCEPT ![u] = t]
  PROVE  /\ disk' = [v \in Uids |-> disk'[v]] /\ \A v \in Uids : IsTree(disk'[v])
         /\ disk'[u] = t
<1>1. PICK d : d = disk
  OBVIOUS
<1>2. d = [v \in Uids |-> d[v]] /\ \A v \in Uids : IsTree(d[v])
  BY <1>1, Zenon DEF TreeInv
<1>3. PICK e : e = disk' /\ e = [d EXCEPT ![u] = t]
  BY <1>1
<1>4. e = [v \in Uids |-> IF v = u THEN t ELSE d[v]]
  BY <1>2, <1>3
<1>5. e = [v \in Uids |-> e[v]] /\ e[u] = t /\ \A v \in Uids : e[v] = IF v = u THEN t ELSE d[v]
  BY <1>4
<1> QED BY <1>2, <1>3, <1>5, Zenon

\* With no call and no running Pod there is nothing more to say.
LEMMA TreeAtRest ==
  ASSUME disk' = [v \in Uids |-> disk'[v]], \A v \in Uids : IsTree(disk'[v]),
         call' = Idle \/ call'.pc = "delete", pod'.st # "running"
  PROVE  TreeInv'
BY AtRest DEF TreeInv

\* ensureVolumeDirs.
LEMMA EnsureDirsTree == ASSUME TreeInv, WorkInv, NEW ok, EnsureDirs(ok) PROVE TreeInv'
<1>1. /\ call.pc = "dirs" /\ call.uid \in Uids /\ pod = NoPod /\ pod' = pod /\ IsCall(call)
      /\ call.todo = Positions(call.run.mounts)
  BY AtWork, Zenon DEF EnsureDirs, TreeInv, Creating
<1>2. pod'.st # "running"
  BY <1>1, AtRest
<1>3. CASE call' = Idle /\ disk' = disk
  BY <1>2, <1>3, TreeAtRest, Zenon DEF TreeInv
<1>4. CASE ~(call' = Idle /\ disk' = disk)
  <2> DEFINE new == {call.run.mounts[i].dir : i \in DOMAIN call.run.mounts} \ {""}
             t   == [disk[call.uid] EXCEPT !.dirs = @ \cup new]
  <2>1. disk' = [disk EXCEPT ![call.uid].dirs = @ \cup new] /\ call' = [call EXCEPT !.pc = "files"]
    BY <1>4, Zenon DEF EnsureDirs, GoTo, Return
  <2>2. disk' = [disk EXCEPT ![call.uid] = t]
    BY <2>1, Zenon
  <2>3. IsTree(disk[call.uid])
    BY <1>1, Zenon DEF TreeInv
  <2>4. IsTree(t) /\ new \subseteq t.dirs
    <3>1. ASSUME NEW o, NEW n, IsTree(o)
          PROVE  IsTree([o EXCEPT !.dirs = @ \cup n]) /\ n \subseteq [o EXCEPT !.dirs = @ \cup n].dirs
      <4>1. ASSUME NEW x PROVE [o EXCEPT !.dirs = x] = [dirs |-> x, files |-> o.files]
        BY <3>1 DEF IsTree
      <4>2. [o EXCEPT !.dirs = @ \cup n] = [dirs |-> o.dirs \cup n, files |-> o.files]
        BY <4>1, Zenon
      <4>3. PICK e, ds, fs : e = [o EXCEPT !.dirs = @ \cup n] /\ ds = o.dirs \cup n /\ fs = o.files
        BY Zenon
      <4>4. e = [dirs |-> ds, files |-> fs]
        BY <4>2, <4>3, Zenon
      <4>5. IsTree(e) /\ e.dirs = ds
        BY <4>4 DEF IsTree
      <4> QED BY <4>3, <4>5, Zenon
    <3> QED BY <2>3, <3>1, Zenon
  <2>5. DirsMade(t, call.run.mounts)
    BY <2>4, Zenon DEF DirsMade
  <2> HIDE DEF t
  <2>6. /\ disk' = [v \in Uids |-> disk'[v]] /\ \A v \in Uids : IsTree(disk'[v])
        /\ disk'[call.uid] = t
    BY <1>1, <2>2, <2>4, TreeReplaced, Zenon
  <2>7. call'.pc = "files" /\ call'.uid = call.uid /\ call'.run = call.run /\ call'.todo = call.todo
    BY <1>1, <2>1 DEF IsCall
  <2>8. FilesHeld(t, call.run.mounts, call.todo)
    <3>1. ASSUME NEW i \in DOMAIN call.run.mounts, NEW j \in DOMAIN call.run.mounts[i].files
          PROVE  <<i, j>> \in call.todo
      BY <1>1 DEF Positions
    <3> QED BY <3>1, Zenon DEF FilesHeld
  <2>9. Stocked(disk'[call'.uid], call'.run, call'.todo)
    BY <2>5, <2>6, <2>7, <2>8, Zenon DEF Stocked
  <2> QED BY <1>1, <1>2, <2>6, <2>7, <2>9 DEF TreeInv
<1> QED BY <1>3, <1>4

\* A file that is written is the last of its path, whichever mount of its
\* directory it was written for; every other path keeps what it has.
LEMMA WrittenHeld ==
  ASSUME NEW mounts, SameDirSameFiles(mounts), NEW todo, NEW t, FilesHeld(t, mounts, todo),
         NEW a \in DOMAIN mounts, NEW b \in DOMAIN mounts[a].files, NEW w,
         w.data = mounts[a].files[b].data,
         NEW t2, t2.files = Assign(t.files, <<mounts[a].dir, mounts[a].files[b].path>>, w)
  PROVE  FilesHeld(t2, mounts, todo \ {<<a, b>>})
<1> DEFINE q == <<mounts[a].dir, mounts[a].files[b].path>>
<1>1. /\ DOMAIN t2.files = DOMAIN t.files \cup {q} /\ t2.files[q] = w
      /\ \A at \in DOMAIN t.files : at # q => t2.files[at] = t.files[at]
  BY Zenon DEF Assign
<1>2. SUFFICES ASSUME NEW i \in DOMAIN mounts, NEW j \in DOMAIN mounts[i].files,
                      mounts[i].dir # "", <<i, j>> \notin todo \ {<<a, b>>}
               PROVE  Held(t2, mounts[i], mounts[i].files[j])
  BY Zenon DEF FilesHeld
<1> DEFINE at == <<mounts[i].dir, mounts[i].files[j].path>>
<1>3. CASE at = q
  <2>1. mounts[i].dir = mounts[a].dir /\ mounts[i].files[j].path = mounts[a].files[b].path
    BY <1>3
  <2>2. mounts[i].files = mounts[a].files
    BY <1>2, <2>1, Zenon DEF SameDirSameFiles
  <2>3. b \in DOMAIN mounts[i].files /\ mounts[i].files[b].path = mounts[i].files[j].path
        /\ mounts[i].files[b].data = t2.files[at].data
    BY <1>1, <1>3, <2>1, <2>2, Zenon
  <2>4. at \in DOMAIN t2.files
    BY <1>1, <1>3, Zenon
  <2> QED BY <2>3, <2>4, Zenon DEF Held
<1>4. CASE at # q
  <2>1. <<i, j>> # <<a, b>>
    BY <1>4, Zenon
  <2>2. Held(t, mounts[i], mounts[i].files[j])
    BY <1>2, <2>1, Zenon DEF FilesHeld
  <2>3. at \in DOMAIN t2.files /\ t2.files[at] = t.files[at]
    BY <1>1, <1>4, <2>2, Zenon DEF Held
  <2> QED BY <2>2, <2>3, Zenon DEF Held
<1> QED BY <1>3, <1>4

\* One turn of writeConfigFiles.
LEMMA WriteFileTree == ASSUME TreeInv, WorkInv, ApiInv, NEW ok, WriteFile(ok) PROVE TreeInv'
<1>1. /\ call.pc = "files" /\ call.uid \in Uids /\ pod = NoPod /\ pod' = pod /\ IsCall(call)
      /\ call.todo \subseteq Positions(call.run.mounts) /\ Stocked(disk[call.uid], call.run, call.todo)
      /\ Resolved(call.uid, call.seen, call.run)
  BY AtWork, Zenon DEF WriteFile, TreeInv, Creating
<1>2. pod'.st # "running"
  BY <1>1, AtRest
<1>3. CASE call' = Idle /\ disk' = disk
  BY <1>2, <1>3, TreeAtRest, Zenon DEF TreeInv
<1>4. CASE ~(call' = Idle /\ disk' = disk)
  <2>1. PICK x \in call.todo :
          /\ disk' = [disk EXCEPT ![call.uid].files = Assign(@, PathOf(x), Written(x))]
          /\ call' = [call EXCEPT !.todo = @ \ {x}]
    BY <1>4, Zenon DEF WriteFile, Return
  <2>2. PICK mounts, o, old : mounts = call.run.mounts /\ o = disk[call.uid] /\ old = call.todo
    OBVIOUS
  <2>3. PICK t : t = [o EXCEPT !.files = Assign(@, PathOf(x), Written(x))]
    OBVIOUS
  <2>4. disk' = [disk EXCEPT ![call.uid] = t]
    BY <2>1, <2>2, <2>3, Zenon
  <2>5. IsTree(o)
    BY <1>1, <2>2, Zenon DEF TreeInv
  <2>6. IsTree(t) /\ t.dirs = o.dirs /\ t.files = Assign(o.files, PathOf(x), Written(x))
    BY <2>3, <2>5 DEF IsTree
  <2>7. /\ disk' = [v \in Uids |-> disk'[v]] /\ \A v \in Uids : IsTree(disk'[v])
        /\ disk'[call.uid] = t
    BY <1>1, <2>4, <2>6, TreeReplaced, Zenon
  <2>8. call'.pc = "files" /\ call'.uid = call.uid /\ call'.run = call.run /\ call'.todo = old \ {x}
    BY <1>1, <2>1, <2>2 DEF IsCall
  <2>9. PICK a \in DOMAIN mounts : \E b \in DOMAIN mounts[a].files : x = <<a, b>>
    BY <1>1, <2>1, <2>2 DEF Positions
  <2>10. PICK b \in DOMAIN mounts[a].files : x = <<a, b>>
    BY <2>9
  <2>11. /\ PathOf(x) = <<mounts[a].dir, mounts[a].files[b].path>>
         /\ Written(x).data = mounts[a].files[b].data
    BY <2>2, <2>10 DEF PathOf, Written, FileAt
  <2>12. SameDirSameFiles(mounts) /\ DirsMade(o, mounts) /\ FilesHeld(o, mounts, old)
    BY <1>1, <2>2, MountsResolved, Zenon DEF ApiInv, Stocked
  <2>13. FilesHeld(t, mounts, old \ {x})
    BY <2>6, <2>10, <2>11, <2>12, WrittenHeld, Zenon
  <2>14. DirsMade(t, mounts)
    BY <2>6, <2>12, Zenon DEF DirsMade
  <2>15. Stocked(disk'[call'.uid], call'.run, call'.todo)
    BY <2>2, <2>7, <2>8, <2>13, <2>14, Zenon DEF Stocked
  <2>16. call'.todo \subseteq Positions(call'.run.mounts)
    BY <1>1, <2>2, <2>8, Zenon
  <2> QED BY <1>1, <1>2, <2>7, <2>8, <2>15, <2>16 DEF TreeInv
<1> QED BY <1>3, <1>4

\* The later steps of CreatePod: a commit is of a call whose files are there.
LEMMA CommitTree ==
  ASSUME TreeInv, WorkInv, NEW g, NEW ok, Commit(g, ok), UNCHANGED disk, call.pc \in {"launch", "adopt"}
  PROVE  TreeInv'
<1>1. Stocked(disk[call.uid], call.run, {})
  BY Zenon DEF TreeInv
<1>2. PICK r : /\ pod' = [uid |-> call.uid, st |-> "running", restarting |-> r, run |-> call.run, seen |-> call.seen]
               /\ call' = Idle
  BY Zenon DEF Commit, Return
<1>3. pod'.uid = call.uid /\ pod'.run = call.run
  BY <1>2
<1>4. Stocked(disk'[pod'.uid], pod'.run, {})
  BY <1>1, <1>3, Zenon
<1>5. call'.pc = "idle"
  BY <1>2, AtRest
<1> QED BY <1>4, <1>5 DEF TreeInv

LEMMA CreateTree == ASSUME TreeInv, WorkInv, ApiInv, CreateSteps PROVE TreeInv'
<1>1. CASE Translate
  <2>1. UNCHANGED disk /\ call = Idle /\ pod = NoPod
    BY <1>1, Zenon DEF Translate
  <2>2. CASE UNCHANGED <<call, pod>>
    BY <2>1, <2>2, TreeFrame, Zenon
  <2>3. CASE ~UNCHANGED <<call, pod>>
    <3>1. PICK t : Translated(t)
      BY <1>1, Zenon DEF Translate
    <3>2. CASE t.err = "ok"
      <4>1. /\ call' = [pc |-> "dirs", uid |-> api.uid, run |-> t.val, seen |-> objs, todo |-> Positions(t.val.mounts)]
            /\ pod' = pod
        BY <3>1, <3>2 DEF Translated
      <4>2. call'.pc = "dirs" /\ call'.todo = Positions(call'.run.mounts) /\ pod'.st = "none"
        BY <2>1, <4>1, AtRest
      <4> QED BY <2>1, <4>2 DEF TreeInv
    <3>3. CASE t.err # "ok"
      <4>1. markTerminalFailure(api.uid) /\ call' = call
        BY <2>3, <3>1, <3>3 DEF Translated
      <4>2. pod'.st # "running"
        BY <4>1 DEF markTerminalFailure, NoPod
      <4> QED BY <2>1, <4>1, <4>2, TreeAtRest, Zenon DEF TreeInv
    <3> QED BY <3>2, <3>3
  <2> QED BY <2>2, <2>3
<1>2. ASSUME NEW ok, EnsureDirs(ok) \/ WriteFile(ok) PROVE TreeInv'
  BY <1>2, EnsureDirsTree, WriteFileTree, Zenon
<1>3. ASSUME NEW ok, Lookup(ok) PROVE TreeInv'
  <2>1. /\ call.pc = "files" /\ call.todo = {} /\ UNCHANGED <<disk, pod>>
        /\ \E pc \in {"pull", "adopt"} : call' = [call EXCEPT !.pc = pc]
    BY <1>3, Zenon DEF Lookup, GoTo
  <2>2. IsCall(call) /\ Stocked(disk[call.uid], call.run, {})
    BY <2>1, AtWork DEF TreeInv, Creating
  <2>3. call'.pc \in {"pull", "adopt"} /\ call'.uid = call.uid /\ call'.run = call.run
    BY <2>1, <2>2 DEF IsCall
  <2> QED BY <2>1, <2>2, <2>3 DEF TreeInv
<1>4. ASSUME NEW ok, Pull(ok) PROVE TreeInv'
  <2>1. call.pc = "pull" /\ disk' = disk
    BY <1>4, Zenon DEF Pull
  <2>2. IsCall(call) /\ pod = NoPod /\ Stocked(disk[call.uid], call.run, {})
    BY <2>1, AtWork DEF TreeInv, Creating
  <2>3. \/ Return /\ (pod' = pod \/ markTerminalFailure(call.uid))
        \/ GoTo("launch") /\ pod' = pod
    BY <1>4, Zenon DEF Pull
  <2>4. pod'.st # "running"
    BY <2>2, <2>3, AtRest DEF markTerminalFailure, NoPod
  <2>5. CASE Return
    BY <2>1, <2>4, <2>5, TreeAtRest, Zenon DEF TreeInv, Return
  <2>6. CASE GoTo("launch")
    <3>1. call'.pc = "launch" /\ call'.uid = call.uid /\ call'.run = call.run
      BY <2>2, <2>6 DEF IsCall, GoTo
    <3> QED BY <2>1, <2>2, <2>4, <3>1 DEF TreeInv
  <2> QED BY <2>3, <2>5, <2>6
<1>5. ASSUME NEW ok, Launch(ok) \/ Adopt(ok) PROVE TreeInv'
  BY <1>5, CommitTree, Zenon DEF Launch, Adopt
<1>6. CASE LaunchFails
  <2>1. call.uid \in Uids /\ pod' = pod /\ pod = NoPod
    BY <1>6, AtWork DEF LaunchFails, Creating
  <2>2. IsTree(NoTree)
    BY DEF IsTree, NoTree
  <2>3. disk' = [v \in Uids |-> disk'[v]] /\ \A v \in Uids : IsTree(disk'[v])
    BY <1>6, <2>1, <2>2, TreeReplaced, Zenon DEF LaunchFails
  <2>4. call' = Idle /\ pod'.st # "running"
    BY <1>6, <2>1, AtRest DEF LaunchFails, Return
  <2> QED BY <2>3, <2>4, TreeAtRest, Zenon
<1>7. CASE AdoptFails
  <2>1. pod' = pod /\ pod = NoPod
    BY <1>7, AtWork DEF AdoptFails, Creating
  <2>2. call' = Idle /\ pod'.st # "running" /\ disk' = disk
    BY <1>7, <2>1, AtRest DEF AdoptFails, Return
  <2> QED BY <2>2, TreeAtRest, Zenon DEF TreeInv
<1> QED BY <1>1, <1>2, <1>3, <1>4, <1>5, <1>6, <1>7, Zenon DEF CreateSteps

\* A step that leaves the disk and the calls alone keeps a Pod that runs.
LEMMA RestTree ==
  ASSUME TreeInv, UNCHANGED <<disk, call>>,
         pod'.st = "running" => pod.st = "running" /\ pod'.uid = pod.uid /\ pod'.run = pod.run
  PROVE  TreeInv'
BY Zenon DEF TreeInv

\* Every step keeps it.
LEMMA NextTree == ASSUME TreeInv, WorkInv, ApiInv, [Next]_vars PROVE TreeInv'
<1>1. CASE Apply \/ RequestDelete \/ EditObject \/ GuestReady \/ GuestFails \/ Start \/ UNCHANGED vars
  BY <1>1, TreeFrame, Zenon DEF Apply, RequestDelete, EditObject, GuestReady, GuestFails, Start, vars
<1>2. CASE CreateSteps
  BY <1>2, CreateTree
<1>3. ASSUME UNCHANGED <<disk, call>>, NEW b, pod' = [pod EXCEPT !.restarting = b], pod.st = "running"
      PROVE  TreeInv'
  <2>1. IsPod(pod)
    BY <1>3, AtRest DEF WorkInv, PodInv
  <2>2. pod'.uid = pod.uid /\ pod'.run = pod.run
    BY <1>3, <2>1 DEF IsPod
  <2> QED BY <1>3, <2>2, RestTree, Zenon
<1>4. CASE Reconcile \/ RestartBegin \/ RestartFails \/ (\E ok \in BOOLEAN : RestartEnd(ok))
  <2>1. pod.st = "running"
    BY <1>4 DEF Reconcile, RestartBegin, RestartFails, RestartEnd, WorkInv, PodInv
  <2>2. UNCHANGED <<disk, call>> /\ (pod' = pod \/ \E b : pod' = [pod EXCEPT !.restarting = b])
    BY <1>4, Zenon DEF Reconcile, RestartBegin, RestartFails, RestartEnd
  <2> QED BY <1>3, <2>1, <2>2, TreeFrame, Zenon
<1>5. ASSUME NEW g \in 1..MaxGen, NEW k \in Kinds, Prober(g, k) PROVE TreeInv'
  <2>1. /\ UNCHANGED <<disk, call>>
        /\ \/ pod' = pod
           \/ pod.st = "running" /\ pod' = [pod EXCEPT !.restarting = TRUE]
           \/ pod.st = "running" /\ pod' = [pod EXCEPT !.st = "terminal"]
    BY <1>5, Zenon DEF Prober, Probe, ProbeActs, ProbeCondemns, ProberLeaves, failProbe
  <2>2. CASE pod.st = "running" /\ pod' = [pod EXCEPT !.st = "terminal"]
    <3>1. IsPod(pod)
      BY <2>2, AtRest DEF WorkInv, PodInv
    <3>2. pod'.st # "running"
      BY <2>2, <3>1 DEF IsPod
    <3> QED BY <2>1, <3>2, RestTree, Zenon
  <2> QED BY <1>3, <2>1, <2>2, TreeFrame, Zenon
<1>6. CASE Forget
  <2>1. disk' = disk /\ (UNCHANGED <<call, pod>> \/ (pod' = NoPod /\ call' = [Idle EXCEPT !.pc = "delete", !.uid = pod.uid]))
    BY <1>6, Zenon DEF Forget
  <2>2. CASE UNCHANGED <<call, pod>>
    BY <2>1, <2>2, TreeFrame, Zenon
  <2>3. CASE pod' = NoPod /\ call' = [Idle EXCEPT !.pc = "delete", !.uid = pod.uid]
    <3>1. pod'.st # "running" /\ call'.pc = "delete"
      BY <2>3, AtRest DEF Idle
    <3> QED BY <2>1, <3>1, TreeAtRest, Zenon DEF TreeInv
  <2> QED BY <2>1, <2>2, <2>3
<1>7. ASSUME NEW ok \in BOOLEAN, Delete(ok) PROVE TreeInv'
  <2>1. call.pc = "delete" /\ call' = Idle /\ pod' = pod
    BY <1>7, Zenon DEF Delete, Return
  <2>2. pod = NoPod /\ call.uid \in Uids
    BY <2>1, AtWork
  <2>3. pod'.st # "running"
    BY <2>1, <2>2, AtRest
  <2>4. PICK t \in {disk[call.uid], NoTree} : disk' = [disk EXCEPT ![call.uid] = t]
    BY <1>7, Zenon DEF Delete
  <2>5. IsTree(NoTree)
    BY DEF IsTree, NoTree
  <2>6. IsTree(t)
    BY <2>2, <2>4, <2>5, Zenon DEF TreeInv
  <2>7. disk' = [v \in Uids |-> disk'[v]] /\ \A v \in Uids : IsTree(disk'[v])
    BY <2>2, <2>4, <2>6, TreeReplaced, Zenon
  <2> QED BY <2>1, <2>3, <2>7, TreeAtRest, Zenon
<1>8. CASE Crash
  <2>1. pod' = NoPod /\ call' = Idle /\ disk' = disk
    BY <1>8, Zenon DEF Crash, Return
  <2>2. pod'.st # "running"
    BY <2>1, AtRest
  <2> QED BY <2>1, <2>2, TreeAtRest, Zenon DEF TreeInv
<1> QED BY <1>1, <1>2, <1>4, <1>5, <1>6, <1>7, <1>8, Zenon DEF Next

\* The inductive invariant of this module, and that every state has it.
WorkloadInv == ApiInv /\ ProbeInv /\ WorkInv /\ TreeInv

THEOREM WorkloadInductive == Spec => []WorkloadInv
<1>1. Init => WorkloadInv
  <2> SUFFICES ASSUME Init PROVE WorkloadInv
    OBVIOUS
  <2>1. ProbeInv
    BY Zenon DEF Init, probeInit, ProbeInv
  <2>2. spec \in PodSet /\ budget = Limits(spec) /\ api = [uid |-> 0, phase |-> "none"]
    BY Zenon DEF Init
  <2>3. ApiInv
    BY <2>2, WorkloadAssumption DEF ApiInv, Budgets
  <2>4. WorkInv
    BY Zenon DEF Init, WorkInv, CallInv, PodInv, VMInv
  <2>5. IsTree(NoTree)
    BY DEF IsTree, NoTree
  <2>6. disk = [u \in Uids |-> NoTree] /\ call = Idle /\ pod = NoPod
    BY Zenon DEF Init
  <2>7. disk = [u \in Uids |-> disk[u]] /\ \A u \in Uids : IsTree(disk[u])
    BY <2>5, <2>6
  <2>8. TreeInv
    BY <2>6, <2>7, AtRest DEF TreeInv
  <2> QED BY <2>1, <2>3, <2>4, <2>8 DEF WorkloadInv
<1>2. WorkloadInv /\ [Next]_vars => WorkloadInv'
  BY NextApi, NextProbes, NextWork, NextTree, Zenon DEF WorkloadInv
<1> QED BY <1>1, <1>2, PTL DEF Spec

(***************************************************************************)
(* While a Pod is tracked, the directories of its mounts are there and     *)
(* every file its spec promises holds what was resolved for it.            *)
(***************************************************************************)
THEOREM FilesInPlace == Spec => []TreeComplete
<1>1. ASSUME NEW t, NEW m, m.dir # "" => m.dir \in t.dirs,
             m.dir # "" => \A j \in DOMAIN m.files : Held(t, m, m.files[j])
      PROVE  Backed(t, m)
  <2> SUFFICES ASSUME m.dir # "", NEW f \in {m.files[j] : j \in DOMAIN m.files}
               PROVE  /\ <<m.dir, f.path>> \in DOMAIN t.files
                      /\ \E g \in {m.files[j] : j \in DOMAIN m.files} :
                           g.path = f.path /\ g.data = t.files[<<m.dir, f.path>>].data
    BY <1>1, Zenon DEF Backed
  <2>1. PICK j \in DOMAIN m.files : f = m.files[j]
    BY Zenon
  <2> QED BY <1>1, <2>1, Zenon DEF Held
<1>2. WorkloadInv => TreeComplete
  <2> SUFFICES ASSUME TreeInv, pod.st = "running", NEW i \in DOMAIN pod.run.mounts
               PROVE  Backed(disk[pod.uid], pod.run.mounts[i])
    BY Zenon DEF TreeComplete, WorkloadInv
  <2>1. DirsMade(disk[pod.uid], pod.run.mounts) /\ FilesHeld(disk[pod.uid], pod.run.mounts, {})
    BY Zenon DEF TreeInv, Stocked
  <2>2. ASSUME pod.run.mounts[i].dir # "", NEW j \in DOMAIN pod.run.mounts[i].files
        PROVE  Held(disk[pod.uid], pod.run.mounts[i], pod.run.mounts[i].files[j])
    BY <2>1, <2>2, Zenon DEF FilesHeld
  <2> QED BY <1>1, <2>1, <2>2, Zenon DEF DirsMade
<1> QED BY <1>2, WorkloadInductive, PTL

-----------------------------------------------------------------------------
(* The environment: what resolveEnv's two loops compute.                   *)

SourceOf(s, ef) == IF ef.kind = "configMap" THEN getConfigMap(s, ef) ELSE loadSecret(s, ef)

\* One turn of each loop, once the state before it is known.
LEMMA EnvFromStepIs ==
  ASSUME NEW s, NEW acc, NEW ef
  PROVE  EnvFromStep(s, acc, ef) =
           IF acc.err # "ok" THEN acc ELSE IF SourceOf(s, ef).err # "ok" THEN SourceOf(s, ef)
           ELSE Got(addEnvFromKeys(acc.val, ef.prefix, SourceOf(s, ef).val.data))
<1> DEFINE r == IF acc.err # "ok" THEN acc ELSE IF SourceOf(s, ef).err # "ok" THEN SourceOf(s, ef)
                ELSE Got(addEnvFromKeys(acc.val, ef.prefix, SourceOf(s, ef).val.data))
<1>1. EnvFromStep(s, acc, ef) \in {r}
  BY Zenon DEF EnvFromStep, With, SourceOf
<1> QED BY <1>1, Zenon

LEMMA EnvStepIs ==
  ASSUME NEW p, NEW u, NEW s, NEW acc, NEW e
  PROVE  EnvStep(p, u, s, acc, e) =
           LET v == EntryValue(p, u, s, acc.val, e) IN
           CASE acc.err # "ok" -> acc
             [] acc.err = "ok" /\ v.err = "ok"   -> Got(Assign(acc.val, e.name, v.val))
             [] acc.err = "ok" /\ v.err = "skip" -> acc
             [] OTHER -> v
<1> DEFINE r == LET v == EntryValue(p, u, s, acc.val, e) IN
                CASE acc.err # "ok" -> acc
                  [] acc.err = "ok" /\ v.err = "ok"   -> Got(Assign(acc.val, e.name, v.val))
                  [] acc.err = "ok" /\ v.err = "skip" -> acc
                  [] OTHER -> v
<1>1. EnvStep(p, u, s, acc, e) \in {r}
  BY Zenon DEF EnvStep, With
<1> QED BY <1>1, Zenon

(***************************************************************************)
(* The loops are functions defined by recursion: that there is one is an   *)
(* induction on the number of turns, by a least number without one.        *)
(***************************************************************************)
SourceLoop(g, p, s, n) ==
  g = [i \in 0..n |-> IF i = 0 THEN Got(<< >>) ELSE EnvFromStep(s, g[i - 1], p.envFrom[i])]
EntryLoop(g, p, u, s, b, n) ==
  g = [i \in 0..n |-> IF i = 0 THEN b ELSE EnvStep(p, u, s, g[i - 1], p.env[i])]

LEMMA SourcesExist == ASSUME NEW p, NEW s, NEW n \in Nat PROVE \E g : SourceLoop(g, p, s, n)
<1> DEFINE Is(g, k) == SourceLoop(g, p, s, k)
           T == {k \in Nat : ~\E g : Is(g, k)}
<1>1. SUFFICES ASSUME T # {} PROVE FALSE
  BY Zenon
<1>2. PICK k \in T : \A m \in T : k <= m
  BY <1>1, LeastExists, Zenon
<1>3. ASSUME NEW g, k = 0 \/ Is(g, k - 1) PROVE FALSE
  <2> DEFINE h == [i \in 0..k |-> IF i = 0 THEN Got(<< >>)
                                  ELSE IF i = k THEN EnvFromStep(s, g[k - 1], p.envFrom[k]) ELSE g[i]]
  <2>1. ASSUME NEW i \in 1..k PROVE h[i] = EnvFromStep(s, h[i - 1], p.envFrom[i])
    <3>1. i - 1 \in 0..k /\ i - 1 # k /\ k # 0 /\ i \in 0..k /\ i # 0 /\ k \in Nat
      BY <1>2
    <3>2. Is(g, k - 1) /\ i - 1 \in 0..(k - 1)
      BY <1>3, <3>1
    <3>3. h[i - 1] = g[i - 1]
      <4>1. CASE i - 1 = 0
        <5>1. g[0] = Got(<< >>)
          BY <3>2, <4>1 DEF SourceLoop
        <5> QED BY <3>1, <4>1, <5>1
      <4>2. CASE i - 1 # 0
        BY <3>1, <4>2
      <4> QED BY <4>1, <4>2
    <3>4. CASE i = k
      BY <3>1, <3>3, <3>4
    <3>5. CASE i # k
      <4>1. i \in 0..(k - 1)
        BY <3>1, <3>5
      <4>2. g[i] = EnvFromStep(s, g[i - 1], p.envFrom[i])
        BY <3>1, <3>2, <4>1 DEF SourceLoop
      <4>3. h[i] = g[i]
        BY <3>1, <3>5
      <4> QED BY <3>3, <4>2, <4>3, Zenon
    <3> QED BY <3>4, <3>5
  <2>2. \A i \in 0..k : i = 0 \/ i \in 1..k
    BY <1>2
  <2>3. h = [i \in 0..k |-> h[i]] /\ h[0] = Got(<< >>)
    BY <1>2
  <2> HIDE DEF h
  <2>4. Is(h, k)
    BY <2>1, <2>2, <2>3, Zenon DEF SourceLoop
  <2> QED BY <1>2, <2>4, Zenon
<1>4. k = 0
  <2>1. CASE k # 0
    <3>1. k - 1 \in Nat /\ ~(k <= k - 1)
      BY <1>2, <2>1
    <3>2. k - 1 \notin T
      BY <1>2, <3>1, Zenon
    <3> QED BY <1>3, <3>1, <3>2, Zenon
  <2> QED BY <2>1
<1> QED BY <1>3, <1>4, Zenon

\* So the function each loop is given by satisfies its own definition.
LEMMA AfterSourcesIs ==
  ASSUME NEW p \in PodSet, NEW s
  PROVE  SourceLoop(AfterSources(p, s), p, s, Len(p.envFrom))
<1>1. PICK n : n = Len(p.envFrom) /\ n \in Nat
  BY PodShape, Zenon
<1>2. \E g : SourceLoop(g, p, s, n)
  BY <1>1, SourcesExist, Zenon
<1>3. AfterSources(p, s) = CHOOSE g : SourceLoop(g, p, s, n)
  BY <1>1, Zenon DEF AfterSources, SourceLoop
<1> QED BY <1>1, <1>2, <1>3, Zenon

LEMMA EntriesExist ==
  ASSUME NEW p, NEW u, NEW s, NEW b, NEW n \in Nat
  PROVE  \E g : EntryLoop(g, p, u, s, b, n)
<1> DEFINE Is(g, k) == EntryLoop(g, p, u, s, b, k)
           T == {k \in Nat : ~\E g : Is(g, k)}
<1>1. SUFFICES ASSUME T # {} PROVE FALSE
  BY Zenon
<1>2. PICK k \in T : \A m \in T : k <= m
  BY <1>1, LeastExists, Zenon
<1>3. ASSUME NEW g, k = 0 \/ Is(g, k - 1) PROVE FALSE
  <2> DEFINE h == [i \in 0..k |-> IF i = 0 THEN b
                                  ELSE IF i = k THEN EnvStep(p, u, s, g[k - 1], p.env[k]) ELSE g[i]]
  <2>1. ASSUME NEW i \in 1..k PROVE h[i] = EnvStep(p, u, s, h[i - 1], p.env[i])
    <3>1. i - 1 \in 0..k /\ i - 1 # k /\ k # 0 /\ i \in 0..k /\ i # 0 /\ k \in Nat
      BY <1>2
    <3>2. Is(g, k - 1) /\ i - 1 \in 0..(k - 1)
      BY <1>3, <3>1
    <3>3. h[i - 1] = g[i - 1]
      <4>1. CASE i - 1 = 0
        <5>1. g[0] = b
          BY <3>2, <4>1 DEF EntryLoop
        <5> QED BY <3>1, <4>1, <5>1
      <4>2. CASE i - 1 # 0
        BY <3>1, <4>2
      <4> QED BY <4>1, <4>2
    <3>4. CASE i = k
      BY <3>1, <3>3, <3>4
    <3>5. CASE i # k
      <4>1. i \in 0..(k - 1)
        BY <3>1, <3>5
      <4>2. g[i] = EnvStep(p, u, s, g[i - 1], p.env[i])
        BY <3>1, <3>2, <4>1 DEF EntryLoop
      <4>3. h[i] = g[i]
        BY <3>1, <3>5
      <4> QED BY <3>3, <4>2, <4>3, Zenon
    <3> QED BY <3>4, <3>5
  <2>2. \A i \in 0..k : i = 0 \/ i \in 1..k
    BY <1>2
  <2>3. h = [i \in 0..k |-> h[i]] /\ h[0] = b
    BY <1>2
  <2> HIDE DEF h
  <2>4. Is(h, k)
    BY <2>1, <2>2, <2>3, Zenon DEF EntryLoop
  <2> QED BY <1>2, <2>4, Zenon
<1>4. k = 0
  <2>1. CASE k # 0
    <3>1. k - 1 \in Nat /\ ~(k <= k - 1)
      BY <1>2, <2>1
    <3>2. k - 1 \notin T
      BY <1>2, <3>1, Zenon
    <3> QED BY <1>3, <3>1, <3>2, Zenon
  <2> QED BY <2>1
<1> QED BY <1>3, <1>4, Zenon

LEMMA AfterEntriesIs ==
  ASSUME NEW p \in PodSet, NEW u, NEW s
  PROVE  EntryLoop(AfterEntries(p, u, s), p, u, s, AfterSources(p, s)[Len(p.envFrom)], Len(p.env))
<1>1. PICK n, b : n = Len(p.env) /\ n \in Nat /\ b = AfterSources(p, s)[Len(p.envFrom)]
  BY PodShape, Zenon
<1>2. \E g : EntryLoop(g, p, u, s, b, n)
  BY <1>1, EntriesExist, Zenon
<1>3. AfterEntries(p, u, s) = CHOOSE g : EntryLoop(g, p, u, s, b, n)
  BY <1>1, Zenon DEF AfterEntries, EntryLoop
<1> QED BY <1>1, <1>2, <1>3, Zenon

\* The declared worth of the entries: one token of a literal, and a literal.
TokenWorth(g, p, s, j, t) ==
  IF t[1] = "esc" THEN Text(<<"$">>)
  ELSE IF t[1] # "ref" \/ ~Known(p, s, t[2], j) THEN <<t>>
  ELSE IF EntriesFor(p, s, t[2], j) # {} THEN g[Max(EntriesFor(p, s, t[2], j))]
  ELSE Inherited(p, s, t[2])
WorthAt(g, p, u, s, j) ==
  IF p.env[j].kind # "value" THEN Plain(p, u, s, p.env[j])
  ELSE Concat([k \in DOMAIN p.env[j].value |-> TokenWorth(g, p, s, j, p.env[j].value[k])])
WorthLoop(g, p, u, s, n) == g = [j \in 1..n |-> WorthAt(g, p, u, s, j)]

\* The last of the entries above the j-th that set a variable.
LEMMA LastEntry ==
  ASSUME NEW p, NEW s, NEW n, NEW j \in Nat, EntriesFor(p, s, n, j) # {}
  PROVE  /\ Max(EntriesFor(p, s, n, j)) \in EntriesFor(p, s, n, j)
         /\ Max(EntriesFor(p, s, n, j)) \in 1..(j - 1)
         /\ \A k \in EntriesFor(p, s, n, j) : k <= Max(EntriesFor(p, s, n, j))
<1>1. PICK S : S = EntriesFor(p, s, n, j)
  OBVIOUS
<1>2. S # {} /\ S \subseteq 1..(j - 1)
  BY <1>1, Zenon DEF EntriesFor
<1>3. S \subseteq 0..j
  BY <1>2
<1>4. Max(S) \in S /\ \A k \in S : k <= Max(S)
  BY <1>2, <1>3, MaxInSet, Zenon
<1> QED BY <1>1, <1>2, <1>4, Zenon

\* An entry's worth depends on those above it only.
LEMMA WorthAgrees ==
  ASSUME NEW p, NEW u, NEW s, NEW j \in Nat, NEW g, NEW h, \A k \in 1..(j - 1) : g[k] = h[k]
  PROVE  WorthAt(g, p, u, s, j) = WorthAt(h, p, u, s, j)
<1>1. ASSUME NEW t PROVE TokenWorth(g, p, s, j, t) = TokenWorth(h, p, s, j, t)
  BY LastEntry, Zenon DEF TokenWorth
<1>2. PICK value : value = p.env[j].value
  OBVIOUS
<1>3. [k \in DOMAIN value |-> TokenWorth(g, p, s, j, value[k])]
        = [k \in DOMAIN value |-> TokenWorth(h, p, s, j, value[k])]
  BY <1>1, Zenon
<1> QED BY <1>2, <1>3, Zenon DEF WorthAt

LEMMA WorthExists == ASSUME NEW p, NEW u, NEW s, NEW n \in Nat PROVE \E g : WorthLoop(g, p, u, s, n)
<1> DEFINE Is(g, k) == WorthLoop(g, p, u, s, k)
           T == {k \in Nat : ~\E g : Is(g, k)}
<1>1. SUFFICES ASSUME T # {} PROVE FALSE
  BY Zenon
<1>2. PICK k \in T : \A m \in T : k <= m
  BY <1>1, LeastExists, Zenon
<1>3. ASSUME NEW g, k = 0 \/ Is(g, k - 1) PROVE FALSE
  <2> DEFINE h == [i \in 1..k |-> IF i = k THEN WorthAt(g, p, u, s, k) ELSE g[i]]
  <2>1. ASSUME NEW i \in 1..k PROVE h[i] = WorthAt(h, p, u, s, i)
    <3>1. k \in Nat /\ k # 0 /\ i \in Nat
      BY <1>2
    <3>2. Is(g, k - 1)
      BY <1>3, <3>1
    <3>3. \A m \in 1..(i - 1) : g[m] = h[m]
      BY <3>1
    <3> HIDE DEF h
    <3>4. WorthAt(g, p, u, s, i) = WorthAt(h, p, u, s, i)
      BY <3>1, <3>3, WorthAgrees, Zenon
    <3>5. CASE i = k
      BY <3>4, <3>5, Zenon DEF h
    <3>6. CASE i # k
      <4>1. i \in 1..(k - 1)
        BY <3>1, <3>6
      <4>2. g[i] = WorthAt(g, p, u, s, i)
        BY <3>2, <4>1, Zenon DEF WorthLoop
      <4>3. h[i] = g[i]
        BY <3>6, Zenon DEF h
      <4> QED BY <3>4, <4>2, <4>3, Zenon
    <3> QED BY <3>5, <3>6
  <2>2. h = [i \in 1..k |-> h[i]]
    OBVIOUS
  <2> HIDE DEF h
  <2>3. Is(h, k)
    BY <2>1, <2>2, Zenon DEF WorthLoop
  <2> QED BY <1>2, <2>3, Zenon
<1>4. k = 0
  <2>1. CASE k # 0
    <3>1. k - 1 \in Nat /\ ~(k <= k - 1)
      BY <1>2, <2>1
    <3>2. k - 1 \notin T
      BY <1>2, <3>1, Zenon
    <3> QED BY <1>3, <3>1, <3>2, Zenon
  <2> QED BY <2>1
<1> QED BY <1>3, <1>4, Zenon

LEMMA WorthIs ==
  ASSUME NEW p \in PodSet, NEW u, NEW s
  PROVE  WorthLoop(Worth(p, u, s), p, u, s, Len(p.env))
<1>1. PICK n : n = Len(p.env) /\ n \in Nat
  BY PodShape, Zenon
<1>2. \E g : WorthLoop(g, p, u, s, n)
  BY <1>1, WorthExists, Zenon
<1>3. Worth(p, u, s) = CHOOSE g : WorthLoop(g, p, u, s, n)
  BY <1>1, Zenon DEF Worth, WorthLoop, WorthAt, TokenWorth, Each
<1> QED BY <1>1, <1>2, <1>3, Zenon

-----------------------------------------------------------------------------
(* envFrom: the last source that has a name wins.                          *)

SourcesUpTo(p, s, n, i) == {j \in 1..i : FromSource(p.envFrom[j], n, s) # {}}
SourceEnv(p, s, i) ==
  [n \in {n \in ValidNames : SourcesUpTo(p, s, n, i) # {}} |->
     AnyOf(FromSource(p.envFrom[Max(SourcesUpTo(p, s, n, i))], n, s))]

\* What is read of an object is what FromSource says of it.
LEMMA FetchOk ==
  ASSUME NEW objects, NEW ref, Fetch(objects, ref).err = "ok"
  PROVE  Fetch(objects, ref).val = objects[ref.obj]
<1>1. CASE objects[ref.obj].found \/ ref.optional
  BY <1>1 DEF Fetch, Got
<1>2. CASE ~(objects[ref.obj].found \/ ref.optional)
  BY <1>2 DEF Fetch, Failed
<1> QED BY <1>1, <1>2

LEMMA SourceGives ==
  ASSUME NEW s, NEW ef, ef.kind \in {"configMap", "secret"}, SourceOf(s, ef).err = "ok", NEW n,
         NEW d, d = SourceOf(s, ef).val.data,
         NEW names, names = {<<ef.prefix, k>> : k \in DOMAIN d} \cap ValidNames
  PROVE  FromSource(ef, n, s) = IF n \in names THEN {Text(d[n[2]])} ELSE {}
<1>1. SourceOf(s, ef).val = (IF ef.kind = "secret" THEN s.secs ELSE s.cms)[ef.obj]
  <2>1. CASE ef.kind = "secret"
    <3>1. SourceOf(s, ef) = Fetch(s.secs, ef)
      BY <2>1 DEF SourceOf, loadSecret
    <3> QED BY <2>1, <3>1, FetchOk, Zenon
  <2>2. CASE ef.kind = "configMap"
    <3>1. SourceOf(s, ef) = Fetch(s.cms, ef) /\ ef.kind # "secret"
      BY <2>2 DEF SourceOf, getConfigMap
    <3>2. (IF ef.kind = "secret" THEN s.secs ELSE s.cms) = s.cms
      BY <3>1, Zenon
    <3>3. PICK o : o = s.cms
      OBVIOUS
    <3>4. Fetch(o, ef).err = "ok"
      BY <3>1, <3>3, Zenon
    <3>5. Fetch(o, ef).val = o[ef.obj]
      BY <3>4, FetchOk, Zenon
    <3> QED BY <3>1, <3>2, <3>3, <3>5, Zenon
  <2> QED BY <2>1, <2>2
<1>2. (IF ef.kind = "secret" THEN s.secs ELSE s.cms)[ef.obj].data = d
  BY <1>1, Zenon
<1>3. FromSource(ef, n, s) =
        IF n \in ValidNames /\ n \in {<<ef.prefix, k>> : k \in DOMAIN d} THEN {Text(d[n[2]])} ELSE {}
  BY <1>2, Zenon DEF FromSource
<1> QED BY <1>3, Zenon

\* One turn of the first loop.
LEMMA SourceTurn ==
  ASSUME NEW p \in PodSet, NEW s, NEW i \in 1..Len(p.envFrom),
         EnvFromStep(s, Got(SourceEnv(p, s, i - 1)), p.envFrom[i]).err = "ok"
  PROVE  EnvFromStep(s, Got(SourceEnv(p, s, i - 1)), p.envFrom[i]) = Got(SourceEnv(p, s, i))
<1>1. PICK ef, env, got : ef = p.envFrom[i] /\ env = SourceEnv(p, s, i - 1) /\ got = SourceOf(s, ef)
  OBVIOUS
<1>2. ef.kind \in {"configMap", "secret"} /\ Len(p.envFrom) \in Nat /\ i \in Nat /\ i # 0
  <2>1. ef.kind \in {"configMap", "secret"} /\ Len(p.envFrom) \in Nat
    BY <1>1, PodShape, Zenon
  <2> QED BY <2>1
<1>3. Got(env).err = "ok" /\ Got(env).val = env
  BY DEF Got
<1>4. EnvFromStep(s, Got(env), ef) = IF got.err # "ok" THEN got
                                     ELSE Got(addEnvFromKeys(env, ef.prefix, got.val.data))
  BY <1>1, <1>3, EnvFromStepIs, Zenon
<1>5. got.err = "ok" /\ EnvFromStep(s, Got(env), ef) = Got(addEnvFromKeys(env, ef.prefix, got.val.data))
  BY <1>1, <1>4, Zenon
<1>6. PICK d, names : d = got.val.data /\ names = {<<ef.prefix, k>> : k \in DOMAIN d} \cap ValidNames
  OBVIOUS
<1>7. \A n : FromSource(ef, n, s) = IF n \in names THEN {Text(d[n[2]])} ELSE {}
  <2>1. SourceOf(s, ef).err = "ok" /\ d = SourceOf(s, ef).val.data
    BY <1>1, <1>5, <1>6, Zenon
  <2>2. names = {<<ef.prefix, k>> : k \in DOMAIN d} \cap ValidNames
    BY <1>6, Zenon
  <2>3. ef.kind \in {"configMap", "secret"}
    BY <1>2, Zenon
  <2> QED BY <2>1, <2>2, <2>3, SourceGives
<1>8. addEnvFromKeys(env, ef.prefix, got.val.data)
        = [n \in DOMAIN env \cup names |-> IF n \in names THEN Text(d[n[2]]) ELSE env[n]]
  BY <1>6, Zenon DEF addEnvFromKeys
<1>9. ASSUME NEW n \in names
      PROVE  /\ n \in ValidNames /\ SourcesUpTo(p, s, n, i) # {}
             /\ AnyOf(FromSource(p.envFrom[Max(SourcesUpTo(p, s, n, i))], n, s)) = Text(d[n[2]])
  <2>1. FromSource(ef, n, s) = {Text(d[n[2]])} /\ n \in ValidNames
    BY <1>6, <1>7, Zenon
  <2>2. PICK S : S = SourcesUpTo(p, s, n, i)
    OBVIOUS
  <2>3. i \in S /\ S \subseteq 1..i
    BY <1>1, <1>2, <2>1, <2>2 DEF SourcesUpTo
  <2>4. Max(S) = i
    <3>1. S \subseteq 0..i /\ S # {}
      BY <1>2, <2>3
    <3>2. Max(S) \in S /\ \A k \in S : k <= Max(S)
      BY <1>2, <3>1, MaxInSet, Zenon
    <3>3. Max(S) \in 1..i /\ i <= Max(S)
      BY <2>3, <3>2, Zenon
    <3> QED BY <1>2, <3>3
  <2>5. AnyOf({Text(d[n[2]])}) = Text(d[n[2]])
    BY Zenon DEF AnyOf
  <2> QED BY <1>1, <2>1, <2>2, <2>3, <2>4, <2>5, Zenon
<1>10. ASSUME NEW n, n \notin names PROVE SourcesUpTo(p, s, n, i) = SourcesUpTo(p, s, n, i - 1)
  <2>1. FromSource(p.envFrom[i], n, s) = {}
    BY <1>1, <1>7, <1>10, Zenon
  <2>2. \A j : j \in 1..i <=> j = i \/ j \in 1..(i - 1)
    BY <1>2
  <2> QED BY <2>1, <2>2, Zenon DEF SourcesUpTo
<1>11. DOMAIN env = {n \in ValidNames : SourcesUpTo(p, s, n, i - 1) # {}}
  BY <1>1, Zenon DEF SourceEnv
<1>12. \A n : n \in DOMAIN env \cup names <=> n \in ValidNames /\ SourcesUpTo(p, s, n, i) # {}
  <2>1. ASSUME NEW n \in names PROVE n \in ValidNames /\ SourcesUpTo(p, s, n, i) # {}
    BY <1>9, Zenon
  <2>2. ASSUME NEW n, n \notin names
        PROVE  n \in DOMAIN env <=> n \in ValidNames /\ SourcesUpTo(p, s, n, i) # {}
    BY <1>10, <1>11, <2>2, Zenon
  <2> QED BY <2>1, <2>2, Zenon
<1>13. ASSUME NEW n \in DOMAIN env \cup names
       PROVE  (IF n \in names THEN Text(d[n[2]]) ELSE env[n])
                = AnyOf(FromSource(p.envFrom[Max(SourcesUpTo(p, s, n, i))], n, s))
  <2>1. CASE n \in names
    BY <1>9, <2>1, Zenon
  <2>2. CASE n \notin names
    <3>1. env[n] = AnyOf(FromSource(p.envFrom[Max(SourcesUpTo(p, s, n, i - 1))], n, s))
      BY <1>1, <1>11, <2>2, Zenon DEF SourceEnv
    <3> QED BY <1>10, <2>2, <3>1, Zenon
  <2> QED BY <2>1, <2>2
<1>14. DOMAIN env \cup names = {n \in ValidNames : SourcesUpTo(p, s, n, i) # {}}
  BY <1>12, Zenon
<1>15. addEnvFromKeys(env, ef.prefix, got.val.data) = SourceEnv(p, s, i)
  BY <1>8, <1>13, <1>14, Zenon DEF SourceEnv
<1> QED BY <1>1, <1>5, <1>15, Zenon

LEMMA SourcesComputed ==
  ASSUME NEW p \in PodSet, NEW s, AfterSources(p, s)[Len(p.envFrom)].err = "ok"
  PROVE  AfterSources(p, s)[Len(p.envFrom)] = Got(SourceEnv(p, s, Len(p.envFrom)))
<1>1. PICK A, N : A = AfterSources(p, s) /\ N = Len(p.envFrom) /\ N \in Nat
  BY PodShape, Zenon
<1>2. SourceLoop(A, p, s, N)
  BY <1>1, AfterSourcesIs, Zenon
<1> DEFINE T == {i \in 0..N : A[i].err = "ok" /\ A[i] # Got(SourceEnv(p, s, i))}
<1>3. SUFFICES ASSUME T # {} PROVE FALSE
  <2>1. N \in 0..N
    BY <1>1
  <2> QED BY <1>1, <2>1, Zenon
<1>4. T \subseteq Nat
  BY <1>1
<1>5. PICK i \in T : \A m \in T : i <= m
  BY <1>3, <1>4, LeastExists, Zenon
<1>6. i \in Nat /\ i \in 0..N /\ A[i].err = "ok" /\ A[i] # Got(SourceEnv(p, s, i))
  BY <1>4, <1>5, Zenon
<1> HIDE DEF T
<1>7. CASE i = 0
  <2>1. A[i] = Got(<< >>)
    BY <1>2, <1>6, <1>7 DEF SourceLoop
  <2>2. \A n : SourcesUpTo(p, s, n, 0) = {}
    BY DEF SourcesUpTo
  <2>3. {n \in ValidNames : SourcesUpTo(p, s, n, 0) # {}} = {}
    BY <2>2, Zenon
  <2>4. SourceEnv(p, s, 0) = << >>
    BY <2>3 DEF SourceEnv
  <2> QED BY <1>6, <1>7, <2>1, <2>4, Zenon
<1>8. CASE i # 0
  <2>1. i - 1 \in 0..N /\ ~(i <= i - 1) /\ i \in 1..N
    BY <1>1, <1>6, <1>8
  <2>2. A[i] = EnvFromStep(s, A[i - 1], p.envFrom[i])
    BY <1>2, <1>6, <1>8, Zenon DEF SourceLoop
  <2>3. A[i - 1].err = "ok"
    BY <1>6, <2>2, EnvFromStepIs, Zenon
  <2>4. A[i - 1] = Got(SourceEnv(p, s, i - 1))
    BY <1>5, <2>1, <2>3, Zenon DEF T
  <2> QED BY <1>1, <1>6, <2>1, <2>2, <2>4, SourceTurn, Zenon
<1> QED BY <1>7, <1>8

-----------------------------------------------------------------------------
(* env: an entry wins over those above it and over envFrom.                *)

\* What is known above an entry is what its references can see.
LEMMA KnownNames ==
  ASSUME NEW p \in PodSet, NEW s, NEW n, NEW i \in 1..(Len(p.env) + 1), Known(p, s, n, i)
  PROVE  n \in NamesOf(p)
<1>1. CASE EntriesFor(p, s, n, i) # {}
  <2>1. PICK j \in 1..(i - 1) : p.env[j].name = n
    BY <1>1, Zenon DEF EntriesFor
  <2>2. j \in 1..Len(p.env)
    BY <2>1, PodShape
  <2> QED BY <2>1, <2>2, Zenon DEF NamesOf
<1>2. CASE SourcesFor(p, s, n) # {}
  BY <1>2, Zenon DEF SourcesFor, FromSource, NamesOf
<1> QED BY <1>1, <1>2, Zenon DEF Known

\* A literal is expanded to what it is worth.
LEMMA LiteralWorth ==
  ASSUME NEW p \in PodSet, NEW u, NEW s, NEW i \in 1..Len(p.env), NEW value
  PROVE  expandEnv(value, DeclaredAbove(p, u, s, i))
           = Concat([k \in DOMAIN value |-> TokenWorth(Worth(p, u, s), p, s, i, value[k])])
<1>1. PICK env, g : env = DeclaredAbove(p, u, s, i) /\ g = Worth(p, u, s)
  OBVIOUS
<1>2. env = [n \in {n \in NamesOf(p) : Known(p, s, n, i)} |->
               IF EntriesFor(p, s, n, i) # {} THEN g[Max(EntriesFor(p, s, n, i))] ELSE Inherited(p, s, n)]
  BY <1>1, Zenon DEF DeclaredAbove
<1>0. \A n : Known(p, s, n, i) => n \in NamesOf(p)
  <2>1. i \in 1..(Len(p.env) + 1)
    BY PodShape
  <2> QED BY <2>1, KnownNames, Zenon
<1> DEFINE Expanded(t) == CASE t[1] = "ref" /\ t[2] \in DOMAIN env -> env[t[2]]
                            [] t[1] = "esc" -> Text(<<"$">>)
                            [] OTHER -> <<t>>
<1>3. ASSUME NEW t PROVE Expanded(t) = TokenWorth(g, p, s, i, t)
  <2>1. PICK n, k : n = t[2] /\ k = t[1]
    OBVIOUS
  <2>2. /\ n \in DOMAIN env <=> Known(p, s, n, i)
        /\ Known(p, s, n, i) =>
             env[n] = IF EntriesFor(p, s, n, i) # {} THEN g[Max(EntriesFor(p, s, n, i))] ELSE Inherited(p, s, n)
    BY <1>0, <1>2, Zenon
  <2>3. CASE k = "esc"
    BY <2>1, <2>3 DEF TokenWorth
  <2>4. CASE k = "ref" /\ Known(p, s, n, i)
    BY <2>1, <2>2, <2>4 DEF TokenWorth
  <2>5. CASE k # "esc" /\ ~(k = "ref" /\ Known(p, s, n, i))
    BY <2>1, <2>2, <2>5 DEF TokenWorth
  <2> QED BY <2>3, <2>4, <2>5
<1>4. expandEnv(value, env) = Concat([k \in DOMAIN value |-> Expanded(value[k])])
  BY Zenon DEF expandEnv, Each
<1> HIDE DEF Expanded
<1>5. [k \in DOMAIN value |-> Expanded(value[k])] = [k \in DOMAIN value |-> TokenWorth(g, p, s, i, value[k])]
  BY <1>3, Zenon
<1> QED BY <1>1, <1>4, <1>5, Zenon

\* The reference to a key: the value is the object's, and it is skipped only if
\* the object does not have it.
FollowsRef(d, e, v) ==
  /\ v.err = "ok" => e.key \in DOMAIN d /\ v.val = Text(d[e.key])
  /\ v.err = "skip" => e.key \notin DOMAIN d

LEMMA KeyRefIs ==
  ASSUME NEW objects, NEW e, NEW got, got = Fetch(objects, e), NEW v, v = KeyRef(e, got),
         NEW d, d = objects[e.obj].data
  PROVE  FollowsRef(d, e, v)
<1>1. CASE got.err # "ok"
  <2>1. got = Failed("pending")
    <3>1. ~(objects[e.obj].found \/ e.optional)
      BY <1>1 DEF Fetch, Got
    <3> QED BY <3>1, Zenon DEF Fetch
  <2>2. v = got
    BY <1>1, Zenon DEF KeyRef
  <2>3. v.err = "pending"
    BY <2>1, <2>2 DEF Failed
  <2> QED BY <2>3, Zenon DEF FollowsRef
<1>2. CASE got.err = "ok"
  <2>1. got.val = objects[e.obj]
    BY <1>2, FetchOk, Zenon
  <2>2. d = got.val.data
    BY <2>1, Zenon
  <2>3. CASE e.key \in DOMAIN d
    <3>1. v = Got(Text(d[e.key]))
      BY <1>2, <2>2, <2>3, Zenon DEF KeyRef
    <3>2. v.err = "ok" /\ v.val = Text(d[e.key])
      BY <3>1 DEF Got
    <3> QED BY <2>3, <3>2 DEF FollowsRef
  <2>4. CASE e.key \notin DOMAIN d
    <3>1. v = Failed("skip") \/ v = Failed("pending")
      BY <1>2, <2>2, <2>4, Zenon DEF KeyRef
    <3>2. v.err # "ok"
      BY <3>1 DEF Failed
    <3> QED BY <2>4, <3>2, Zenon DEF FollowsRef
  <2> QED BY <2>3, <2>4, Zenon
<1> QED BY <1>1, <1>2, Zenon

\* The value of an entry is what it is worth; one that is skipped sets nothing.
GivesWorth(v, e, s, w) ==
  /\ v.err = "ok" => Sets(e, s) /\ v.val = w
  /\ v.err = "skip" => ~Sets(e, s)

LEMMA EntryWorth ==
  ASSUME NEW p \in PodSet, NEW u, NEW s, NEW i \in 1..Len(p.env), NEW e, e = p.env[i],
         NEW v, v = EntryValue(p, u, s, DeclaredAbove(p, u, s, i), e)
  PROVE  GivesWorth(v, e, s, WorthAt(Worth(p, u, s), p, u, s, i))
<1>1. PICK w : w = WorthAt(Worth(p, u, s), p, u, s, i)
  OBVIOUS
<1>0. SUFFICES GivesWorth(v, e, s, w)
  BY <1>1, Zenon
<1>2. e.kind \in EntryKinds
  BY PodShape, Zenon
<1>3. CASE e.kind = "value"
  <2>1. v = Got(expandEnv(e.value, DeclaredAbove(p, u, s, i)))
    BY <1>3 DEF EntryValue
  <2>2. v.err = "ok" /\ v.val = expandEnv(e.value, DeclaredAbove(p, u, s, i))
    BY <2>1 DEF Got
  <2>3. w = Concat([k \in DOMAIN e.value |-> TokenWorth(Worth(p, u, s), p, s, i, e.value[k])])
    BY <1>1, <1>3, Zenon DEF WorthAt
  <2>4. v.val = w
    <3>1. PICK value : value = e.value
      OBVIOUS
    <3>2. expandEnv(value, DeclaredAbove(p, u, s, i))
            = Concat([k \in DOMAIN value |-> TokenWorth(Worth(p, u, s), p, s, i, value[k])])
      BY LiteralWorth
    <3> QED BY <2>2, <2>3, <3>1, <3>2, Zenon
  <2>5. Sets(e, s)
    BY <1>3 DEF Sets
  <2> QED BY <2>2, <2>4, <2>5 DEF GivesWorth
<1>4. e.kind # "value" => w = Plain(p, u, s, e)
  BY <1>1, Zenon DEF WorthAt
<1>5. CASE e.kind = "field"
  <2>1. PICK f : f = resolveFieldRef(u, e.key)
    OBVIOUS
  <2>2. v = IF f.err = "ok" THEN Got(Text(f.val)) ELSE f
    BY <1>5, <2>1 DEF EntryValue
  <2>3. f.err # "skip"
    BY <2>1 DEF resolveFieldRef, Got, Failed
  <2>4. w = Text(f.val) /\ Sets(e, s)
    BY <1>4, <1>5, <2>1 DEF Plain, Sets
  <2>5. CASE f.err = "ok"
    BY <2>2, <2>4, <2>5 DEF Got, GivesWorth
  <2>6. CASE f.err # "ok"
    BY <2>2, <2>3, <2>6, Zenon DEF GivesWorth
  <2> QED BY <2>5, <2>6
<1>6. CASE e.kind = "resource"
  <2>1. PICK f : f = resolveResourceFieldRef(p, e) /\ f = v
    BY <1>6 DEF EntryValue
  <2>2. f.err # "skip"
    BY <2>1 DEF resolveResourceFieldRef, Got, Failed
  <2>3. w = f.val /\ Sets(e, s)
    BY <1>4, <1>6, <2>1 DEF Plain, Sets
  <2> QED BY <2>1, <2>2, <2>3, Zenon DEF GivesWorth
<1>7. CASE e.kind = "configMap"
  <2>1. PICK got, d : got = Fetch(s.cms, e) /\ v = KeyRef(e, got) /\ d = s.cms[e.obj].data
    BY <1>7 DEF EntryValue, getConfigMap
  <2>2. w = Text(d[e.key])
    <3>1. Plain(p, u, s, e) = Text(s.cms[e.obj].data[e.key])
      BY <1>7, Zenon DEF Plain
    <3>2. w = Plain(p, u, s, e)
      BY <1>4, <1>7
    <3> QED BY <2>1, <3>1, <3>2, Zenon
  <2>3. Sets(e, s) <=> e.key \in DOMAIN d
    BY <1>7, <2>1 DEF Sets
  <2>4. FollowsRef(d, e, v)
    BY <2>1, KeyRefIs, Zenon
  <2>5. v.err = "ok" => Sets(e, s) /\ v.val = w
    BY <2>2, <2>3, <2>4 DEF FollowsRef
  <2>6. v.err = "skip" => ~Sets(e, s)
    BY <2>3, <2>4 DEF FollowsRef
  <2> QED BY <2>5, <2>6, Zenon DEF GivesWorth
<1>8. CASE e.kind = "secret"
  <2>1. PICK got, d : got = Fetch(s.secs, e) /\ v = KeyRef(e, got) /\ d = s.secs[e.obj].data
    BY <1>8 DEF EntryValue, loadSecret
  <2>2. w = Text(d[e.key])
    <3>1. Plain(p, u, s, e) = Text(s.secs[e.obj].data[e.key])
      BY <1>8, Zenon DEF Plain
    <3>2. w = Plain(p, u, s, e)
      BY <1>4, <1>8
    <3> QED BY <2>1, <3>1, <3>2, Zenon
  <2>3. Sets(e, s) <=> e.key \in DOMAIN d
    BY <1>8, <2>1 DEF Sets
  <2>4. FollowsRef(d, e, v)
    BY <2>1, KeyRefIs, Zenon
  <2>5. v.err = "ok" => Sets(e, s) /\ v.val = w
    BY <2>2, <2>3, <2>4 DEF FollowsRef
  <2>6. v.err = "skip" => ~Sets(e, s)
    BY <2>3, <2>4 DEF FollowsRef
  <2> QED BY <2>5, <2>6, Zenon DEF GivesWorth
<1> QED BY <1>2, <1>3, <1>5, <1>6, <1>7, <1>8 DEF EntryKinds

\* What is declared of variable n above the i-th entry.
ValueAbove(g, p, s, n, i) ==
  IF EntriesFor(p, s, n, i) # {} THEN g[Max(EntriesFor(p, s, n, i))] ELSE Inherited(p, s, n)

IsDeclared(env, g, p, s, i) ==
  /\ env = [n \in DOMAIN env |-> ValueAbove(g, p, s, n, i)]
  /\ \A n : n \in DOMAIN env <=> Known(p, s, n, i)

LEMMA DeclaredIs ==
  ASSUME NEW p \in PodSet, NEW u, NEW s, NEW i \in 1..(Len(p.env) + 1), NEW g, g = Worth(p, u, s),
         NEW env, env = DeclaredAbove(p, u, s, i)
  PROVE  IsDeclared(env, g, p, s, i)
<1>1. env = [n \in {n \in NamesOf(p) : Known(p, s, n, i)} |-> ValueAbove(g, p, s, n, i)]
  BY Zenon DEF DeclaredAbove, ValueAbove
<1>2. \A n : Known(p, s, n, i) => n \in NamesOf(p)
  BY KnownNames, Zenon
<1> QED BY <1>1, <1>2, Zenon DEF IsDeclared

\* The i-th entry adds itself to the entries of its own variable, if it sets it.
Joins(p, s, n, i) ==
  /\ p.env[i].name = n /\ Sets(p.env[i], s) =>
       EntriesFor(p, s, n, i + 1) # {} /\ Max(EntriesFor(p, s, n, i + 1)) = i
  /\ ~(p.env[i].name = n /\ Sets(p.env[i], s)) => EntriesFor(p, s, n, i + 1) = EntriesFor(p, s, n, i)

LEMMA NextEntry ==
  ASSUME NEW p \in PodSet, NEW s, NEW n, NEW i \in 1..Len(p.env)
  PROVE  Joins(p, s, n, i)
<1>1. i \in Nat /\ i # 0 /\ i + 1 \in Nat
  BY PodShape
<1>2. \A j : j \in 1..((i + 1) - 1) <=> j = i \/ j \in 1..(i - 1)
  BY <1>1
<1>3. ASSUME p.env[i].name = n, Sets(p.env[i], s)
      PROVE  EntriesFor(p, s, n, i + 1) # {} /\ Max(EntriesFor(p, s, n, i + 1)) = i
  <2>1. PICK S, m : S = EntriesFor(p, s, n, i + 1) /\ m = Max(S)
    OBVIOUS
  <2>2. i \in S
    BY <1>2, <1>3, <2>1, Zenon DEF EntriesFor
  <2>3. m \in S /\ i <= m
    BY <1>1, <2>1, <2>2, LastEntry, Zenon
  <2>4. m \in 1..((i + 1) - 1)
    BY <2>1, <2>3, Zenon DEF EntriesFor
  <2>5. m = i
    BY <1>1, <2>3, <2>4
  <2> QED BY <2>1, <2>2, <2>5, Zenon
<1>4. ASSUME ~(p.env[i].name = n /\ Sets(p.env[i], s))
      PROVE  EntriesFor(p, s, n, i + 1) = EntriesFor(p, s, n, i)
  BY <1>2, <1>4, Zenon DEF EntriesFor
<1> QED BY <1>3, <1>4, Zenon DEF Joins

\* One turn of the second loop.
LEMMA EntryTurn ==
  ASSUME NEW p \in PodSet, NEW u, NEW s, NEW i \in 1..Len(p.env),
         EnvStep(p, u, s, Got(DeclaredAbove(p, u, s, i)), p.env[i]).err = "ok"
  PROVE  EnvStep(p, u, s, Got(DeclaredAbove(p, u, s, i)), p.env[i]) = Got(DeclaredAbove(p, u, s, i + 1))
<1>1. PICK e, env, g : e = p.env[i] /\ env = DeclaredAbove(p, u, s, i) /\ g = Worth(p, u, s)
  OBVIOUS
<1>2. PICK v, after : v = EntryValue(p, u, s, env, e) /\ after = DeclaredAbove(p, u, s, i + 1)
  OBVIOUS
<1>3. i \in 1..(Len(p.env) + 1) /\ i + 1 \in 1..(Len(p.env) + 1)
  BY PodShape
<1>4. /\ env = [n \in DOMAIN env |-> ValueAbove(g, p, s, n, i)]
      /\ \A n : n \in DOMAIN env <=> Known(p, s, n, i)
  <2>1. IsDeclared(env, g, p, s, i)
    BY <1>1, <1>3, DeclaredIs, Zenon
  <2> QED BY <2>1, Zenon DEF IsDeclared
<1>5. /\ after = [n \in DOMAIN after |-> ValueAbove(g, p, s, n, i + 1)]
      /\ \A n : n \in DOMAIN after <=> Known(p, s, n, i + 1)
  <2>1. PICK k : k = i + 1
    OBVIOUS
  <2>2. IsDeclared(after, g, p, s, k)
    BY <1>1, <1>2, <1>3, <2>1, DeclaredIs, Zenon
  <2> QED BY <2>1, <2>2, Zenon DEF IsDeclared
<1>6. /\ v.err = "ok" => Sets(e, s) /\ v.val = WorthAt(g, p, u, s, i)
      /\ v.err = "skip" => ~Sets(e, s)
  <2>1. v = EntryValue(p, u, s, DeclaredAbove(p, u, s, i), e)
    BY <1>1, <1>2, Zenon
  <2>2. GivesWorth(v, e, s, WorthAt(Worth(p, u, s), p, u, s, i))
    BY <1>1, <2>1, EntryWorth, Zenon
  <2> QED BY <1>1, <2>2, Zenon DEF GivesWorth
<1>7. g[i] = WorthAt(g, p, u, s, i)
  <2>1. WorthLoop(g, p, u, s, Len(p.env))
    BY <1>1, WorthIs, Zenon
  <2> QED BY <2>1, Zenon DEF WorthLoop
<1>8. EnvStep(p, u, s, Got(env), e) =
        CASE v.err = "ok"   -> Got(Assign(env, e.name, v.val))
          [] v.err = "skip" -> Got(env)
          [] OTHER -> v
  <2>1. Got(env).err = "ok" /\ Got(env).val = env
    BY DEF Got
  <2>2. PICK acc : acc = Got(env) /\ acc.err = "ok" /\ acc.val = env
    BY <2>1, Zenon
  <2>3. EnvStep(p, u, s, acc, e) = 
           CASE acc.err # "ok" -> acc
             [] acc.err = "ok" /\ v.err = "ok"   -> Got(Assign(env, e.name, v.val))
             [] acc.err = "ok" /\ v.err = "skip" -> acc
             [] OTHER -> v
    BY <1>2, <2>2, EnvStepIs, Zenon
  <2>4. v.err = "ok" => EnvStep(p, u, s, acc, e) = Got(Assign(env, e.name, v.val))
    BY <2>2, <2>3
  <2>5. v.err = "skip" => EnvStep(p, u, s, acc, e) = acc
    BY <2>2, <2>3
  <2>6. v.err # "ok" /\ v.err # "skip" => EnvStep(p, u, s, acc, e) = v
    BY <2>2, <2>3
  <2> QED BY <2>2, <2>4, <2>5, <2>6
<1>9. CASE v.err = "skip"
  <2>1. ASSUME NEW n PROVE EntriesFor(p, s, n, i + 1) = EntriesFor(p, s, n, i)
    <3>1. ~(p.env[i].name = n /\ Sets(p.env[i], s))
      BY <1>1, <1>6, <1>9, Zenon
    <3>2. Joins(p, s, n, i)
      BY NextEntry, Zenon
    <3> QED BY <3>1, <3>2, Zenon DEF Joins
  <2>2. \A n : n \in DOMAIN env <=> n \in DOMAIN after
    BY <1>4, <1>5, <2>1, Zenon DEF Known
  <2>3. \A n : ValueAbove(g, p, s, n, i) = ValueAbove(g, p, s, n, i + 1)
    BY <2>1, Zenon DEF ValueAbove
  <2>4. DOMAIN env = DOMAIN after
    <3>1. PICK D, E : D = DOMAIN env /\ E = DOMAIN after
      OBVIOUS
    <3> QED BY <2>2, <3>1
  <2>5. env = after
    BY <1>4, <1>5, <2>3, <2>4, Zenon
  <2>6. EnvStep(p, u, s, Got(env), e) = Got(env)
    BY <1>8, <1>9
  <2> QED BY <1>1, <1>2, <2>5, <2>6, Zenon
<1>10. CASE v.err = "ok"
  <2>1. ASSUME NEW n, n # e.name PROVE EntriesFor(p, s, n, i + 1) = EntriesFor(p, s, n, i)
    <3>1. ~(p.env[i].name = n /\ Sets(p.env[i], s))
      BY <1>1, <2>1, Zenon
    <3>2. Joins(p, s, n, i)
      BY NextEntry, Zenon
    <3> QED BY <3>1, <3>2, Zenon DEF Joins
  <2>2. EntriesFor(p, s, e.name, i + 1) # {} /\ Max(EntriesFor(p, s, e.name, i + 1)) = i
    <3>1. PICK n : n = e.name
      OBVIOUS
    <3>2. p.env[i].name = n /\ Sets(p.env[i], s)
      BY <1>1, <1>6, <1>10, <3>1, Zenon
    <3>3. Joins(p, s, n, i)
      BY NextEntry, Zenon
    <3> QED BY <3>1, <3>2, <3>3, Zenon DEF Joins
  <2>3. \A n : n # e.name => ValueAbove(g, p, s, n, i) = ValueAbove(g, p, s, n, i + 1)
    BY <2>1, Zenon DEF ValueAbove
  <2>4. ValueAbove(g, p, s, e.name, i + 1) = v.val
    BY <1>6, <1>7, <1>10, <2>2, Zenon DEF ValueAbove
  <2>5. \A n : n \in DOMAIN after <=> n \in DOMAIN env \/ n = e.name
    BY <1>4, <1>5, <2>1, <2>2, Zenon DEF Known
  <2>6. DOMAIN after = DOMAIN env \cup {e.name}
    <3>1. PICK D, E, x : D = DOMAIN env /\ E = DOMAIN after /\ x = e.name
      OBVIOUS
    <3>2. \A n : n \in E <=> n \in D \cup {x}
      BY <2>5, <3>1, Zenon
    <3> QED BY <3>1, <3>2, Zenon
  <2>7. \A n \in DOMAIN after : (IF n = e.name THEN v.val ELSE env[n]) = ValueAbove(g, p, s, n, i + 1)
    BY <1>4, <2>3, <2>4, <2>5, Zenon
  <2>8. Assign(env, e.name, v.val) = after
    BY <1>5, <2>6, <2>7, Zenon DEF Assign
  <2>9. EnvStep(p, u, s, Got(env), e) = Got(after)
    BY <1>8, <1>10, <2>8
  <2> QED BY <1>1, <1>2, <2>9, Zenon
<1>11. CASE v.err # "ok" /\ v.err # "skip"
  BY <1>1, <1>8, <1>11
<1> QED BY <1>9, <1>10, <1>11

\* Above the first entry there is what envFrom gives.
LEMMA FirstDeclared ==
  ASSUME NEW p \in PodSet, NEW u, NEW s
  PROVE  SourceEnv(p, s, Len(p.envFrom)) = DeclaredAbove(p, u, s, 1)
<1>1. PICK N, src, env, g : /\ N = Len(p.envFrom) /\ src = SourceEnv(p, s, N)
                            /\ env = DeclaredAbove(p, u, s, 1) /\ g = Worth(p, u, s)
  BY Zenon
<1>2. DOMAIN p.envFrom = 1..N /\ 1 \in 1..(Len(p.env) + 1)
  BY <1>1, PodShape
<1>3. \A n : SourcesUpTo(p, s, n, N) = SourcesFor(p, s, n)
  BY <1>2, Zenon DEF SourcesUpTo, SourcesFor
<1>4. \A n : EntriesFor(p, s, n, 1) = {}
  BY DEF EntriesFor
<1>5. IsDeclared(env, g, p, s, 1)
  BY <1>1, <1>2, DeclaredIs, Zenon
<1>6. env = [n \in DOMAIN env |-> ValueAbove(g, p, s, n, 1)]
  BY <1>5, Zenon DEF IsDeclared
<1>7. \A n : n \in DOMAIN env <=> SourcesFor(p, s, n) # {}
  BY <1>4, <1>5, Zenon DEF IsDeclared, Known
<1>8. \A n : ValueAbove(g, p, s, n, 1) = Inherited(p, s, n)
  BY <1>4, Zenon DEF ValueAbove
<1>9. \A n : SourcesFor(p, s, n) # {} => n \in ValidNames
  BY Zenon DEF SourcesFor, FromSource
<1>10. DOMAIN env = {n \in ValidNames : SourcesUpTo(p, s, n, N) # {}}
  BY <1>3, <1>7, <1>9, Zenon
<1>11. \A n : Inherited(p, s, n) = AnyOf(FromSource(p.envFrom[Max(SourcesUpTo(p, s, n, N))], n, s))
  BY <1>3, Zenon DEF Inherited
<1>12. src = [n \in DOMAIN env |-> AnyOf(FromSource(p.envFrom[Max(SourcesUpTo(p, s, n, N))], n, s))]
  BY <1>1, <1>10, Zenon DEF SourceEnv
<1>13. PICK D : D = DOMAIN env
  OBVIOUS
<1>14. \A n : ValueAbove(g, p, s, n, 1) = AnyOf(FromSource(p.envFrom[Max(SourcesUpTo(p, s, n, N))], n, s))
  BY <1>8, <1>11, Zenon
<1>15. env = [n \in D |-> AnyOf(FromSource(p.envFrom[Max(SourcesUpTo(p, s, n, N))], n, s))]
  <2>1. env = [n \in D |-> ValueAbove(g, p, s, n, 1)]
    BY <1>6, <1>13, Zenon
  <2> QED BY <1>14, <2>1, Zenon
<1>16. src = env
  BY <1>12, <1>13, <1>15, Zenon
<1> QED BY <1>1, <1>16, Zenon

\* resolveEnv computes the environment the Pod declares.
LEMMA EntriesComputed ==
  ASSUME NEW p \in PodSet, NEW u, NEW s, resolveEnv(p, u, s).err = "ok"
  PROVE  resolveEnv(p, u, s) = Got(DeclaredEnv(p, u, s))
<1>1. PICK A, N, b : /\ A = AfterEntries(p, u, s) /\ N = Len(p.env) /\ N \in Nat
                     /\ b = AfterSources(p, s)[Len(p.envFrom)]
  BY PodShape, Zenon
<1>2. EntryLoop(A, p, u, s, b, N)
  BY <1>1, AfterEntriesIs, Zenon
<1> DEFINE T == {i \in 0..N : A[i].err = "ok" /\ A[i] # Got(DeclaredAbove(p, u, s, i + 1))}
<1>3. SUFFICES ASSUME T # {} PROVE FALSE
  <2>1. N \in 0..N
    BY <1>1
  <2>2. resolveEnv(p, u, s) = A[N] /\ A[N].err = "ok"
    BY <1>1, Zenon DEF resolveEnv
  <2>3. DeclaredEnv(p, u, s) = DeclaredAbove(p, u, s, N + 1)
    BY <1>1, Zenon DEF DeclaredEnv
  <2>4. CASE A[N] # Got(DeclaredAbove(p, u, s, N + 1))
    <3>1. N \in T
      BY <2>1, <2>2, <2>4, Zenon
    <3> QED BY <3>1, Zenon
  <2>5. CASE A[N] = Got(DeclaredAbove(p, u, s, N + 1))
    BY <2>2, <2>3, <2>5, Zenon
  <2> QED BY <2>4, <2>5
<1>4. T \subseteq Nat
  BY <1>1
<1>5. PICK i \in T : \A m \in T : i <= m
  BY <1>3, <1>4, LeastExists, Zenon
<1>6. i \in Nat /\ i \in 0..N /\ A[i].err = "ok" /\ A[i] # Got(DeclaredAbove(p, u, s, i + 1))
  BY <1>4, <1>5, Zenon
<1> HIDE DEF T
<1>7. CASE i = 0
  <2>1. A[i] = b
    BY <1>2, <1>6, <1>7 DEF EntryLoop
  <2>2. b = Got(SourceEnv(p, s, Len(p.envFrom)))
    BY <1>1, <1>6, <2>1, SourcesComputed, Zenon
  <2>3. i + 1 = 1
    BY <1>7
  <2> QED BY <1>6, <2>1, <2>2, <2>3, FirstDeclared, Zenon
<1>8. CASE i # 0
  <2>1. PICK j : j = i - 1
    OBVIOUS
  <2>2. j \in 0..N /\ ~(i <= j) /\ i \in 1..N /\ j + 1 = i
    BY <1>1, <1>6, <1>8, <2>1
  <2>3. A[i] = EnvStep(p, u, s, A[j], p.env[i])
    BY <1>2, <1>6, <1>8, <2>1, Zenon DEF EntryLoop
  <2>4. A[j].err = "ok"
    <3>1. A[j].err # "ok" => EnvStep(p, u, s, A[j], p.env[i]) = A[j]
      BY EnvStepIs, Zenon
    <3> QED BY <1>6, <2>3, <3>1, Zenon
  <2>5. A[j] = Got(DeclaredAbove(p, u, s, i))
    BY <1>5, <2>2, <2>4, Zenon DEF T
  <2>6. A[i] = EnvStep(p, u, s, Got(DeclaredAbove(p, u, s, i)), p.env[i])
    BY <2>3, <2>5, Zenon
  <2>7. EnvStep(p, u, s, Got(DeclaredAbove(p, u, s, i)), p.env[i]).err = "ok" /\ i \in 1..Len(p.env)
    BY <1>1, <1>6, <2>2, <2>6, Zenon
  <2> QED BY <1>6, <2>6, <2>7, EntryTurn, Zenon
<1> QED BY <1>7, <1>8
LEMMA TranslatedEnv ==
  ASSUME NEW p \in PodSet, NEW u, NEW s, NEW run, translatePod(p, u, s) = Got(run)
  PROVE  run.env = DeclaredEnv(p, u, s)
<1>1. translatePod(p, u, s).err = "ok" /\ translatePod(p, u, s).val = run
  BY DEF Got
<1>2. /\ resolveEnv(p, u, s).err = "ok"
      /\ run = translateContainer(p, resolveEnv(p, u, s).val, resolveVolumes(p, u, s).val)
  BY <1>1, TranslationGot, Zenon
<1>3. resolveEnv(p, u, s) = Got(DeclaredEnv(p, u, s))
  BY <1>2, EntriesComputed, Zenon
<1>4. resolveEnv(p, u, s).val = DeclaredEnv(p, u, s)
  BY <1>3 DEF Got
<1>5. run.env = resolveEnv(p, u, s).val
  BY <1>2 DEF translateContainer
<1> QED BY <1>4, <1>5, Zenon

(***************************************************************************)
(* The environment a micro-VM runs with is the one its Pod declares, for   *)
(* the UID and the objects of the attempt that built its spec.             *)
(***************************************************************************)
THEOREM EnvironmentDeclared == Spec => []RunsAsDeclared
<1>1. WorkloadInv => RunsAsDeclared
  <2> SUFFICES ASSUME spec \in PodSet, VMInv, vm # NoVM
               PROVE  vm.run.env = DeclaredEnv(spec, vm.uid, vm.seen)
    BY Zenon DEF RunsAsDeclared, WorkloadInv, ApiInv, WorkInv
  <2>1. PICK p, u, s, run : p = spec /\ u = vm.uid /\ s = vm.seen /\ run = vm.run
    BY Zenon
  <2>2. p \in PodSet /\ translatePod(p, u, s) = Got(run)
    BY <2>1, Zenon DEF VMInv, Resolved
  <2>3. run.env = DeclaredEnv(p, u, s)
    BY <2>2, TranslatedEnv, Zenon
  <2> QED BY <2>1, <2>3, Zenon
<1> QED BY <1>1, WorkloadInductive, PTL
=============================================================================
