--------------------------- MODULE Upkeep_proofs ---------------------------
(***************************************************************************)
(* The orphan reaper and the removal of a node, for every set of workloads,*)
(* every grace period and every number of failures, stops and commands.    *)
(***************************************************************************)
EXTENDS Upkeep, FiniteSetTheorems, SequenceTheorems, TLAPS

States == {"none", "live", "deleting"}
Ages   == -1 .. GracePeriod
Elders == 0 .. GracePeriod

PassType ==
  [at : {"idle", "scan", "reap"}, expected : SUBSET Ours, ages : {<< >>} \cup [Ours -> Ages],
   todo : Seq(Ours), reaped : SUBSET Ours, lag : Elders]
CmdType ==
  [kind : {"none", "cleanup", "remove"}, at : {"idle", "scan", "reap", "mesh", "done"},
   expected : SUBSET Ours, todo : Seq(Ours), failed : BOOLEAN, keepNode : BOOLEAN]

TypeInv ==
  /\ pods \in [Ours -> States] /\ cache \in [Ours -> States]
  /\ vms \subseteq Ours \cup Foreign /\ Foreign \subseteq vms
  /\ firstSeen \in [Ours -> Ages] /\ safe \in [Ours -> Elders]
  /\ pass \in PassType /\ cmd \in CmdType

\* No clock runs ahead of what the scans have seen; what is to be destroyed has
\* had its grace and is not expected; a live Pod is expected, or younger than
\* the pass.
ReaperInv ==
  /\ \A p \in Ours : firstSeen[p] <= safe[p]
  /\ pass.at = "scan" => /\ pass.ages \in [Ours -> Ages]
                         /\ \A p \in Ours : pass.ages[p] <= safe[p] /\ pass.lag <= safe[p]
  /\ pass.at = "reap" => \A w \in Range(pass.todo) : safe[w] = GracePeriod /\ w \notin pass.expected
  /\ pass.at # "idle" => \A p \in Ours : pods[p] = "live" => p \in pass.expected \cup young

\* While a removal is at work the kubelet, with its reaper and its watch, is
\* down, and the steps that did not fail have left nothing.
RemovalInv ==
  /\ ~up => pass.at = "idle" /\ watch.at = "off"
  /\ cmd.kind = "remove" => ~up /\ cmd.expected = {}
  /\ cmd.kind = "remove" /\ ~cmd.failed =>
       /\ node = "absent" \/ cmd.keepNode
       /\ cmd.at = "reap" => vms \cap Ours \subseteq Range(cmd.todo)
       /\ cmd.at \in {"mesh", "done"} => vms \cap Ours = {} /\ rules = {}
       /\ cmd.at = "done" => ~mesh

IInv == TypeInv /\ ReaperInv /\ RemovalInv

-----------------------------------------------------------------------------
(* The order Scan's result is worked off in lists exactly that result.     *)
LEMMA SetToSeqLists ==
  ASSUME NEW S, IsFiniteSet(S)
  PROVE  SetToSeq(S) \in Seq(S) /\ Range(SetToSeq(S)) = S
<1> DEFINE c == Cardinality(S)  F == [1 .. c -> S]
<1>1. c \in Nat /\ ExistsBijection(1 .. c, S)
  BY FS_CardinalityType
<1>2. PICK g : g \in Bijection(1 .. c, S)
  BY <1>1 DEF ExistsBijection
<1>3. g \in F /\ IsInjective(g)
  BY <1>2 DEF Bijection, Injection
<1>4. SetToSeq(S) \in F /\ IsInjective(SetToSeq(S))
  BY <1>3 DEF SetToSeq
<1>5. SetToSeq(S) \in Injection(1 .. c, S)
  BY <1>4 DEF Injection
<1>6. Cardinality(1 .. c) = c
  BY <1>1, FS_Interval
<1>7. SetToSeq(S) \in Surjection(1 .. c, S)
  BY <1>5, <1>6, FS_Injection
<1>8. SetToSeq(S) \in Seq(S)
  BY <1>1, <1>4
<1> HIDE DEF c
<1>9. DOMAIN SetToSeq(S) = 1 .. c
  BY <1>4
<1>10. Range(SetToSeq(S)) = S
  BY <1>4, <1>7, <1>9 DEF Range, Surjection
<1> QED BY <1>8, <1>10

(* Working off the head of a list leaves the rest of it.                   *)
LEMMA TailLists ==
  ASSUME NEW S, NEW s \in Seq(S), s # << >>
  PROVE  /\ Head(s) \in Range(s) /\ Head(s) \in S /\ Tail(s) \in Seq(S)
         /\ Range(s) = {Head(s)} \cup Range(Tail(s))
<1>1. Len(s) \in Nat \ {0} /\ DOMAIN s = 1 .. Len(s) /\ Head(s) = s[1] /\ s[1] \in S
  OBVIOUS
<1>2. Tail(s) \in Seq(S) /\ DOMAIN Tail(s) = 1 .. (Len(s) - 1)
  BY <1>1
<1>3. \A i \in 1 .. (Len(s) - 1) : Tail(s)[i] = s[i + 1]
  BY <1>1
<1>4. \A i \in 1 .. Len(s) : i = 1 \/ (i - 1 \in 1 .. (Len(s) - 1) /\ Tail(s)[i - 1] = s[i])
  <2>1. PICK t, n : t = Tail(s) /\ n = Len(s) /\ n \in Nat
    BY <1>1, Zenon
  <2>2. \A i \in 1 .. n : i = 1 \/ (i - 1 \in 1 .. (n - 1) /\ (i - 1) + 1 = i)
    BY <2>1
  <2>3. \A i \in 1 .. (n - 1) : t[i] = s[i + 1]
    BY <1>3, <2>1, Zenon
  <2>4. \A i \in 1 .. n : i = 1 \/ (i - 1 \in 1 .. (n - 1) /\ t[i - 1] = s[i])
    BY <2>2, <2>3, Zenon
  <2> QED BY <2>1, <2>4, Zenon
<1>5. ASSUME NEW x \in Range(s) PROVE x \in {Head(s)} \cup Range(Tail(s))
  <2>1. PICK i \in 1 .. Len(s) : x = s[i]
    BY <1>1, Zenon DEF Range
  <2>2. CASE i = 1
    BY <1>1, <2>1, <2>2, Zenon
  <2>3. CASE i - 1 \in DOMAIN Tail(s) /\ Tail(s)[i - 1] = s[i]
    BY <2>1, <2>3, Zenon DEF Range
  <2> QED BY <1>2, <1>4, <2>1, <2>2, <2>3, Zenon
<1>6. ASSUME NEW x \in Range(Tail(s)) PROVE x \in Range(s)
  <2>1. PICK i \in 1 .. (Len(s) - 1) : x = Tail(s)[i]
    BY <1>2, Zenon DEF Range
  <2>2. i + 1 \in DOMAIN s
    BY <1>1
  <2>3. x = s[i + 1]
    BY <1>3, <2>1, Zenon
  <2> QED BY <2>2, <2>3, Zenon DEF Range
<1>7. Head(s) \in Range(s)
  <2>1. 1 \in DOMAIN s
    BY <1>1
  <2> QED BY <1>1, <2>1, Zenon DEF Range
<1>8. Range(s) = {Head(s)} \cup Range(Tail(s))
  BY <1>5, <1>6, <1>7, Zenon
<1> QED BY <1>1, <1>2, <1>7, <1>8, Zenon

(* A tick keeps the order of ages, and none exceeds the grace period.      *)
LEMMA OlderKeeps ==
  /\ \A m, n \in Ages : m <= n => Older(m) <= Older(n)
  /\ \A n \in Ages : Older(n) \in Ages
  /\ \A n \in Elders : Older(n) \in Elders
  /\ Older(GracePeriod) = GracePeriod
BY UpkeepAssumption DEF Older, Ages, Elders

(* What a scan finds to be an orphan is finite and MacVz's own.            *)
LEMMA ScanLists ==
  ASSUME NEW E, NEW M, M \subseteq Scan(E)
  PROVE  /\ Scan(E) \subseteq Ours /\ Scan(E) \cap E = {}
         /\ SetToSeq(M) \in Seq(Ours) /\ Range(SetToSeq(M)) = M
<1>1. Scan(E) \subseteq Ours /\ Scan(E) \cap E = {}
  BY DEF Scan, IsMacVzVM
<1>2. IsFiniteSet(M)
  BY <1>1, UpkeepAssumption, FS_Subset
<1>3. SetToSeq(M) \in Seq(M) /\ Range(SetToSeq(M)) = M
  BY <1>2, SetToSeqLists
<1>4. SetToSeq(M) \in Seq(Ours)
  BY <1>1, <1>3
<1> QED BY <1>1, <1>3, <1>4

-----------------------------------------------------------------------------
(* Every step keeps the types; in particular a list of workloads to be     *)
(* destroyed never names a foreign one (IsMacVzVM, Scan).                  *)
LEMMA TypesKept == TypeInv /\ [Next]_vars => TypeInv'
<1> SUFFICES ASSUME TypeInv, [Next]_vars PROVE TypeInv'
  OBVIOUS
<1> USE DEF TypeInv
<1>1. ASSUME NEW p \in Ours, ApplyPod(p) \/ RequestDelete(p) \/ ForceDelete(p) \/ CacheSync(p)
      PROVE TypeInv'
  BY <1>1 DEF ApplyPod, RequestDelete, ForceDelete, CacheSync, States
<1>2. ASSUME NEW p \in Ours, CreatePod(p) PROVE TypeInv'
  BY <1>2 DEF CreatePod
<1>3. ASSUME NEW p \in Ours, NEW ok \in BOOLEAN, DeletePod(p, ok) PROVE TypeInv'
  BY <1>3, UpkeepAssumption DEF DeletePod, States
<1>4. CASE RuntimeFails \/ RuntimeRecovers \/ WatchStarts \/ WatchTicks
  BY <1>4 DEF RuntimeFails, RuntimeRecovers, WatchStarts, WatchTicks
<1>5. CASE Tick
  <2>1. firstSeen' \in [Ours -> Ages] /\ safe' \in [Ours -> Elders]
    BY <1>5, OlderKeeps DEF Tick
  <2>2. pass' \in PassType
    <3>1. Older(pass.lag) \in Elders /\ 0 \in Elders
      BY OlderKeeps, UpkeepAssumption DEF PassType, Elders
    <3>2. \/ pass' = pass
          \/ pass' = [pass EXCEPT !.lag = Older(pass.lag)]
          \/ pass' = [pass EXCEPT !.lag = 0]
      BY <1>5, Zenon DEF Tick
    <3> QED BY <3>1, <3>2 DEF PassType
  <2> QED BY <1>5, <2>1, <2>2 DEF Tick
<1>6. CASE PassBegins
  <2>1. 0 \in Elders
    BY UpkeepAssumption DEF Elders
  <2>2. pass' \in PassType
    <3>1. expectedWorkloadIDs(cache) \in SUBSET Ours /\ << >> \in Seq(Ours)
      BY DEF expectedWorkloadIDs
    <3>2. pass' = [at |-> "scan", expected |-> expectedWorkloadIDs(cache), ages |-> firstSeen,
                   todo |-> << >>, reaped |-> {}, lag |-> 0]
      BY <1>6 DEF PassBegins, NoPass
    <3> QED BY <2>1, <3>1, <3>2 DEF PassType
  <2> QED BY <1>6, <2>2 DEF PassBegins
<1>7. CASE PassScans
  <2> DEFINE orphans == Scan(pass.expected)  matured == Matured(orphans)
  <2>1. matured \subseteq orphans
    BY DEF Matured
  <2>2. SetToSeq(matured) \in Seq(Ours)
    BY <2>1, ScanLists
  <2>3. NoPass \in PassType /\ 0 \in Elders /\ -1 \in Ages /\ Elders \subseteq Ages
    BY UpkeepAssumption DEF NoPass, PassType, Elders, Ages
  <2>4. pass' \in PassType
    BY <1>7, <2>2, <2>3 DEF PassScans, PassType
  <2>5. firstSeen' \in [Ours -> Ages]
    <3>1. pass.lag \in Ages
      BY <2>3 DEF PassType
    <3> QED BY <1>7, <2>3, <3>1 DEF PassScans, Clock
  <2>6. safe' \in [Ours -> Elders]
    BY <1>7, <2>3 DEF PassScans
  <2> QED BY <1>7, <2>4, <2>5, <2>6 DEF PassScans
<1>8. CASE PassSkips
  <2>1. NoPass \in PassType
    BY UpkeepAssumption DEF NoPass, PassType, Elders
  <2> QED BY <1>8, <2>1 DEF PassSkips
<1>9. ASSUME NEW ok \in BOOLEAN, PassDestroys(ok) PROVE TypeInv'
  <2>1. pass.todo \in Seq(Ours) /\ pass.todo # << >>
    BY <1>9 DEF PassDestroys, DestroyNext, PassType
  <2>2. Head(pass.todo) \in Ours /\ Tail(pass.todo) \in Seq(Ours)
    BY <2>1, TailLists
  <2>3. pass' \in PassType
    BY <1>9, <2>2 DEF PassDestroys, PassType
  <2>4. vms' \subseteq vms /\ vms \ vms' \subseteq Ours
    BY <1>9, <2>2 DEF PassDestroys, DestroyNext
  <2> QED BY <1>9, <2>3, <2>4, UpkeepAssumption DEF PassDestroys
<1>10. CASE PassEnds
  <2>1. NoPass \in PassType /\ -1 \in Ages
    BY UpkeepAssumption DEF NoPass, PassType, Elders, Ages
  <2> QED BY <1>10, <2>1 DEF PassEnds
<1>11. CASE KubeletStarts \/ KubeletStops
  <2>1. NoPass \in PassType /\ -1 \in Ages /\ 0 \in Elders /\ "none" \in States
    BY UpkeepAssumption DEF NoPass, PassType, Elders, Ages, States
  <2> QED BY <1>11, <2>1 DEF KubeletStarts, KubeletStops
<1>12. ASSUME NEW b \in BOOLEAN, CleanupStarts(b) PROVE TypeInv'
  <2>1. PICK e \in SUBSET Ours :
          cmd' = [kind |-> "cleanup", at |-> "scan", expected |-> e, todo |-> << >>,
                  failed |-> FALSE, keepNode |-> FALSE]
    BY <1>12 DEF CleanupStarts, NoCmd, expectedWorkloadIDs
  <2>2. cmd' \in CmdType
    BY <2>1 DEF CmdType
  <2> QED BY <1>12, <2>2 DEF CleanupStarts
<1>13. ASSUME NEW keep \in BOOLEAN, NEW ok \in BOOLEAN, RemoveStarts(keep, ok) PROVE TypeInv'
  <2>1. PICK f \in BOOLEAN :
          cmd' = [kind |-> "remove", at |-> "scan", expected |-> {}, todo |-> << >>,
                  failed |-> f, keepNode |-> keep]
    BY <1>13 DEF RemoveStarts, NoCmd
  <2>2. cmd' \in CmdType
    BY <2>1 DEF CmdType
  <2> QED BY <1>13, <2>2 DEF RemoveStarts
<1>14. ASSUME NEW ok \in BOOLEAN, CommandScans(ok) PROVE TypeInv'
  <2>1. SetToSeq(Scan(cmd.expected)) \in Seq(Ours)
    BY ScanLists
  <2>2. NoCmd \in CmdType
    BY DEF NoCmd, CmdType
  <2>3. cmd' \in CmdType
    <3>1. CASE ok
      BY <1>14, <2>1, <3>1 DEF CommandScans, CmdType
    <3>2. CASE ~ok /\ cmd.kind = "cleanup"
      BY <1>14, <2>2, <3>2 DEF CommandScans
    <3>3. CASE ~ok /\ cmd.kind # "cleanup"
      BY <1>14, <3>3 DEF CommandScans, CmdType
    <3> QED BY <3>1, <3>2, <3>3
  <2> QED BY <1>14, <2>3 DEF CommandScans
<1>15. ASSUME NEW ok \in BOOLEAN, CommandDestroys(ok) PROVE TypeInv'
  <2>1. cmd.todo \in Seq(Ours) /\ cmd.todo # << >>
    BY <1>15 DEF CommandDestroys, DestroyNext, CmdType
  <2>2. Head(cmd.todo) \in Ours /\ Tail(cmd.todo) \in Seq(Ours)
    BY <2>1, TailLists
  <2>3. cmd' \in CmdType
    BY <1>15, <2>2 DEF CommandDestroys, CmdType
  <2>4. vms' \subseteq vms /\ vms \ vms' \subseteq Ours
    BY <1>15, <2>2 DEF CommandDestroys, DestroyNext
  <2> QED BY <1>15, <2>3, <2>4, UpkeepAssumption DEF CommandDestroys
<1>16. ASSUME NEW ok \in BOOLEAN, FlushAnchor(ok) \/ MeshRemove(ok) PROVE TypeInv'
  <2>1. NoCmd \in CmdType
    BY DEF NoCmd, CmdType
  <2>2. cmd' \in CmdType
    <3>1. PICK b \in BOOLEAN : b = (cmd.failed \/ ~ok)
      OBVIOUS
    <3>2. cmd' = NoCmd \/ cmd' = [cmd EXCEPT !.at = "mesh", !.failed = b]
                       \/ cmd' = [cmd EXCEPT !.at = "done", !.failed = b]
      BY <1>16, <3>1, Zenon DEF FlushAnchor, MeshRemove
    <3> QED BY <2>1, <3>2 DEF CmdType
  <2> QED BY <1>16, <2>2 DEF FlushAnchor, MeshRemove
<1>17. CASE CommandEnds
  BY <1>17 DEF CommandEnds, NoCmd, CmdType
<1>18. CASE UNCHANGED vars
  BY <1>18 DEF vars
<1> HIDE DEF TypeInv
<1> QED
  BY <1>1, <1>2, <1>3, <1>4, <1>5, <1>6, <1>7, <1>8, <1>9, <1>10, <1>11, <1>12, <1>13,
     <1>14, <1>15, <1>16, <1>17, <1>18, Zenon DEF Next, Pass, Cleanup, Removal, Command

-----------------------------------------------------------------------------
(* A pass that is over, or cut short, has nothing left to destroy.         *)
LEMMA PassOver ==
  ASSUME NoPass = pass', \A p \in Ours : firstSeen'[p] <= safe'[p]
  PROVE  ReaperInv'
BY DEF NoPass, ReaperInv

(* Every step keeps the reaper's bookkeeping honest (reapOnce, firstSeen). *)
LEMMA ReaperKept == TypeInv /\ ReaperInv /\ [Next]_vars => ReaperInv'
<1> SUFFICES ASSUME TypeInv, ReaperInv, [Next]_vars PROVE ReaperInv'
  OBVIOUS
<1>1. ASSUME NEW p \in Ours, ApplyPod(p) PROVE ReaperInv'
  <2>1. UNCHANGED <<firstSeen, safe, pass>>
    BY <1>1 DEF ApplyPod
  <2>2. ASSUME pass.at # "idle", NEW q \in Ours, pods'[q] = "live"
        PROVE  q \in pass.expected \cup young'
    <3>1. young' = young \cup {p}
      BY <1>1, <2>2 DEF ApplyPod
    <3>2. q = p \/ pods[q] = "live"
      BY <1>1, <2>2 DEF ApplyPod, TypeInv
    <3> QED BY <2>2, <3>1, <3>2 DEF ReaperInv
  <2> QED BY <2>1, <2>2 DEF ReaperInv
<1>2. ASSUME UNCHANGED <<firstSeen, safe, pass, young>>,
             \A q \in Ours : pods'[q] = "live" => pods[q] = "live"
      PROVE  ReaperInv'
  BY <1>2 DEF ReaperInv
<1>3. ASSUME NEW p \in Ours, RequestDelete(p) \/ ForceDelete(p) \/ CacheSync(p) \/ CreatePod(p)
      PROVE  ReaperInv'
  BY <1>2, <1>3 DEF RequestDelete, ForceDelete, CacheSync, CreatePod, TypeInv
<1>4. ASSUME NEW p \in Ours, NEW ok \in BOOLEAN, DeletePod(p, ok) PROVE ReaperInv'
  BY <1>2, <1>4 DEF DeletePod, TypeInv
<1>5. CASE RuntimeFails \/ RuntimeRecovers \/ WatchStarts \/ WatchTicks \/ CommandEnds
  BY <1>2, <1>5 DEF RuntimeFails, RuntimeRecovers, WatchStarts, WatchTicks, CommandEnds
<1>6. CASE Cleanup \/ Removal
  BY <1>2, <1>6 DEF Cleanup, Removal, CleanupStarts, RemoveStarts
<1>7. ASSUME NEW ok \in BOOLEAN,
             CommandScans(ok) \/ CommandDestroys(ok) \/ FlushAnchor(ok) \/ MeshRemove(ok)
      PROVE  ReaperInv'
  BY <1>2, <1>7 DEF CommandScans, CommandDestroys, FlushAnchor, MeshRemove
<1>8. CASE Tick
  <2>1. \A p \in Ours : firstSeen[p] \in Ages /\ safe[p] \in Ages /\ safe[p] \in Elders
    BY UpkeepAssumption DEF TypeInv, Ages, Elders
  <2>2. \A p \in Ours : firstSeen'[p] = Older(firstSeen[p]) /\ safe'[p] = Older(safe[p])
    BY <1>8 DEF Tick
  <2>3. \A p \in Ours : firstSeen'[p] <= safe'[p]
    BY <2>1, <2>2, OlderKeeps DEF ReaperInv
  <2>4. /\ pass'.at = pass.at /\ pass'.ages = pass.ages
        /\ pass'.todo = pass.todo /\ pass'.expected = pass.expected
        /\ pass.at = "scan" => pass'.lag = Older(pass.lag)
    BY <1>8 DEF Tick, TypeInv, PassType
  <2>5. ASSUME pass.at = "scan", NEW p \in Ours
        PROVE  pass.ages[p] <= safe'[p] /\ pass'.lag <= safe'[p]
    <3>1. pass.lag \in Ages
      BY UpkeepAssumption DEF TypeInv, PassType, Ages, Elders
    <3>2. pass'.lag <= safe'[p]
      BY <2>1, <2>2, <2>4, <2>5, <3>1, OlderKeeps DEF ReaperInv
    <3>3. safe[p] <= safe'[p]
      BY <2>1, <2>2, UpkeepAssumption DEF Older, Elders
    <3>4. pass.ages[p] \in Ages /\ pass.ages[p] <= safe[p]
      BY <2>5 DEF ReaperInv
    <3>5. safe'[p] \in Ages
      BY <2>1, <2>2, OlderKeeps
    <3> QED BY <2>1, <3>2, <3>3, <3>4, <3>5 DEF Ages
  <2>6. ASSUME pass.at = "reap", NEW w \in Range(pass.todo)
        PROVE  safe'[w] = GracePeriod /\ w \notin pass.expected
    <3>1. w \in Ours
      BY <2>6 DEF TypeInv, PassType, Range
    <3> QED BY <2>2, <2>6, <3>1, OlderKeeps DEF ReaperInv
  <2>7. UNCHANGED <<pods, young>>
    BY <1>8 DEF Tick
  <2> QED BY <2>3, <2>4, <2>5, <2>6, <2>7 DEF ReaperInv
<1>9. CASE PassBegins
  <2>1. UNCHANGED <<firstSeen, safe, pods>>
    BY <1>9 DEF PassBegins
  <2>2. /\ pass'.at = "scan" /\ pass'.ages = firstSeen /\ pass'.lag = 0
        /\ pass'.expected = {p \in Ours : cache[p] = "live"}
    BY <1>9 DEF PassBegins, NoPass, expectedWorkloadIDs
  <2>3. \A p \in Ours : firstSeen[p] \in Ages /\ safe[p] \in Elders /\ 0 <= safe[p]
    BY DEF TypeInv, Elders
  <2>4. \A p \in Ours : pods[p] = "live" => p \in pass'.expected \cup young'
    BY <1>9, <2>2 DEF PassBegins
  <2> QED BY <2>1, <2>2, <2>3, <2>4 DEF ReaperInv, TypeInv
<1>10. CASE PassScans
  <2> DEFINE orphans == Scan(pass.expected)  matured == Matured(orphans)
  <2>1. pass.at = "scan" /\ UNCHANGED <<pods>>
    BY <1>10 DEF PassScans
  <2>2. \A p \in Ours : /\ firstSeen[p] \in Ages /\ safe[p] \in Elders
                        /\ pass.ages[p] \in Ages /\ pass.lag \in Elders
    BY <2>1 DEF TypeInv, ReaperInv, PassType
  <2>3. \A p \in Ours : /\ firstSeen[p] <= safe[p] /\ pass.ages[p] <= safe[p]
                        /\ pass.lag <= safe[p]
    BY <2>1 DEF ReaperInv
  <2>4. \A p \in Ours : firstSeen'[p] <= safe'[p]
    <3>1. \A p \in Ours : /\ safe'[p] = IF p \in orphans THEN safe[p] ELSE 0
                          /\ firstSeen'[p] = IF p \notin orphans THEN -1
                                             ELSE IF firstSeen[p] = -1 THEN pass.lag ELSE firstSeen[p]
      BY <1>10 DEF PassScans, Clock
    <3> QED BY <2>2, <2>3, <3>1 DEF Elders
  <2>5. CASE matured = {}
    <3>1. pass' = NoPass
      BY <1>10, <2>5 DEF PassScans
    <3> QED BY <2>4, <3>1, PassOver
  <2>6. CASE matured # {}
    <3>1. /\ pass'.at = "reap" /\ pass'.expected = pass.expected
          /\ pass'.todo = SetToSeq(matured) /\ young' = young
      BY <1>10, <2>6 DEF PassScans, TypeInv, PassType
    <3>2. matured \subseteq orphans /\ matured \subseteq Ours
      BY DEF Matured, Scan, IsMacVzVM
    <3>3. Range(pass'.todo) = matured
      BY <3>1, <3>2, ScanLists
    <3>4. ASSUME NEW w \in matured PROVE safe'[w] = GracePeriod /\ w \notin pass.expected
      <4>1. w \in Ours /\ w \in orphans
        BY <3>2
      <4>2. safe'[w] = safe[w]
        BY <1>10, <4>1 DEF PassScans
      <4>3. GracePeriod <= (IF pass.ages[w] = -1 THEN 0 ELSE pass.ages[w])
        BY <3>4 DEF Matured
      <4>4. safe[w] = GracePeriod
        BY <2>2, <2>3, <4>1, <4>3, UpkeepAssumption DEF Elders, Ages
      <4>5. w \notin pass.expected
        BY <4>1 DEF Scan
      <4> QED BY <4>2, <4>4, <4>5
    <3> QED BY <2>1, <2>4, <3>1, <3>3, <3>4 DEF ReaperInv
  <2> QED BY <2>5, <2>6
<1>11. CASE PassSkips
  <2>1. NoPass = pass' /\ UNCHANGED <<firstSeen, safe>>
    BY <1>11 DEF PassSkips
  <2> QED BY <2>1, PassOver DEF ReaperInv
<1>12. ASSUME NEW ok \in BOOLEAN, PassDestroys(ok) PROVE ReaperInv'
  <2>1. pass.todo \in Seq(Ours) /\ pass.todo # << >>
    BY <1>12 DEF PassDestroys, DestroyNext, TypeInv, PassType
  <2>2. Range(Tail(pass.todo)) \subseteq Range(pass.todo)
    BY <2>1, TailLists
  <2>3. /\ pass'.at = pass.at /\ pass'.expected = pass.expected
        /\ pass'.todo = Tail(pass.todo) /\ pass.at = "reap"
    BY <1>12 DEF PassDestroys, TypeInv, PassType
  <2>4. UNCHANGED <<firstSeen, safe, pods, young>>
    BY <1>12 DEF PassDestroys
  <2> QED BY <2>2, <2>3, <2>4 DEF ReaperInv
<1>13. CASE PassEnds
  <2>1. \A p \in Ours : firstSeen'[p] \in {firstSeen[p], -1} /\ safe'[p] = safe[p]
    BY <1>13 DEF PassEnds
  <2>2. \A p \in Ours : safe[p] \in Elders
    BY DEF TypeInv
  <2>3. \A p \in Ours : firstSeen'[p] <= safe'[p]
    BY <2>1, <2>2 DEF ReaperInv, Elders
  <2> QED BY <1>13, <2>3, PassOver DEF PassEnds
<1>14. CASE KubeletStarts \/ KubeletStops
  <2>1. \A p \in Ours : firstSeen'[p] = -1 /\ safe'[p] = 0
    BY <1>14 DEF KubeletStarts, KubeletStops
  <2>2. NoPass = pass'
    BY <1>14 DEF KubeletStarts, KubeletStops
  <2> QED BY <2>1, <2>2, PassOver
<1>15. CASE UNCHANGED vars
  BY <1>2, <1>15 DEF vars
<1> QED
  BY <1>1, <1>3, <1>4, <1>5, <1>6, <1>7, <1>8, <1>9, <1>10, <1>11, <1>12, <1>13, <1>14,
     <1>15, Zenon DEF Next, Pass, Command

-----------------------------------------------------------------------------
\* The part of RemovalInv that is about a command c at work.
Left(c) ==
  c.kind = "remove" /\ ~c.failed =>
    /\ node = "absent" \/ c.keepNode
    /\ c.at = "reap" => vms \cap Ours \subseteq Range(c.todo)
    /\ c.at \in {"mesh", "done"} => vms \cap Ours = {} /\ rules = {}
    /\ c.at = "done" => ~mesh

(* A step that is not the command's disturbs it at most while the kubelet  *)
(* is up, which it is not during a removal.                                *)
LEMMA OthersKeep ==
  ASSUME RemovalInv, cmd' = cmd, up' = up, ~up' => pass'.at = "idle" /\ watch'.at = "off",
         ~up => (vms' \subseteq vms /\ UNCHANGED <<rules, mesh, node>>)
  PROVE  RemovalInv'
<1>1. CASE cmd.kind = "remove"
  BY <1>1 DEF RemovalInv
<1>2. CASE cmd.kind # "remove"
  BY <1>2 DEF RemovalInv
<1> QED BY <1>1, <1>2

(* Every step keeps what a removal has achieved (noderemove.Run).          *)
LEMMA RemovalKept == TypeInv /\ RemovalInv /\ [Next]_vars => RemovalInv'
<1> SUFFICES ASSUME TypeInv, RemovalInv, [Next]_vars PROVE RemovalInv'
  OBVIOUS
<1>1. ASSUME NEW p \in Ours, ApplyPod(p) \/ RequestDelete(p) \/ ForceDelete(p) \/ CacheSync(p)
      PROVE RemovalInv'
  BY <1>1, OthersKeep DEF ApplyPod, RequestDelete, ForceDelete, CacheSync, host, RemovalInv
<1>2. ASSUME NEW p \in Ours, CreatePod(p) PROVE RemovalInv'
  BY <1>2, OthersKeep DEF CreatePod, RemovalInv
<1>3. ASSUME NEW p \in Ours, NEW ok \in BOOLEAN, DeletePod(p, ok) PROVE RemovalInv'
  BY <1>3, OthersKeep DEF DeletePod, RemovalInv
<1>4. CASE RuntimeFails \/ RuntimeRecovers
  BY <1>4, OthersKeep DEF RuntimeFails, RuntimeRecovers, host, RemovalInv
<1>5. CASE WatchStarts \/ WatchTicks
  <2>1. up
    BY <1>5 DEF WatchStarts, WatchTicks, RemovalInv
  <2> QED BY <1>5, <2>1, OthersKeep DEF WatchStarts, WatchTicks, host
<1>6. CASE Tick
  <2>1. pass'.at = pass.at
    BY <1>6 DEF Tick, TypeInv, PassType
  <2> QED BY <1>6, <2>1, OthersKeep DEF Tick, host, RemovalInv
<1>7. CASE Pass
  <2>1. up /\ cmd' = cmd /\ up' = up
    BY <1>7 DEF Pass, PassBegins, PassScans, PassSkips, PassDestroys, PassEnds, RemovalInv
  <2> QED BY <2>1, OthersKeep
<1>8. CASE KubeletStarts
  <2>1. up' /\ cmd'.kind # "remove"
    BY <1>8 DEF KubeletStarts
  <2> QED BY <2>1 DEF RemovalInv
<1>9. CASE KubeletStops
  <2>1. cmd.kind # "remove" /\ cmd' = cmd
    BY <1>9 DEF KubeletStops, RemovalInv
  <2>2. pass'.at = "idle" /\ watch'.at = "off"
    BY <1>9 DEF KubeletStops, NoPass
  <2> QED BY <2>1, <2>2 DEF RemovalInv
<1>10. ASSUME UNCHANGED <<up, pass, watch>>,
              cmd'.kind = "remove" => ~up /\ cmd'.expected = {},
              Left(cmd)'
       PROVE  RemovalInv'
  BY <1>10 DEF RemovalInv, Left
<1>11. ASSUME NEW all \in BOOLEAN, CleanupStarts(all) PROVE RemovalInv'
  <2>1. cmd'.kind = "cleanup"
    BY <1>11 DEF CleanupStarts, NoCmd
  <2> QED BY <1>10, <1>11, <2>1 DEF CleanupStarts, Left
<1>12. ASSUME NEW keep \in BOOLEAN, NEW ok \in BOOLEAN, RemoveStarts(keep, ok) PROVE RemovalInv'
  <2>1. cmd'.at = "scan" /\ cmd'.expected = {} /\ cmd'.keepNode = keep /\ cmd'.failed = (~keep /\ ~ok)
    BY <1>12 DEF RemoveStarts, NoCmd
  <2>2. ~cmd'.failed => node' = "absent" \/ cmd'.keepNode
    BY <1>12, <2>1 DEF RemoveStarts
  <2>3. ~up /\ UNCHANGED <<up, pass, watch>>
    BY <1>12 DEF RemoveStarts
  <2> QED BY <1>10, <2>1, <2>2, <2>3 DEF Left
<1>13. CASE CommandEnds
  <2>1. cmd'.kind = "none"
    BY <1>13 DEF CommandEnds, NoCmd
  <2> QED BY <1>10, <1>13, <2>1 DEF CommandEnds, Left
<1>14. ASSUME NEW ok \in BOOLEAN, CommandScans(ok) PROVE RemovalInv'
  <2>1. UNCHANGED <<up, pass, watch, vms, rules, mesh, node>>
    BY <1>14 DEF CommandScans, host
  <2>2. CASE ok
    <3>1. /\ cmd'.kind = cmd.kind /\ cmd'.expected = cmd.expected /\ cmd'.keepNode = cmd.keepNode
          /\ cmd'.failed = cmd.failed /\ cmd'.at = "reap" /\ cmd'.todo = SetToSeq(Scan(cmd.expected))
      BY <1>14, <2>2 DEF CommandScans, TypeInv, CmdType
    <3>2. Range(cmd'.todo) = Scan(cmd.expected)
      BY <3>1, ScanLists
    <3>3. cmd.kind = "remove" => vms \cap Ours \subseteq Scan(cmd.expected)
      BY DEF RemovalInv, Scan, IsMacVzVM
    <3> QED BY <1>10, <2>1, <3>1, <3>2, <3>3 DEF RemovalInv, Left
  <2>3. CASE ~ok /\ cmd.kind = "cleanup"
    <3>1. cmd'.kind = "none"
      BY <1>14, <2>3 DEF CommandScans, NoCmd
    <3> QED BY <1>10, <2>1, <3>1 DEF Left
  <2>4. CASE ~ok /\ cmd.kind # "cleanup"
    <3>1. cmd'.kind = cmd.kind /\ cmd'.expected = cmd.expected /\ cmd'.failed
      BY <1>14, <2>4 DEF CommandScans, TypeInv, CmdType
    <3> QED BY <1>10, <2>1, <3>1 DEF RemovalInv, Left
  <2> QED BY <2>2, <2>3, <2>4
<1>15. ASSUME NEW ok \in BOOLEAN, CommandDestroys(ok) PROVE RemovalInv'
  <2>1. UNCHANGED <<up, pass, watch, rules, mesh, node>>
    BY <1>15 DEF CommandDestroys, host
  <2>2. /\ cmd'.kind = cmd.kind /\ cmd'.expected = cmd.expected /\ cmd'.keepNode = cmd.keepNode
        /\ cmd.at = "reap" /\ cmd'.at = "reap" /\ cmd'.todo = Tail(cmd.todo)
    BY <1>15 DEF CommandDestroys, TypeInv, CmdType
  <2>3. cmd'.failed = (cmd.failed \/ ~ok)
    BY <1>15 DEF CommandDestroys, TypeInv, CmdType
  <2>4. cmd.todo \in Seq(Ours) /\ cmd.todo # << >>
    BY <1>15 DEF CommandDestroys, DestroyNext, TypeInv, CmdType
  <2>5. Range(cmd.todo) = {Head(cmd.todo)} \cup Range(Tail(cmd.todo))
    BY <2>4, TailLists
  <2>6. ok => vms' = vms \ {Head(cmd.todo)}
    BY <1>15 DEF CommandDestroys, DestroyNext
  <2>7. Left(cmd)'
    BY <2>1, <2>2, <2>3, <2>5, <2>6 DEF RemovalInv, Left
  <2> QED BY <1>10, <2>1, <2>2, <2>7 DEF RemovalInv
<1>16. ASSUME NEW ok \in BOOLEAN, FlushAnchor(ok) PROVE RemovalInv'
  <2>1. UNCHANGED <<up, pass, watch, vms, mesh, node>>
    BY <1>16 DEF FlushAnchor
  <2>2. CASE cmd.kind = "cleanup"
    <3>1. cmd'.kind = "none"
      BY <1>16, <2>2 DEF FlushAnchor, NoCmd
    <3> QED BY <1>10, <2>1, <3>1 DEF Left
  <2>3. CASE cmd.kind # "cleanup"
    <3>1. /\ cmd'.kind = cmd.kind /\ cmd'.expected = cmd.expected
          /\ cmd'.keepNode = cmd.keepNode /\ cmd'.at = "mesh" /\ cmd.at = "reap"
      BY <1>16, <2>3 DEF FlushAnchor, TypeInv, CmdType
    <3>2. cmd'.failed = (cmd.failed \/ ~ok)
      BY <1>16, <2>3 DEF FlushAnchor, TypeInv, CmdType
    <3>3. Range(cmd.todo) = {}
      BY <1>16 DEF FlushAnchor, Range
    <3>4. ok => rules' = {}
      BY <1>16 DEF FlushAnchor
    <3>5. Left(cmd)'
      BY <2>1, <3>1, <3>2, <3>3, <3>4 DEF RemovalInv, Left
    <3> QED BY <1>10, <2>1, <3>1, <3>5 DEF RemovalInv
  <2> QED BY <2>2, <2>3
<1>17. ASSUME NEW ok \in BOOLEAN, MeshRemove(ok) PROVE RemovalInv'
  <2>1. UNCHANGED <<up, pass, watch, vms, rules, node>>
    BY <1>17 DEF MeshRemove
  <2>2. /\ cmd'.kind = cmd.kind /\ cmd'.expected = cmd.expected
        /\ cmd'.keepNode = cmd.keepNode /\ cmd'.at = "done" /\ cmd.at = "mesh"
    BY <1>17 DEF MeshRemove, TypeInv, CmdType
  <2>3. cmd'.failed = (cmd.failed \/ ~ok)
    BY <1>17 DEF MeshRemove, TypeInv, CmdType
  <2>4. ok => ~mesh'
    BY <1>17 DEF MeshRemove
  <2>5. Left(cmd)'
    BY <2>1, <2>2, <2>3, <2>4 DEF RemovalInv, Left
  <2> QED BY <1>10, <2>1, <2>2, <2>5 DEF RemovalInv
<1>18. CASE UNCHANGED vars
  BY <1>18, OthersKeep DEF vars, RemovalInv
<1> QED
  BY <1>1, <1>2, <1>3, <1>4, <1>5, <1>6, <1>7, <1>8, <1>9, <1>11, <1>12, <1>13, <1>14,
     <1>15, <1>16, <1>17, <1>18, Zenon DEF Next, Cleanup, Removal, Command

-----------------------------------------------------------------------------
(* The invariant holds from the start, and every step keeps it.            *)
LEMMA InvHolds == Spec => []IInv
<1>1. Init => IInv
  <2> SUFFICES ASSUME Init PROVE IInv
    OBVIOUS
  <2>1. NoPass \in PassType /\ -1 \in Ages /\ 0 \in Elders /\ "none" \in States
    BY UpkeepAssumption DEF NoPass, PassType, Elders, Ages, States
  <2>2. NoCmd \in CmdType
    BY DEF NoCmd, CmdType
  <2>3. TypeInv
    BY <2>1, <2>2 DEF Init, TypeInv
  <2>4. ReaperInv
    BY DEF Init, ReaperInv, NoPass
  <2>5. RemovalInv
    BY DEF Init, RemovalInv, NoPass, NoCmd
  <2> QED BY <2>3, <2>4, <2>5 DEF IInv
<1>2. IInv /\ [Next]_vars => IInv'
  BY TypesKept, ReaperKept, RemovalKept DEF IInv
<1> QED BY <1>1, <1>2, PTL DEF Spec

(* Only PassDestroys is a step of a pass that takes a workload away.       *)
LEMMA WhoReaps ==
  ASSUME TypeInv, [Next]_vars, pass.at = "reap", pass' # pass, vms' # vms
  PROVE  \E ok \in BOOLEAN : PassDestroys(ok)
<1>1. ASSUME NEW p \in Ours, ApplyPod(p) \/ RequestDelete(p) \/ ForceDelete(p) \/ CacheSync(p) \/ CreatePod(p)
      PROVE FALSE
  BY <1>1 DEF ApplyPod, RequestDelete, ForceDelete, CacheSync, CreatePod
<1>2. ASSUME NEW p \in Ours, NEW ok \in BOOLEAN, DeletePod(p, ok) PROVE FALSE
  BY <1>2 DEF DeletePod
<1>3. ~(RuntimeFails \/ RuntimeRecovers \/ Tick \/ WatchStarts \/ WatchTicks \/ KubeletStarts \/ KubeletStops)
  BY DEF RuntimeFails, RuntimeRecovers, Tick, WatchStarts, WatchTicks, KubeletStarts, KubeletStops
<1>4. ~(Cleanup \/ Removal \/ Command)
  BY DEF Cleanup, Removal, Command, CleanupStarts, RemoveStarts, CommandScans, CommandDestroys,
         FlushAnchor, MeshRemove, CommandEnds
<1>5. ~(PassBegins \/ PassScans \/ PassSkips \/ PassEnds)
  BY DEF PassBegins, PassScans, PassSkips, PassEnds
<1>6. vars' # vars
  BY DEF vars
<1> QED BY <1>1, <1>2, <1>3, <1>4, <1>5, <1>6, Zenon DEF Next, Pass

(* For every set of workloads and every grace period, the reaper destroys  *)
(* only MacVz's own micro-VMs, only past their grace, and never that of a  *)
(* Pod that was live when its pass began, whatever the informer lags, the  *)
(* runtime fails or a command destroys meanwhile (orphan.Reaper.reapOnce). *)
THEOREM ReaperSafe == Spec => ReapsPastGrace
<1> DEFINE Reaps == \A w \in vms \ vms' : pass.at = "reap" /\ pass' # pass =>
                      /\ w \in Ours /\ safe[w] >= GracePeriod
                      /\ pods[w] = "live" => w \in young
<1>1. IInv /\ [Next]_vars => Reaps
  <2> SUFFICES ASSUME IInv, [Next]_vars, NEW w \in vms \ vms', pass.at = "reap", pass' # pass
               PROVE  /\ w \in Ours /\ safe[w] >= GracePeriod
                      /\ pods[w] = "live" => w \in young
    OBVIOUS
  <2>1. PICK ok \in BOOLEAN : PassDestroys(ok)
    BY WhoReaps DEF IInv
  <2>2. pass.todo \in Seq(Ours) /\ pass.todo # << >>
    BY <2>1 DEF PassDestroys, DestroyNext, IInv, TypeInv, PassType
  <2>3. w = Head(pass.todo)
    BY <2>1 DEF PassDestroys, DestroyNext
  <2>4. w \in Range(pass.todo) /\ w \in Ours
    BY <2>2, <2>3, TailLists
  <2>5. safe[w] = GracePeriod /\ w \notin pass.expected
    BY <2>4 DEF IInv, ReaperInv
  <2>6. pods[w] = "live" => w \in young
    BY <2>4, <2>5 DEF IInv, ReaperInv
  <2> QED BY <2>4, <2>5, <2>6, UpkeepAssumption
<1> QED BY <1>1, InvHolds, PTL DEF Spec, ReapsPastGrace

(* For every set of workloads, a removal whose steps all succeeded leaves  *)
(* no Node, micro-VM, rule or interface, and every workload that is not    *)
(* MacVz's, whatever cleanups, crashes and reaper passes went before it    *)
(* (noderemove.Run).                                                       *)
THEOREM RemovalIsClean == Spec => []RemovalClean
<1>1. IInv => RemovalClean
  <2> SUFFICES ASSUME IInv, cmd.kind = "remove", cmd.at = "done", ~cmd.failed
               PROVE  /\ node = "absent" \/ cmd.keepNode
                      /\ vms = Foreign /\ rules = {} /\ ~mesh
    BY DEF RemovalClean
  <2>1. vms \cap Ours = {} /\ rules = {} /\ ~mesh /\ (node = "absent" \/ cmd.keepNode)
    BY DEF IInv, RemovalInv
  <2>2. vms = Foreign
    BY <2>1 DEF IInv, TypeInv
  <2> QED BY <2>1, <2>2
<1> QED BY <1>1, InvHolds, PTL
=============================================================================
