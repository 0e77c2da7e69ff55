----------------------- MODULE PodLifecycle_outcomes -----------------------
(***************************************************************************)
(* The rest of the proof that EInv is inductive (NextEInv): PodInv through *)
(* the goroutines past their Detach, the environment, crashes and          *)
(* recovery, and ShownInv through the remaining steps.  The last part      *)
(* derives the properties from the invariants.                             *)
(***************************************************************************)
EXTENDS PodLifecycle_effects

-----------------------------------------------------------------------------
(* The goroutines.                                                         *)

\* Stop, of the exited VM or of the one a probe killed.
LEMMA GoStopPods ==
  ASSUME IInv, RestartInv, EInv, NEW g \in Slots, GoStop(g) PROVE PodsEInv'
<1>1. /\ gos[g].pc \in {"stop", "killStop"} /\ Stops(gos[g].key)
      /\ GoGoto(g, IF gos[g].pc = "stop" THEN "destroy" ELSE "killDestroy")
      /\ UNCHANGED <<api, pods, create, del, endpoints, byKey, excuse>>
  BY Zenon DEF GoStop, callVars, ipamVars
<1>2. PICK k \in Keys : AtRun(g, k)
  BY <1>1, GoKey
<1>3. UNCHANGED vms \/ VM!Stop(k)
  BY <1>1, <1>2, Zenon DEF Stops, AtRun
<1>4. CASE gos[g].pc = "stop"
  <2>1. GoGoto(g, "destroy")
    BY <1>1, <1>4
  <2>2. /\ "destroy" \in Between \cup {"finish"} /\ gos[g].pc \in Between \ {"attach"}
        /\ "destroy" \notin {"create", "finish", "attach"}
    BY <1>4 DEF Between
  <2>3. gos'[g].pc = "destroy"
    BY <1>2, <2>1, GoGotoIs, Zenon DEF AtRun
  <2>4. Reaps(g)'
    BY <2>3, Zenon DEF Reaps
  <2> QED BY <1>1, <1>2, <1>3, <2>1, <2>2, <2>4, BetweenPods, Zenon
<1>5. CASE gos[g].pc = "killStop"
  <2>1. GoGoto(g, "killDestroy")
    BY <1>1, <1>5
  <2>2. OnlyGo(g) /\ gos'[g].pc = "killDestroy" /\ gos'[g].key = k
    BY <1>2, <2>1, GoGotoIs, Zenon DEF AtRun
  <2>3. ~Works(g, k) /\ ~Works(g, k)' /\ Reaps(g)'
    BY <1>5, <2>2, Zenon DEF Works, Reaps
  <2>4. GoActs(g, k)
    BY <1>1, <1>2, <1>3, <2>2, GoActsAway, Zenon
  <2>5. MapInv(k)' /\ AddrInv(k)'
    BY <1>1, <1>2, <1>3, <2>3, <2>4, GoKills, VMStopped, Zenon
  <2> QED BY <1>2, <2>2, <2>3, <2>4, <2>5, GoPods, Zenon
<1> QED BY <1>1, <1>4, <1>5, Zenon

\* Destroy.
LEMMA GoDestroyPods ==
  ASSUME IInv, RestartInv, EInv, NEW g \in Slots, GoDestroy(g) PROVE PodsEInv'
<1>1. /\ gos[g].pc \in {"destroy", "undo", "orphan", "killDestroy"} /\ Destroys(gos[g].key)
      /\ UNCHANGED <<api, pods, create, del, endpoints, byKey>>
  BY Zenon DEF GoDestroy, callVars, ipamVars
<1>2. PICK k \in Keys : AtRun(g, k)
  BY <1>1, GoKey
<1>3. /\ VM!Destroy(k) \/ UNCHANGED vms
      /\ UNCHANGED excuse \/ Excuse(k, "destroyFailed")
      /\ \/ ~VM!Exists(k)' /\ vms'[k].phase = "none"
         \/ "destroyFailed" \in excuse'[k] /\ Had(k, VMReasons)' /\ Had(k, AddrReasons)'
  BY <1>1, <1>2, DestroysAt, Zenon DEF AtRun
<1>4. ~Had(k, AddrReasons)' => vms'[k].phase # "running"
  BY <1>3
<1>5. ASSUME NEW pc \in {"create", "finish"}, GoGoto(g, pc), gos[g].pc \in {"destroy", "undo"}
      PROVE  PodsEInv'
  <2>1. pc \in Between \cup {"finish"} /\ gos[g].pc \in Between \ {"attach"} /\ pc # "attach"
    BY <1>5 DEF Between
  <2> QED BY <1>1, <1>2, <1>3, <1>4, <1>5, <2>1, BetweenPods, Zenon
<1>6. CASE gos[g].pc = "destroy"
  <2>1. GoGoto(g, "create")
    BY <1>6 DEF GoDestroy
  <2> QED BY <1>5, <1>6, <2>1, Zenon
<1>7. CASE gos[g].pc = "undo"
  <2>1. GoGoto(g, "finish")
    BY <1>7 DEF GoDestroy
  <2> QED BY <1>5, <1>7, <2>1, Zenon
<1>8. CASE gos[g].pc \in {"orphan", "killDestroy"}
  <2>1. GoDone(g)
    BY <1>8 DEF GoDestroy
  <2>2. OnlyGo(g) /\ gos'[g] = NoGo /\ ~Works(g, k)'
    BY <2>1, GoDoneIs, Zenon
  <2>3. GoActs(g, k)
    BY <1>1, <1>2, <1>3, <2>2, GoActsAway, Zenon
  <2>4. MapInv(k)' /\ AddrInv(k)'
    <3>1. CASE gos[g].pc = "killDestroy"
      <4>1. ~Works(g, k)
        BY <3>1 DEF Works
      <4>2. vms'[k].phase = "running" => vms'[k] = vms[k]
        BY <1>3, VMDestroyed
      <4> QED BY <1>1, <1>2, <2>2, <2>3, <4>1, <4>2, GoKills, Zenon
    <3>2. CASE gos[g].pc = "orphan"
      <4>1. Works(g, k)
        BY <1>2, <3>2 DEF Works, AtRun
      <4>2. "outlived" \in excuse[k]
        BY <1>2, <3>2, <4>1, GoAlone, Zenon
      <4>3. "outlived" \in excuse'[k]
        BY <2>3, <4>2, Zenon DEF GoActs
      <4> QED BY <4>3, Zenon DEF MapInv, AddrInv, Had, MapReasons, AddrReasons
    <3> QED BY <1>8, <3>1, <3>2, Zenon
  <2> QED BY <1>2, <1>3, <2>3, <2>4, GoPods, Zenon
<1> QED BY <1>1, <1>6, <1>7, <1>8, Zenon

\* Create.
LEMMA RestartCreatePods ==
  ASSUME IInv, RestartInv, EInv, NEW g \in Slots, RestartCreate(g) PROVE PodsEInv'
<1>1. /\ gos[g].pc = "create"
      /\ UNCHANGED <<api, pods, create, del, endpoints, byKey, excuse>>
  BY Zenon DEF RestartCreate, GoAt, callVars, ipamVars
<1>2. PICK k \in Keys : AtRun(g, k)
  BY <1>1, GoKey
<1>3. gos[g].pc \in Between \ {"attach"} /\ Works(g, k) /\ ~Reaps(g)
  BY <1>1, <1>2 DEF Between, Works, AtRun, Reaps
<1>4. CASE VM!Create(gos[g].key, gos[g].uid) /\ GoGoto(g, "start")
  <2>1. VM!Create(k, gos[g].uid) /\ gos'[g].pc = "start"
    BY <1>2, <1>4, GoGotoIs, Zenon DEF AtRun
  <2>2. "start" \in Between \cup {"finish"} /\ "start" \notin {"create", "finish", "attach"}
    BY DEF Between
  <2>3. Reaps(g)'
    BY <2>1, Zenon DEF Reaps
  <2> QED BY <1>1, <1>2, <1>3, <1>4, <2>1, <2>2, <2>3, BetweenPods, Zenon
<1>5. CASE UNCHANGED vms /\ GoGoto(g, "finish")
  <2>1. ~Had(k, AddrReasons)' /\ Alone(g, k) => vms'[k].phase # "running"
    <3>1. Had(k, AddrReasons)' <=> Had(k, AddrReasons)
      BY <1>1, Zenon DEF Had, AddrReasons
    <3> QED BY <1>1, <1>2, <1>3, <1>5, <3>1, GoKnows, Zenon DEF GoReaches
  <2>2. VM!Exists(k)' <=> VM!Exists(k)
    BY <1>5, Zenon DEF VM!Exists
  <2>3. "finish" \in Between \cup {"finish"} /\ "finish" # "attach"
    BY DEF Between
  <2> QED BY <1>1, <1>2, <1>3, <1>5, <2>1, <2>2, <2>3, BetweenPods, Zenon
<1> QED BY <1>4, <1>5, Zenon DEF RestartCreate

\* Start.
LEMMA RestartStartPods ==
  ASSUME IInv, RestartInv, EInv, NEW g \in Slots, RestartStart(g) PROVE PodsEInv'
<1>1. /\ gos[g].pc = "start"
      /\ UNCHANGED <<api, pods, create, del, endpoints, byKey, excuse>>
  BY Zenon DEF RestartStart, GoAt, callVars, ipamVars
<1>2. PICK k \in Keys : AtRun(g, k)
  BY <1>1, GoKey
<1>3. PICK pc \in {"observe", "undo"} : GoGoto(g, pc) /\ (UNCHANGED vms \/ VM!Start(k))
  BY <1>2, Zenon DEF RestartStart, AtRun
<1>4. /\ gos[g].pc \in Between \ {"attach"} /\ pc \in Between \cup {"finish"}
      /\ pc \notin {"create", "finish", "attach"}
  BY <1>1 DEF Between
<1>5. gos'[g].pc = pc
  BY <1>2, <1>3, GoGotoIs, Zenon DEF AtRun
<1>6. Reaps(g)'
  BY <1>5, Zenon DEF Reaps
<1> QED BY <1>1, <1>2, <1>3, <1>4, <1>6, BetweenPods, Zenon

\* A goroutine goes on with its new VM up.
LEMMA NewVMPods ==
  ASSUME IInv, RestartInv, EInv, NEW g \in Slots, NEW k \in Keys, AtRun(g, k), NEW why,
         OnlyGo(g), gos'[g].key = k, gos'[g].new, gos[g].pc \in {"observe", "attach"},
         gos'[g].pc \in {"attach", "finish"}, UNCHANGED <<api, pods, create, del, vms, byKey>>,
         UNCHANGED excuse \/ Excuse(k, why), \A j \in Keys \ {k} : endpoints'[j] = endpoints[j],
         ~Had(k, MapReasons)' /\ GoMaps(g, k) => GoMaps(g, k)',
         ~Had(k, AddrReasons)' /\ GoReaches(g, k) /\ GoMaps(g, k) => GoReaches(g, k)'
  PROVE  PodsEInv'
<1>1. /\ Works(g, k) /\ Works(g, k)' /\ Reaps(g)' /\ gos'[g] # NoGo
      /\ gos'[g].pc \notin {"backoff", "detach"}
  BY DEF AtRun, Works, Reaps, NoGo
<1>2. GoActs(g, k) /\ \A R : Had(k, R) => Had(k, R)'
  BY GoActsAway, Zenon
<1>3. ~Had(k, MapReasons)' /\ Alone(g, k) => MapsNext(g, k)
  BY <1>1, <1>2, GoKnows, Zenon DEF MapsNext
<1>4. ~Had(k, AddrReasons)' /\ Alone(g, k) => ReachesNext(g, k)
  BY <1>1, <1>2, GoKnows, Zenon DEF ReachesNext
<1>5. MapInv(k)' /\ AddrInv(k)'
  BY <1>1, <1>2, <1>3, <1>4, GoWorks, Zenon
<1> QED BY <1>1, <1>2, <1>5, GoPods, Zenon

\* The wait for the new VM's address.
LEMMA RestartObservePods ==
  ASSUME IInv, RestartInv, EInv, NEW g \in Slots, RestartObserve(g) PROVE PodsEInv'
<1>1. /\ gos[g].pc = "observe"
      /\ UNCHANGED <<api, pods, create, del, vms, endpoints, byKey, excuse>>
  BY Zenon DEF RestartObserve, GoAt, callVars, ipamVars
<1>2. PICK k \in Keys : AtRun(g, k)
  BY <1>1, GoKey
<1>3. PICK x \in GoType : x = gos[g] /\ x.key = k
  BY <1>2, Zenon DEF AtRun
<1>4. PICK v : v = vms[k].addr
  BY Zenon
<1>5. \/ gos' = [gos EXCEPT ![g] = [x EXCEPT !.pc = "attach", !.new = TRUE, !.addr = v]]
      \/ gos' = [gos EXCEPT ![g] = [x EXCEPT !.pc = "finish", !.new = TRUE]]
  BY <1>3, <1>4, Zenon DEF RestartObserve
<1>6. /\ OnlyGo(g)
      /\ \/ gos'[g] = [x EXCEPT !.pc = "attach", !.new = TRUE, !.addr = v]
         \/ gos'[g] = [x EXCEPT !.pc = "finish", !.new = TRUE]
  BY <1>5, Zenon DEF OnlyGo, IInv, GosInv
<1>7. /\ gos'[g].key = k /\ gos'[g].new /\ gos'[g].ip = gos[g].ip /\ gos'[g].att = gos[g].att
      /\ \/ gos'[g].pc = "attach" /\ gos'[g].addr = vms[k].addr
         \/ gos'[g].pc = "finish"
  BY <1>3, <1>4, <1>6, Zenon DEF GoType
<1>8. ~gos'[g].att
  BY <1>1, <1>7 DEF EInv, FlagsInv
<1>9. GoMaps(g, k) => GoMaps(g, k)'
  <2>1. GoMaps(g, k) => gos[g].ip = pods[k].ip /\ endpoints[k] = NoEndpoint
    BY <1>1 DEF GoMaps, Between
  <2>2. gos'[g].pc # "detach"
    BY <1>7
  <2> QED BY <1>1, <1>7, <1>8, <2>1, <2>2, Zenon DEF GoMaps, NoEndpoint, NoIP, NoAddr
<1>10. GoReaches(g, k)'
  <2>1. gos'[g].pc # "create" /\ (gos'[g].pc = "attach" => gos'[g].addr = vms[k].addr)
    BY <1>7
  <2> QED BY <1>1, <1>7, <1>8, <2>1, Zenon DEF GoReaches, Current
<1> QED BY <1>1, <1>2, <1>6, <1>7, <1>9, <1>10, NewVMPods, Zenon

\* Attach.
LEMMA RestartAttachPods ==
  ASSUME IInv, RestartInv, EInv, NEW g \in Slots, RestartAttach(g) PROVE PodsEInv'
<1>1. gos[g].pc = "attach" /\ UNCHANGED <<api, pods, create, del, vms, byKey>>
  BY Zenon DEF RestartAttach, GoAt, callVars, ipamVars
<1>2. PICK k \in Keys : AtRun(g, k)
  BY <1>1, GoKey
<1>3. PICK x \in GoType : x = gos[g] /\ x.key = k
  BY <1>2, Zenon DEF AtRun
<1>4. gos[g].new /\ ~gos[g].att
  BY <1>1, Zenon DEF EInv, FlagsInv
<1>5. \/ /\ AttachOK(k, x.ip, x.addr)
         /\ gos' = [gos EXCEPT ![g] = [x EXCEPT !.pc = "finish", !.att = TRUE, !.ip = NoIP,
                                                !.addr = NoAddr]]
      \/ /\ AttachFails(k, x.ip, x.addr)
         /\ gos' = [gos EXCEPT ![g] = [x EXCEPT !.pc = "finish", !.ip = NoIP, !.addr = NoAddr]]
  BY <1>3, Zenon DEF RestartAttach
<1>6. OnlyGo(g) /\ gos'[g].pc = "finish" /\ gos'[g].key = k /\ gos'[g].new
  <2>1. /\ OnlyGo(g)
        /\ \/ gos'[g] = [x EXCEPT !.pc = "finish", !.att = TRUE, !.ip = NoIP, !.addr = NoAddr]
           \/ gos'[g] = [x EXCEPT !.pc = "finish", !.ip = NoIP, !.addr = NoAddr]
    BY <1>5, Zenon DEF OnlyGo, IInv, GosInv
  <2>2. x.new
    BY <1>3, <1>4, Zenon
  <2>3. gos'[g].pc = "finish" /\ gos'[g].key = x.key /\ gos'[g].new = x.new
    BY <2>1 DEF GoType
  <2> QED BY <1>3, <2>1, <2>2, <2>3, Zenon
<1>7. \A j \in Keys \ {k} : endpoints'[j] = endpoints[j]
  BY <1>5, AttachAt, Zenon
<1>8. GoMaps(g, k) => x.ip = pods[k].ip /\ endpoints[k] = NoEndpoint
  BY <1>1, <1>3 DEF GoMaps, Between
<1>9. GoReaches(g, k) => Current(k, x.addr)
  BY <1>1, <1>3, Zenon DEF GoReaches
<1>10. gos'[g].pc \notin Between \cup {"detach", "create", "attach"}
  BY <1>6 DEF Between
<1>11. CASE /\ AttachOK(k, x.ip, x.addr)
            /\ gos' = [gos EXCEPT ![g] = [x EXCEPT !.pc = "finish", !.att = TRUE, !.ip = NoIP,
                                                   !.addr = NoAddr]]
  <2>1. gos'[g].att
    <3>1. gos'[g] = [x EXCEPT !.pc = "finish", !.att = TRUE, !.ip = NoIP, !.addr = NoAddr]
      BY <1>11, Zenon DEF IInv, GosInv
    <3> QED BY <3>1, Zenon DEF GoType
  <2>2. endpoints'[k] = [ip |-> x.ip, addr |-> x.addr] /\ UNCHANGED excuse
    BY <1>11, AttachAt, Zenon
  <2>3. endpoints'[k].ip = x.ip /\ endpoints'[k].addr = x.addr
    BY <2>2
  <2>4. GoMaps(g, k) => GoMaps(g, k)'
    BY <1>1, <1>8, <1>10, <2>1, <2>3, Zenon DEF GoMaps
  <2>5. GoReaches(g, k) => GoReaches(g, k)'
    BY <1>1, <1>6, <1>9, <1>10, <2>3, Zenon DEF GoReaches, Current
  <2> QED BY <1>1, <1>2, <1>6, <1>7, <2>2, <2>4, <2>5, NewVMPods, Zenon
<1>12. CASE /\ AttachFails(k, x.ip, x.addr)
            /\ gos' = [gos EXCEPT ![g] = [x EXCEPT !.pc = "finish", !.ip = NoIP, !.addr = NoAddr]]
  <2>1. ~gos'[g].att
    <3>1. gos'[g] = [x EXCEPT !.pc = "finish", !.ip = NoIP, !.addr = NoAddr]
      BY <1>12, Zenon DEF IInv, GosInv
    <3> QED BY <1>3, <1>4, <3>1, Zenon DEF GoType
  <2>2. \/ endpoints'[k] = endpoints[k] /\ UNCHANGED excuse
        \/ Excuse(k, "loadFailed") /\ "loadFailed" \in excuse'[k]
    BY <1>12, AttachAt, Zenon
  <2>3. "loadFailed" \in excuse'[k] => Had(k, MapReasons)' /\ Had(k, AddrReasons)'
    BY Zenon DEF Had, MapReasons, AddrReasons
  <2>4. endpoints'[k] = endpoints[k] /\ GoMaps(g, k) => GoMaps(g, k)'
    BY <1>8, <1>10, <2>1, Zenon DEF GoMaps, NoEndpoint, NoIP, NoAddr
  <2>5. GoReaches(g, k)'
    BY <1>6, <1>10, <2>1, Zenon DEF GoReaches
  <2> QED BY <1>1, <1>2, <1>6, <1>7, <2>2, <2>3, <2>4, <2>5, NewVMPods, Zenon
<1> QED BY <1>5, <1>11, <1>12, Zenon

\* The commit, or the discovery that the Pod is gone.
LEMMA RestartFinishPods ==
  ASSUME IInv, RestartInv, EInv, NEW g \in Slots, RestartFinish(g) PROVE PodsEInv'
<1>1. gos[g].pc = "finish" /\ UNCHANGED <<api, create, del, vms, endpoints, byKey, excuse>>
  BY Zenon DEF RestartFinish, GoAt, callVars, ipamVars, histVars
<1>2. PICK k \in Keys : AtRun(g, k)
  BY <1>1, GoKey
<1>3. Works(g, k) /\ (~gos[g].new => ~Reaps(g) /\ ~gos[g].att)
  BY <1>1, <1>2, Zenon DEF AtRun, Works, Reaps, EInv, FlagsInv
<1>4. /\ VM!Exists(k)' <=> VM!Exists(k)
      /\ \A R : Had(k, R)' <=> Had(k, R)
  BY <1>1, Zenon DEF VM!Exists, Had
<1>5. CASE ~Tracked(k) /\ OrphanReaped(g) /\ UNCHANGED pods
  <2>1. ~Alone(g, k)
    BY <1>5, Zenon DEF Alone
  <2>2. CASE gos[g].new
    <3>1. GoGoto(g, "orphan")
      BY <1>5, <2>2, Zenon DEF OrphanReaped
    <3>2. OnlyGo(g) /\ gos'[g].key = k /\ gos'[g].pc = "orphan"
      BY <1>2, <3>1, GoGotoIs, Zenon DEF AtRun
    <3>3. GoActs(g, k)
      BY <1>1, <1>2, <1>5, <3>2, GoActsAway, Zenon
    <3>4. Works(g, k)' /\ Reaps(g)'
      BY <3>2 DEF Works, Reaps
    <3>5. MapInv(k)' /\ AddrInv(k)'
      BY <1>2, <1>3, <2>1, <3>3, <3>4, GoWorks, Zenon
    <3> QED BY <1>2, <3>2, <3>3, <3>4, <3>5, GoPods, Zenon
  <2>3. CASE ~gos[g].new
    <3>1. OnlyGo(g) /\ gos'[g] = NoGo
      BY <1>5, <2>3, GoDoneIs, Zenon DEF OrphanReaped
    <3>2. GoActs(g, k)
      BY <1>1, <1>2, <1>5, <3>1, GoActsAway, Zenon
    <3>3. MapInv(k)' /\ AddrInv(k)'
      BY <1>2, <1>3, <2>1, <3>1, <3>2, GoWorks, Zenon
    <3> QED BY <1>2, <1>3, <1>4, <2>3, <3>2, <3>3, GoPods, Zenon
  <2> QED BY <2>2, <2>3, Zenon
<1>6. ASSUME Tracked(k), GoDone(g), NEW st \in PodType, st = pods[k], NEW att \in BOOLEAN,
             NEW rs \in PodType, pods' = [pods EXCEPT ![k] = rs], rs.policy = st.policy,
             rs.cs = st.cs, rs.wl = st.wl, rs.ip = st.ip, rs.attached = att,
             gos[g].new => att = gos[g].att
      PROVE  PodsEInv'
  <2>1. OnlyGo(g) /\ gos'[g] = NoGo
    BY <1>6, GoDoneIs, Zenon
  <2>2. Tracked(k)' /\ pods'[k] = rs /\ \A j \in Keys \ {k} : pods'[j] = pods[j]
    BY <1>6, RecordSet, Zenon
  <2>3. GoActs(g, k)
    BY <1>1, <1>6, <2>1, <2>2, Zenon DEF GoActs
  <2>4. ~Works(g, k)'
    BY <1>6, GoDoneIs, Zenon
  <2>5. ~Had(k, MapReasons)' /\ Alone(g, k) => MapsNext(g, k)
    <3>1. SUFFICES ASSUME GoMaps(g, k) PROVE Mapped(k)'
      BY <1>2, <1>3, <1>4, <2>4, GoKnows, Zenon DEF MapsNext
    <3>2. IF gos[g].att THEN endpoints[k].ip = st.ip ELSE endpoints[k] = NoEndpoint
      BY <1>1, <1>6, <3>1, Zenon DEF GoMaps
    <3> QED BY <1>1, <1>3, <1>6, <2>2, <3>2, Zenon
            DEF Mapped, NoEndpoint, NoIP, NoAddr
  <2>6. ~Had(k, AddrReasons)' /\ Alone(g, k) => ReachesNext(g, k)
    <3>1. SUFFICES ASSUME GoMaps(g, k), GoReaches(g, k) PROVE Reached(k)'
      BY <1>2, <1>3, <1>4, <2>4, GoKnows, Zenon DEF ReachesNext
    <3>2. CASE ~gos[g].new
      BY <1>1, <3>1, <3>2, Zenon DEF GoReaches, Reached
    <3>3. CASE gos[g].new /\ ~gos[g].att
      BY <1>6, <2>2, <3>3, Zenon DEF Reached
    <3>4. CASE gos[g].new /\ gos[g].att
      <4>1. endpoints[k].ip = st.ip /\ (vms[k].phase = "running" => endpoints[k].addr = vms[k].addr)
        BY <1>1, <1>6, <3>1, <3>4, Zenon DEF GoMaps, GoReaches, Current
      <4>2. endpoints[k] = [ip |-> endpoints[k].ip, addr |-> endpoints[k].addr]
        BY DEF IInv, EndpointsInv
      <4> QED BY <1>1, <1>6, <2>2, <4>1, <4>2, Zenon DEF Reached
    <3> QED BY <3>2, <3>3, <3>4, Zenon
  <2>7. MapInv(k)' /\ AddrInv(k)'
    BY <1>2, <1>3, <2>1, <2>3, <2>5, <2>6, GoWorks, Zenon
  <2> QED BY <1>2, <1>6, <2>3, <2>7, GoPods, Zenon
<1>7. CASE Tracked(k) /\ ~gos[g].new /\ pods' = FlagCleared(k) /\ GoDone(g)
  <2>1. PICK st \in PodType : st = pods[k]
    BY <1>7, Zenon DEF IInv, PodsInv, Tracked
  <2>2. PICK rs \in PodType : rs = [st EXCEPT !.restarting = FALSE]
    BY Zenon DEF PodType
  <2>3. /\ rs.policy = st.policy /\ rs.cs = st.cs /\ rs.wl = st.wl /\ rs.ip = st.ip
        /\ rs.attached = st.attached /\ st.attached \in BOOLEAN
    BY <2>2, Zenon DEF PodType
  <2>4. pods' = [pods EXCEPT ![k] = rs]
    BY <1>7, <2>1, <2>2, Zenon DEF FlagCleared
  <2> QED BY <1>6, <1>7, <2>1, <2>3, <2>4, Zenon
<1>8. CASE /\ Tracked(k) /\ gos[g].new /\ GoDone(g)
           /\ pods' = [pods EXCEPT ![k] = StartedProbes([@ EXCEPT !.restarting = FALSE,
                                                                 !.attached = gos[g].att])]
  <2>1. PICK st \in PodType : st = pods[k]
    BY <1>8, Zenon DEF IInv, PodsInv, Tracked
  <2>2. PICK att \in BOOLEAN : att = gos[g].att
    BY <1>2, Zenon DEF AtRun, GoType
  <2>3. PICK s1 \in PodType : s1 = [st EXCEPT !.restarting = FALSE, !.attached = att]
    BY Zenon DEF PodType
  <2>4. PICK rs \in PodType : rs = [s1 EXCEPT !.probes = Probed]
    BY LifecycleAssumption, Zenon DEF PodType
  <2>5. /\ rs.policy = st.policy /\ rs.cs = st.cs /\ rs.wl = st.wl /\ rs.ip = st.ip
        /\ rs.attached = att
    BY <2>3, <2>4, Zenon DEF PodType
  <2>6. pods' = [pods EXCEPT ![k] = rs]
    BY <1>8, <2>1, <2>2, <2>3, <2>4, Zenon DEF StartedProbes
  <2> QED BY <1>6, <1>8, <2>1, <2>2, <2>5, <2>6, Zenon
<1> QED BY <1>2, <1>5, <1>7, <1>8, Zenon DEF RestartFinish, AtRun

-----------------------------------------------------------------------------
(* The API server, the guests, crashes and recovery.                       *)

\* What a step outside the provider does to the key k.
LEMMA OutsideKey ==
  ASSUME IInv, EInv, NEW k \in Keys, UNCHANGED <<pods, create, del, gos, endpoints>>, SpecInv(k)',
         UNCHANGED vms \/ VM!Exit(k), excuse[k] \subseteq excuse'[k],
         byKey'[k] = byKey[k] \/ del[k] = NoDelete
  PROVE  PodInv(k)'
<1>1. PodInv(k)
  BY Zenon DEF EInv
<1>2. /\ VM!Exists(k)' <=> VM!Exists(k)
      /\ vms'[k].phase = "running" => vms'[k] = vms[k]
  BY VMStopped, Zenon
<1>3. \A R : Had(k, R) => Had(k, R)'
  BY HadGrows, Zenon
<1>4. (Tracked(k)' <=> Tracked(k)) /\ (Calm(k)' <=> Calm(k)) /\ (Mapped(k)' <=> Mapped(k))
      /\ (DeleteReaps(k)' <=> DeleteReaps(k))
  BY Zenon DEF Tracked, Calm, Works, Mapped, NoEndpoint, NoIP, NoAddr, DeleteReaps
<1>5. \A g \in Slots : /\ Works(g, k)' <=> Works(g, k)
                       /\ Reaps(g)' <=> Reaps(g)
                       /\ GoMaps(g, k)' <=> GoMaps(g, k)
                       /\ GoReaches(g, k) => GoReaches(g, k)'
  BY <1>2, Zenon DEF Works, Reaps, GoMaps, GoReaches, Current, NoEndpoint, NoIP, NoAddr
<1>6. OutInv(k)'
  BY <1>1, <1>4, Zenon DEF PodInv, OutInv
<1>7. VMInv(k)'
  BY <1>1, <1>2, <1>3, <1>4, <1>5, Zenon DEF PodInv, VMInv
<1>8. MapInv(k)'
  <2>1. del[k].pc = "detach" => byKey'[k] = byKey[k]
    BY DEF NoDelete
  <2> QED BY <1>1, <1>3, <1>4, <1>5, <2>1, Zenon
          DEF PodInv, MapInv, NoEndpoint, NoIP, NoAddr
<1>9. AddrInv(k)'
  <2>1. Reached(k) => Reached(k)'
    BY <1>2, Zenon DEF Reached
  <2>2. Current(k, create.addr) => Current(k, create.addr)'
    BY <1>2, Zenon DEF Current
  <2> QED BY <1>1, <1>3, <1>4, <1>5, <2>1, <2>2, Zenon DEF PodInv, AddrInv
<1> QED BY <1>6, <1>7, <1>8, <1>9, Zenon DEF PodInv

LEMMA OutsidePods ==
  ASSUME IInv, EInv, NEW k \in Keys, UNCHANGED <<pods, create, del, gos, endpoints>>, SpecInv(k)',
         UNCHANGED vms \/ VM!Exit(k), excuse[k] \subseteq excuse'[k],
         byKey'[k] = byKey[k] \/ del[k] = NoDelete,
         \A j \in Keys \ {k} : /\ api'[j] = api[j] /\ vms'[j] = vms[j]
                               /\ excuse'[j] = excuse[j] /\ byKey'[j] = byKey[j]
  PROVE  PodsEInv'
<1>1. PodInv(k)'
  BY OutsideKey, Zenon
<1>2. Touches(k)
  BY SameWorkAll, TouchesOne, Zenon
<1> QED BY <1>1, <1>2, OneKey, Zenon

\* A new Pod object, and the request to delete one.
LEMMA ApiPods ==
  ASSUME IInv, EInv, NEW k \in Keys, Schedule(k) \/ RequestDelete(k) PROVE PodsEInv'
<1>1. UNCHANGED <<pods, create, del, gos, vms, byKey, endpoints, excuse>>
  BY Zenon DEF Schedule, RequestDelete, callVars, ipamVars, histVars
<1>2. SpecInv(k)
  BY Zenon DEF EInv, PodInv
<1>3. Tracked(k)' <=> Tracked(k)
  BY <1>1, Zenon DEF Tracked
<1>4. (\A j \in Keys \ {k} : api'[j] = api[j]) /\ SpecInv(k)'
  <2>1. CASE Schedule(k)
    <3>1. PICK spec, u :
            api' = [api EXCEPT ![k] = [uid |-> u, state |-> "present", spec |-> spec,
                                       ip |-> NoIP, cs |-> "unset"]]
      BY <2>1, Zenon DEF Schedule
    <3>2. (\A j \in Keys \ {k} : api'[j] = api[j])
          /\ api'[k] = [uid |-> u, state |-> "present", spec |-> spec, ip |-> NoIP, cs |-> "unset"]
      BY <3>1, Zenon DEF IInv, ApiInv
    <3>3. api'[k].state = "present" /\ api'[k].cs = "unset"
      BY <3>2
    <3>4. ~Tracked(k) /\ create.key # k /\ del[k].pc = "idle"
      BY <1>2, <2>1 DEF Schedule, SpecInv
    <3>5. ~FinalState(api'[k].cs) /\ api'[k].state # "absent"
      BY <3>3 DEF FinalState
    <3> QED BY <1>1, <1>3, <3>2, <3>4, <3>5, Zenon DEF SpecInv
  <2>2. CASE RequestDelete(k)
    <3>1. PICK a : a = api[k] /\ a \in [uid : Uids \cup {0}, state : {"absent", "present", "deleting"},
                       spec : Specs \cup {"none"}, ip : IPs, cs : CStates]
      BY Zenon DEF IInv, ApiInv
    <3>2. (\A j \in Keys \ {k} : api'[j] = api[j]) /\ api'[k] = [a EXCEPT !.state = "deleting"]
      BY <2>2, <3>1, Zenon DEF RequestDelete, IInv, ApiInv
    <3>3. /\ api'[k].state = "deleting" /\ api'[k].spec = api[k].spec /\ api'[k].cs = api[k].cs
          /\ api'[k].ip = api[k].ip
      BY <3>1, <3>2, Zenon
    <3>4. api'[k].state # "absent"
      BY <3>3
    <3> QED BY <1>1, <1>2, <1>3, <3>2, <3>3, <3>4, Zenon DEF SpecInv
  <2> QED BY <2>1, <2>2, Zenon
<1> QED BY <1>1, <1>4, OutsidePods, Zenon

\* A guest exits.
LEMMA ExitPods == ASSUME IInv, EInv, NEW k \in Keys, GuestExit(k) PROVE PodsEInv'
<1>1. VM!Exit(k) /\ UNCHANGED <<api, pods, create, del, gos, byKey, endpoints, excuse>>
  BY Zenon DEF GuestExit, callVars, ipamVars, histVars
<1>2. \A j \in Keys \ {k} : vms'[j] = vms[j]
  BY <1>1, VMsElsewhere, Zenon
<1>3. SpecInv(k)'
  BY <1>1, Zenon DEF EInv, PodInv, SpecInv, Tracked
<1> QED BY <1>1, <1>2, <1>3, OutsidePods, Zenon

\* A failed probe nobody listens to, and steps that change nothing.
LEMMA NothingPods ==
  ASSUME IInv, EInv, UNCHANGED <<api, pods, create, del, gos, vms, byKey, endpoints, excuse>>
  PROVE  PodsEInv'
<1>1. \A j \in Keys : Same(j)
  BY Zenon DEF Same, SameWork
<1> QED BY <1>1, PodFrame, Zenon DEF EInv, PodsEInv

\* A Pod's address is reserved again.
LEMMA RecoverPods == ASSUME IInv, EInv, NEW k \in Keys, RecoverOne(k) PROVE PodsEInv'
<1>1. /\ UNCHANGED <<api, pods, create, del, gos, vms, endpoints>> /\ toRecover # {}
      /\ UNCHANGED excuse \/ Excuse(k, "conflict")
      /\ Reserve(k, api[k].ip)
  BY Zenon DEF RecoverOne, callVars
<1>2. del[k] = NoDelete
  BY <1>1, Zenon DEF EInv, IdleInv
<1>3. \A j \in Keys \ {k} : byKey'[j] = byKey[j]
  BY <1>1, Zenon DEF IInv, PoolInv, IPAMTypeOK, Reserve, Bind, ipamVars
<1>4. (\A j \in Keys \ {k} : excuse'[j] = excuse[j]) /\ excuse[k] \subseteq excuse'[k]
  BY <1>1, ExcuseAt, Zenon
<1>5. SpecInv(k)'
  BY <1>1, Zenon DEF EInv, PodInv, SpecInv, Tracked
<1> QED BY <1>1, <1>2, <1>3, <1>4, <1>5, OutsidePods, Zenon

\* The process comes back.
LEMMA BootPods == ASSUME IInv, EInv, Boot PROVE PodsEInv'
<1>1. UNCHANGED <<api, pods, create, del, gos, vms, byKey, endpoints>>
  BY Zenon DEF Boot, callVars, ipamVars
<1>2. \A k \in Keys : excuse[k] \subseteq excuse'[k]
  BY Zenon DEF Boot
<1>3. \A k \in Keys : SpecInv(k)'
  BY <1>1, Zenon DEF EInv, PodInv, SpecInv, Tracked
<1> QED BY <1>1, <1>2, <1>3, OutsideKey, Zenon DEF PodsEInv

\* The process dies.
LEMMA CrashPods == ASSUME IInv, EInv, Crash PROVE PodsEInv'
<1> SUFFICES ASSUME NEW k \in Keys PROVE PodInv(k)'
  BY Zenon DEF PodsEInv
<1>1. /\ ~Tracked(k)' /\ create' = NoCall /\ del'[k] = NoDelete /\ endpoints'[k] = NoEndpoint
      /\ \A g \in Slots : gos'[g] = NoGo
      /\ api' = api /\ "crash" \in excuse'[k]
  BY Zenon DEF Crash, Tracked
<1>2. create'.key # k /\ del'[k].pc = "idle" /\ \A g \in Slots : gos'[g].key # k
  BY <1>1, LifecycleAssumption DEF NoCall, NoDelete, NoGo
<1>3. OutInv(k)'
  BY <1>2, Zenon DEF OutInv
<1>4. SpecInv(k)'
  BY <1>1, <1>2, Zenon DEF EInv, PodInv, SpecInv
<1>5. VMInv(k)'
  BY <1>1, Zenon DEF VMInv, Had, VMReasons
<1>6. MapInv(k)'
  <2>1. del'[k].pc # "detach"
    BY <1>2
  <2> QED BY <1>1, <1>2, <2>1, Zenon DEF MapInv, NoEndpoint, NoIP, NoAddr
<1>7. AddrInv(k)'
  BY <1>1, <1>2, Zenon DEF AddrInv
<1> QED BY <1>3, <1>4, <1>5, <1>6, <1>7, Zenon DEF PodInv

\* The part of the invariant that is about one key at a time.
LEMMA NextPods == IInv /\ RestartInv /\ EInv /\ [Next]_vars => PodsEInv'
<1> SUFFICES ASSUME IInv, RestartInv, EInv, [Next]_vars PROVE PodsEInv'
  OBVIOUS
<1>1. CASE CreateStep
  BY <1>1, LookupPods, StartAdoptedPods, PullPods, BuildPods, ObservePods, AttachPods,
     RollbackPods, CommitPods, Zenon DEF CreateStep
<1>2. ASSUME NEW k \in Keys, CreateUnsupported(k) \/ CreateBegin(k) \/ DeleteStep(k)
      PROVE  PodsEInv'
  BY <1>2, UnsupportedPods, BeginPods, ForgetPods, UnknownPods, DeletePods, Zenon DEF DeleteStep
<1>3. ASSUME NEW k \in Keys, SyncStatus(k) PROVE PodsEInv'
  BY <1>3, SyncPods, Zenon
<1>4. ASSUME NEW k \in Keys, NEW f \in {"armed", "late"},
             FailProbeIgnored(k, f) \/ FailProbeRestart(k, f) \/ FailProbeKill(k, f)
      PROVE  PodsEInv'
  <2>1. CASE FailProbeIgnored(k, f)
    BY <2>1, NothingPods, Zenon DEF FailProbeIgnored, callVars, ipamVars, histVars
  <2> QED BY <1>4, <2>1, ProbePods, Zenon
<1>5. ASSUME NEW k \in Keys,
             \/ Schedule(k) \/ RequestDelete(k) \/ ForceRemove(k) \/ GuestExit(k)
             \/ RecoverOne(k)
      PROVE  PodsEInv'
  BY <1>5, ApiPods, UnknownPods, ExitPods, RecoverPods, Zenon
<1>6. ASSUME NEW g \in Slots, GoStep(g) PROVE PodsEInv'
  BY <1>6, WakePods, RestartDetachPods, GoStopPods, GoDestroyPods, RestartCreatePods,
     RestartStartPods, RestartObservePods, RestartAttachPods, RestartFinishPods, Zenon DEF GoStep
<1>7. CASE UNCHANGED vars
  BY <1>7, NothingPods, Zenon DEF vars
<1> QED BY <1>1, <1>2, <1>3, <1>4, <1>5, <1>6, <1>7, CrashPods, BootPods, Zenon DEF Next

-----------------------------------------------------------------------------
(* What is shown, in the other steps.                                      *)

LEMMA CommitShown == ASSUME IInv, EInv, CreateCommit PROVE ShownInv'
<1>1. InProcess /\ ApiKept /\ create' = NoCall /\ UNCHANGED byKey
  BY Zenon DEF CreateCommit, At, InProcess, ApiKept, Unlisted, CommitIP, ipamVars, Return
<1>2. create \in CallType
  BY DEF CreateCommit, At, IInv, CreateInv, NoCall
<1>3. PICK k \in Keys : k = create.key
  BY <1>2, Zenon DEF CallType
<1> DEFINE st == [uid |-> create.uid, policy |-> create.spec, terminal |-> FALSE,
                  wl |-> TRUE, ip |-> create.ip, attached |-> TRUE,
                  restarting |-> FALSE, probes |-> FALSE,
                  cs |-> create.cs]
<1>4. PICK obs \in VM!Phases \cup {"error"} :
        \/ pods' = [pods EXCEPT ![k] = StartedProbes(Reconciled(st, obs))]
        \/ pods' = [pods EXCEPT ![k] = Reconciled(st, obs)]
  BY <1>3, Zenon DEF CreateCommit
<1>5. st.ip = create.ip /\ st \in PodType
  BY <1>2, Zenon DEF CallType, PodType
<1> HIDE DEF st
<1>6. Reconciled(st, obs) \in PodType /\ Reconciled(st, obs).ip = create.ip
  BY <1>5, ReconciledRest, Zenon
<1>7. StartedProbes(Reconciled(st, obs)).ip = create.ip
  BY <1>6, Zenon DEF StartedProbes, PodType
<1>8. pods'[k].ip = create.ip /\ \A j \in Keys \ {k} : pods'[j] = pods[j]
  BY <1>4, <1>6, <1>7, Zenon DEF IInv, PodsInv
<1>9. \A j \in Keys : create'.key # j
  BY <1>1, LifecycleAssumption DEF NoCall
<1>10. ASSUME NEW j \in Keys, ShownAt(j), Shows(j) PROVE KeepsShown(j)
  <2>1. CASE j = k
    BY <1>1, <1>3, <1>8, <1>9, <1>10, <2>1, Zenon DEF ShownAt, KeepsShown
  <2>2. CASE j # k
    BY <1>1, <1>8, <1>9, <2>2, Zenon DEF KeepsShown, Tracked
  <2> QED BY <2>1, <2>2
<1> QED BY <1>1, <1>10, ShownKept, Zenon


\* CreatePod keeps an address that is reserved.
LEMMA BeginShown == ASSUME IInv, EInv, NEW k \in Keys, CreateBegin(k) PROVE ShownInv'
<1>1. /\ InProcess /\ UNCHANGED <<api, pods>> /\ create = NoCall
      /\ api[k].state = "present" /\ Allocate(k)
      /\ UNCHANGED excuse \/ Excuse(k, "crossed")
  BY Zenon DEF CreateBegin, InProcess, NoteIfInFlight
<1>2. ApiKept
  <2>1. \A j \in Keys : Unlisted(j)
    BY <1>1, Unlists
  <2> QED BY <1>1, <2>1, Zenon DEF ApiKept
<1>3. create' = NoCall \/ /\ create'.key = k /\ create'.ip = byKey'[k]
                          /\ create'.had = (byKey[k] # NoIP)
  BY DEF CreateBegin
<1>4. \A j \in Keys : NoCall.key # j
  BY LifecycleAssumption DEF NoCall
<1>5. \A j \in Keys \ {k} : byKey'[j] = byKey[j]
  BY <1>1, Zenon DEF Allocate, Bind, ipamVars, IInv, PoolInv, IPAMTypeOK
<1>6. byKey[k] # NoIP => byKey'[k] = byKey[k]
  BY <1>1, Zenon DEF Allocate, ipamVars, NoIP
<1>7. ASSUME NEW j \in Keys, ShownAt(j), Shows(j) PROVE KeepsShown(j)
  <2>1. CASE j = k
    <3>1. byKey[k] = api[k].ip /\ api[k].ip # NoIP
      BY <1>1, <1>7, <2>1, Zenon DEF ShownAt, InProcess, Up, Shows
    <3> QED BY <1>1, <1>3, <1>4, <1>6, <2>1, <3>1, Zenon DEF KeepsShown, Tracked
  <2>2. CASE j # k
    BY <1>1, <1>3, <1>4, <1>5, <2>2, Zenon DEF KeepsShown, Tracked
  <2> QED BY <2>1, <2>2
<1> QED BY <1>1, <1>2, <1>7, ShownKept, Zenon

\* Other steps of the provider that leave the API server alone.
LEMMA QuietShown ==
  ASSUME IInv, EInv, InProcess, UNCHANGED <<api, create, byKey>>, NEW k \in Keys,
         NEW why, why # "listFailed", UNCHANGED excuse \/ Excuse(k, why), NEW x,
         UNCHANGED pods \/ pods' = [pods EXCEPT ![k] = x],
         pods' # pods => x = NoPod \/ ~x.wl \/ (Tracked(k) /\ x.wl = pods[k].wl /\ x.ip = pods[k].ip)
  PROVE  ShownInv'
<1>1. ApiKept
  BY Unlists, Zenon DEF ApiKept
<1>2. \A j \in Keys :
        Tracked(j)' /\ pods'[j].wl => Tracked(j) /\ pods[j].wl /\ pods'[j].ip = pods[j].ip
  BY PodsShown, Zenon
<1>3. \A j \in Keys : ShownAt(j) /\ Shows(j) => KeepsShown(j)
  BY <1>2, SameShown, Zenon
<1> QED BY <1>1, <1>3, ShownKept, Zenon

LEMMA ProviderShown ==
  ASSUME IInv, EInv, NEW k \in Keys,
         \/ CreateUnsupported(k) \/ DeleteForget(k) \/ DeleteDetach(k) \/ DeleteStop(k)
         \/ DeleteDestroy(k)
  PROVE  ShownInv'
<1>1. InProcess /\ UNCHANGED <<api, create, byKey>>
  BY Zenon DEF CreateUnsupported, DeleteForget, DeleteDetach, DeleteStop, DeleteDestroy,
     InProcess, callVars, ipamVars
<1>2. \E why : why # "listFailed" /\ (UNCHANGED excuse \/ Excuse(k, why))
  <2>1. \/ UNCHANGED excuse \/ Excuse(k, "crossed") \/ Excuse(k, "outlived")
        \/ Excuse(k, "destroyFailed")
    BY Zenon DEF CreateUnsupported, DeleteForget, DeleteDetach, DeleteStop, DeleteDestroy,
       NoteIfInFlight, Destroys, histVars
  <2> QED BY <2>1
<1>3. \E x : (x = NoPod \/ ~x.wl) /\ (UNCHANGED pods \/ pods' = [pods EXCEPT ![k] = x])
  <2>1. ~TerminalPod(api[k].uid).wl
    BY DEF TerminalPod
  <2>2. \/ UNCHANGED pods \/ pods' = [pods EXCEPT ![k] = NoPod]
        \/ pods' = [pods EXCEPT ![k] = TerminalPod(api[k].uid)]
    BY Zenon DEF CreateUnsupported, DeleteForget, DeleteDetach, DeleteStop, DeleteDestroy
  <2> QED BY <2>1, <2>2, Zenon
<1> QED BY <1>1, <1>2, <1>3, QuietShown, Zenon

\* failProbe and the goroutines do not touch addresses.
LEMMA ProbeShown ==
  ASSUME IInv, EInv, NEW k \in Keys, NEW f,
         FailProbeIgnored(k, f) \/ FailProbeRestart(k, f) \/ FailProbeKill(k, f)
  PROVE  ShownInv'
<1>1. InProcess /\ UNCHANGED <<api, create, byKey, excuse>>
  BY Zenon DEF FailProbeIgnored, FailProbeRestart, FailProbeKill, ProberExits, InProcess,
     callVars, ipamVars, histVars
<1> PICK why : why = "crash"
  OBVIOUS
<1> why # "listFailed"
  OBVIOUS
<1>2. CASE UNCHANGED pods
  <2> PICK x : x = NoPod
    OBVIOUS
  <2> QED BY <1>1, <1>2, QuietShown
<1>3. CASE pods' # pods
  <2>1. Tracked(k)
    BY <1>3, Zenon DEF FailProbeIgnored, FailProbeRestart, FailProbeKill
  <2>2. PICK st \in PodType : st = pods[k]
    BY <2>1, Zenon DEF IInv, PodsInv, Tracked
  <2>3. PICK x : /\ pods' = [pods EXCEPT ![k] = x]
                 /\ \/ x = [st EXCEPT !.restarting = TRUE]
                    \/ x = [st EXCEPT !.terminal = TRUE, !.cs = "failed", !.probes = FALSE]
    BY <1>3, <2>2, Zenon DEF FailProbeIgnored, FailProbeRestart, FailProbeKill, IInv, PodsInv
  <2>4. x.wl = st.wl /\ x.ip = st.ip
    BY <2>3, Zenon DEF PodType
  <2> QED BY <1>1, <2>1, <2>2, <2>3, <2>4, QuietShown, Zenon
<1> QED BY <1>2, <1>3


LEMMA GoShown == ASSUME IInv, EInv, NEW g \in Slots, GoStep(g) PROVE ShownInv'
<1>1. InProcess /\ UNCHANGED <<api, create, byKey>>
  BY Zenon DEF GoStep, RestartWake, RestartDetach, GoStop, GoDestroy, RestartCreate,
     RestartStart, RestartObserve, RestartAttach, RestartFinish, GoAt, InProcess, callVars, ipamVars
<1>2. gos[g].pc # "idle"
  BY DEF GoStep, RestartWake, RestartDetach, GoStop, GoDestroy, RestartCreate,
     RestartStart, RestartObserve, RestartAttach, RestartFinish, GoAt
<1>3. PICK k \in Keys : k = gos[g].key
  BY <1>2 DEF IInv, GosInv, GoType, NoGo
<1>4. PICK why : why # "listFailed" /\ (UNCHANGED excuse \/ Excuse(k, why))
  <2>1. UNCHANGED excuse \/ Excuse(k, "loadFailed") \/ Excuse(k, "destroyFailed")
    BY <1>3, Zenon DEF GoStep, RestartWake, RestartDetach, GoStop, GoDestroy, RestartCreate,
       RestartStart, RestartObserve, RestartAttach, RestartFinish, AttachOK, AttachFails,
       Destroys, histVars
  <2> QED BY <2>1
<1>5. CASE UNCHANGED pods
  <2> PICK x : x = NoPod
    OBVIOUS
  <2> QED BY <1>1, <1>4, <1>5, QuietShown
<1>6. CASE pods' # pods
  <2>1. Tracked(k) /\ (RestartWake(g) \/ RestartFinish(g))
    BY <1>3, <1>6, Zenon DEF GoStep, RestartWake, RestartDetach, GoStop, GoDestroy, RestartCreate,
       RestartStart, RestartObserve, RestartAttach, RestartFinish
  <2>2. PICK st \in PodType : st = pods[k]
    BY <2>1, Zenon DEF IInv, PodsInv, Tracked
  <2>3. PICK x : /\ pods' = [pods EXCEPT ![k] = x]
                 /\ \/ x = [st EXCEPT !.restarting = FALSE]
                    \/ x = [st EXCEPT !.probes = FALSE]
                    \/ x = StartedProbes([st EXCEPT !.restarting = FALSE, !.attached = gos[g].att])
    BY <1>3, <1>6, <2>1, <2>2, Zenon DEF RestartWake, RestartFinish, FlagCleared, IInv, PodsInv
  <2>4. x.wl = st.wl /\ x.ip = st.ip
    BY <2>3, Zenon DEF PodType, StartedProbes
  <2> QED BY <1>1, <1>4, <2>1, <2>2, <2>3, <2>4, QuietShown, Zenon
<1> QED BY <1>5, <1>6

\* DeletePod releases the address of a Pod that is not present any more.
LEMMA ReleaseShown == ASSUME IInv, EInv, NEW k \in Keys, DeleteRelease(k) PROVE ShownInv'
<1>1. InProcess /\ ApiKept /\ UNCHANGED <<pods, create>> /\ Release(k) /\ del[k].pc # "idle"
  <2>1. del[k].pc = "release"
    BY Zenon DEF DeleteRelease
  <2>2. del[k].pc # "idle"
    BY <2>1
  <2> QED BY <2>2, Zenon DEF DeleteRelease, InProcess, ApiKept, Unlisted, histVars
<1>2. api[k].state = "deleting"
  BY <1>1, Zenon DEF EInv, PodInv, SpecInv
<1>3. api[k].state # "present"
  BY <1>2
<1>4. \A j \in Keys \ {k} : byKey'[j] = byKey[j]
  BY <1>1, Zenon DEF Release, ipamVars, IInv, PoolInv, IPAMTypeOK
<1>5. ASSUME NEW j \in Keys, ShownAt(j), Shows(j) PROVE KeepsShown(j)
  BY <1>1, <1>3, <1>4, <1>5, Zenon DEF ShownAt, KeepsShown, Tracked
<1> QED BY <1>1, <1>5, ShownKept, Zenon

\* A status shows the address the Pod holds, which is nobody else's.
LEMMA SyncShown == ASSUME IInv, EInv, NEW k \in Keys, SyncStatus(k) PROVE ShownInv'
<1>1. /\ InProcess /\ UNCHANGED <<create, byKey, excuse>> /\ Tracked(k)
  BY Zenon DEF SyncStatus, InProcess, callVars, ipamVars
<1>2. PICK st \in PodType : st = pods[k]
  BY <1>1, Zenon DEF IInv, PodsInv, Tracked
<1>3. PICK obs \in VM!Phases \cup {"error"} :
        /\ pods' = [pods EXCEPT ![k] = Reconciled(st, obs)]
        /\ api' = [api EXCEPT ![k].ip = Reconciled(st, obs).ip, ![k].cs = Reconciled(st, obs).cs]
  BY <1>2, Zenon DEF SyncStatus
<1>4. Reconciled(st, obs).ip = st.ip
  BY ReconciledRest, Zenon
<1>5. pods'[k].ip = st.ip /\ \A j \in Keys \ {k} : pods'[j] = pods[j]
  BY <1>3, <1>4, Zenon DEF IInv, PodsInv
<1>6. /\ api'[k].ip = st.ip /\ api'[k].state = api[k].state
      /\ \A j \in Keys \ {k} : api'[j] = api[j]
  BY <1>3, <1>4, Zenon DEF IInv, ApiInv
<1>7. st.ip # NoIP => byKey[k] = st.ip
  BY <1>1, <1>2, Zenon DEF IInv, OwnInv
<1>8. create.key # k
  <2>1. create # NoCall => create.key # k
    BY <1>1, Zenon DEF IInv, OwnInv
  <2> QED BY <2>1, LifecycleAssumption DEF NoCall
<1>9. ShownInv /\ Up /\ kubelet' = "up" /\ toRecover' = {}
  BY <1>1, Zenon DEF EInv, InProcess, Up
<1>10. \A j \in Keys \ {k} : Shows(j)' <=> Shows(j)
  BY <1>1, <1>6, Zenon DEF Shows, Had
<1>11. ASSUME NEW j \in Keys, Shows(j)' PROVE ShownAt(j)'
  <2>1. CASE j = k
    BY <1>1, <1>5, <1>6, <1>7, <1>8, <1>11, <2>1, Zenon DEF ShownAt, Shows
  <2>2. CASE j # k
    <3>1. ShownAt(j) /\ Shows(j) /\ api'[j] = api[j] /\ pods'[j] = pods[j]
      BY <1>5, <1>6, <1>9, <1>10, <1>11, <2>2, Zenon DEF ShownInv
    <3> QED BY <1>1, <3>1, Zenon DEF ShownAt, Tracked, InProcess
  <2> QED BY <2>1, <2>2
<1>12. ASSUME NEW j \in Keys \ {k}, Shows(j), Shows(k)', api[j].state = "present"
       PROVE  api[j].ip # st.ip
  <2>1. byKey[j] = api[j].ip /\ api[j].ip # NoIP
    BY <1>9, <1>12, Zenon DEF ShownInv, ShownAt, Up, Shows
  <2>2. byKey[k] = st.ip /\ st.ip # NoIP
    BY <1>6, <1>7, <1>12, Zenon DEF Shows
  <2> QED BY <2>1, <2>2, Zenon DEF IInv, PoolInv, MapsInverse, NoIP
<1>13. ASSUME NEW i \in Keys, NEW j \in Keys, i # j, Shows(i)', Shows(j)',
              api'[i].state = "present", api'[j].state = "present"
       PROVE  api'[i].ip # api'[j].ip
  <2>1. CASE i = k
    BY <1>6, <1>10, <1>12, <1>13, <2>1, Zenon
  <2>2. CASE j = k
    BY <1>6, <1>10, <1>12, <1>13, <2>2, Zenon
  <2>3. CASE i # k /\ j # k
    BY <1>6, <1>9, <1>10, <1>13, <2>3, Zenon DEF ShownInv, ShownApart
  <2> QED BY <2>1, <2>2, <2>3, Zenon
<1>14. Recovering'
  BY <1>9 DEF Recovering
<1>15. ListInv'
  BY <1>1, <1>9, Zenon DEF ShownInv, ListInv
<1> QED BY <1>11, <1>13, <1>14, <1>15, Zenon DEF ShownInv, ShownAt, ShownApart


\* The record of k at the API server changes, and k is not shown afterwards or
\* is shown as before but not present.
LEMMA ApiShown ==
  ASSUME IInv, EInv, NEW k \in Keys,
         UNCHANGED <<pods, create, byKey, kubelet, toRecover, excuse>>,
         \A j \in Keys \ {k} : api'[j] = api[j],
         \/ api'[k].ip = NoIP /\ (api[k].ip = NoIP \/ kubelet = "down" \/ Up)
         \/ api'[k].ip = api[k].ip /\ api'[k].state # "present"
  PROVE  ShownInv'
<1>1. ShownInv
  BY Zenon DEF EInv
<1>2. \A j \in Keys \ {k} : Shows(j)' <=> Shows(j)
  BY Zenon DEF Shows, Had
<1>3. Shows(k)' => Shows(k) /\ api'[k].ip = api[k].ip /\ api'[k].state # "present"
  BY Zenon DEF Shows, Had
<1>4. ASSUME NEW j \in Keys, Shows(j)' PROVE ShownAt(j)'
  BY <1>1, <1>2, <1>3, <1>4, Zenon DEF ShownInv, ShownAt, Tracked
<1>5. ShownApart'
  BY <1>1, <1>2, <1>3, Zenon DEF ShownInv, ShownApart
<1>6. toRecover # {} => kubelet = "down" \/ ~Up
  BY DEF Up
<1>7. kubelet = "down" => \A j \in Keys : byKey[j] = NoIP
  BY <1>1, Zenon DEF ShownInv, Recovering
<1>8. Recovering'
  <2>1. ASSUME NEW j \in Keys, toRecover # {} PROVE byKey[j] \in {NoIP, api'[j].ip}
    <3>1. byKey[j] \in {NoIP, api[j].ip}
      BY <1>1, <2>1, Zenon DEF ShownInv, Recovering
    <3>2. CASE api'[j].ip = api[j].ip
      BY <3>1, <3>2, Zenon
    <3>3. CASE api'[j].ip # api[j].ip
      <4>1. kubelet = "down"
        BY <1>6, <2>1, <3>3, Zenon
      <4> QED BY <1>7, <4>1, Zenon
    <3> QED BY <3>2, <3>3, Zenon
  <2> QED BY <1>1, <2>1, Zenon DEF ShownInv, Recovering
<1>9. ListInv'
  BY <1>1, Zenon DEF ShownInv, ListInv
<1> QED BY <1>4, <1>5, <1>8, <1>9, Zenon DEF ShownInv, ShownAt

LEMMA OutsideShown ==
  ASSUME IInv, EInv, NEW k \in Keys,
         \/ Schedule(k) \/ RequestDelete(k) \/ ForceRemove(k)
         \/ DeleteUnknown(k) \/ DeleteCleanup(k)
  PROVE  ShownInv'
<1>1. UNCHANGED <<pods, create, byKey, kubelet, toRecover, excuse>>
  BY Zenon DEF Schedule, RequestDelete, ForceRemove, DeleteUnknown, DeleteCleanup, callVars,
     ipamVars, histVars
<1>2. PICK a : a = api[k] /\ a \in [uid : Uids \cup {0}, state : {"absent", "present", "deleting"},
                       spec : Specs \cup {"none"}, ip : IPs, cs : CStates]
  BY Zenon DEF IInv, ApiInv
<1>3. CASE Schedule(k)
  <2>1. PICK u, spec : api' = [api EXCEPT ![k] = [uid |-> u, state |-> "present",
                                                spec |-> spec, ip |-> NoIP, cs |-> "unset"]]
    BY <1>3, Zenon DEF Schedule
  <2>2. api'[k].ip = NoIP /\ \A j \in Keys \ {k} : api'[j] = api[j]
    BY <2>1 DEF IInv, ApiInv
  <2>3. api[k].ip = NoIP
    BY <1>3, Zenon DEF Schedule, EInv, PodInv, SpecInv
  <2> QED BY <1>1, <2>2, <2>3, ApiShown, Zenon
<1>4. CASE RequestDelete(k)
  <2>1. /\ api'[k] = [a EXCEPT !.state = "deleting"] /\ \A j \in Keys \ {k} : api'[j] = api[j]
    BY <1>2, <1>4, Zenon DEF RequestDelete, IInv, ApiInv
  <2>2. api'[k].ip = a.ip /\ api'[k].state = "deleting"
    BY <1>2, <2>1, Zenon
  <2>3. api'[k].state # "present"
    BY <2>2
  <2> QED BY <1>1, <1>2, <2>1, <2>2, <2>3, ApiShown, Zenon
<1>5. CASE ForceRemove(k) \/ DeleteUnknown(k) \/ DeleteCleanup(k)
  <2>1. Gone(k) /\ (kubelet = "down" \/ Up)
    BY <1>5, Zenon DEF ForceRemove, DeleteUnknown, DeleteCleanup
  <2>2. /\ api'[k] = [a EXCEPT !.state = "absent", !.spec = "none", !.ip = NoIP, !.cs = "unset"]
        /\ \A j \in Keys \ {k} : api'[j] = api[j]
    BY <1>2, <2>1, Zenon DEF Gone, IInv, ApiInv
  <2>3. api'[k].ip = NoIP
    BY <1>2, <2>2, Zenon
  <2> QED BY <1>1, <2>1, <2>2, <2>3, ApiShown, Zenon
<1> QED BY <1>3, <1>4, <1>5, Zenon

LEMMA NothingShown ==
  ASSUME EInv, UNCHANGED <<api, pods, create, byKey, kubelet, toRecover, excuse>> PROVE ShownInv'
BY Zenon DEF EInv, ShownInv, ShownAt, ShownApart, Recovering, ListInv, Shows, Had, Tracked

LEMMA CrashShown == ASSUME IInv, EInv, Crash PROVE ShownInv'
<1>1. /\ UNCHANGED api /\ kubelet' = "down" /\ toRecover' = {} /\ create' = NoCall
      /\ \A k \in Keys : byKey'[k] = NoIP /\ ~Tracked(k)' /\ excuse'[k] = excuse[k] \cup {"crash"}
  BY Zenon DEF Crash, Tracked
<1>2. \A k \in Keys : create'.key # k
  BY <1>1, LifecycleAssumption DEF NoCall
<1>3. \A k \in Keys : Shows(k)' => Shows(k)
  BY <1>1, Zenon DEF Shows, Had
<1>4. kubelet' # "up"
  BY <1>1
<1>5. \A k \in Keys : ShownAt(k)'
  BY <1>1, <1>2, <1>4, Zenon DEF ShownAt
<1>6. ShownApart'
  BY <1>1, <1>3, Zenon DEF EInv, ShownInv, ShownApart
<1>7. Recovering'
  BY <1>1 DEF Recovering
<1>8. ListInv'
  BY <1>1 DEF EInv, ShownInv, ListInv
<1> QED BY <1>5, <1>6, <1>7, <1>8, Zenon DEF ShownInv

LEMMA BootShown == ASSUME IInv, EInv, Boot PROVE ShownInv'
<1>1. UNCHANGED <<api, pods, create, byKey>> /\ kubelet = "down" /\ kubelet' = "up"
  BY Zenon DEF Boot, callVars, ipamVars
<1>2. create = NoCall /\ \A k \in Keys : ~Tracked(k) /\ byKey[k] = NoIP
  BY <1>1, Zenon DEF EInv, IdleInv, ShownInv, Recovering
<1>3. \A k \in Keys : create'.key # k
  BY <1>1, <1>2, LifecycleAssumption DEF NoCall
<1>4. Recovering'
  <2>1. toRecover' \subseteq Keys
    BY Zenon DEF Boot
  <2> QED BY <1>1, <1>2, <2>1 DEF Recovering
<1>5. CASE UNCHANGED excuse /\ toRecover' = {k \in Keys : api[k].ip # NoIP}
  <2>1. \A k \in Keys : ShownAt(k)'
    BY <1>1, <1>2, <1>3, <1>5, Zenon DEF ShownAt, Shows, Tracked
  <2>2. ShownApart' /\ ListInv'
    BY <1>1, <1>5, Zenon DEF EInv, ShownInv, ShownApart, ListInv, Shows, Had
  <2> QED BY <1>4, <2>1, <2>2, Zenon DEF ShownInv
<1>6. CASE \A k \in Keys : "listFailed" \in excuse'[k]
  BY <1>4, <1>6, Zenon DEF ShownInv, ShownAt, ShownApart, ListInv, Shows, Had
<1> QED BY <1>5, <1>6, Zenon DEF Boot


\* Recovery gives every Pod of the list the address it is shown with, unless
\* that one was taken before.
LEMMA RecoverShown == ASSUME IInv, EInv, NEW k \in Keys, RecoverOne(k) PROVE ShownInv'
<1>1. /\ UNCHANGED <<api, pods, create, kubelet>> /\ kubelet = "up" /\ k \in toRecover
      /\ toRecover' = toRecover \ {k} /\ Reserve(k, api[k].ip)
      /\ IF TakenBefore(k) THEN Excuse(k, "conflict") ELSE UNCHANGED excuse
  BY Zenon DEF RecoverOne, callVars
<1>2. ShownInv /\ create = NoCall /\ \A j \in Keys : ~Tracked(j)
  BY <1>1, Zenon DEF EInv, IdleInv
<1>3. \A j \in Keys : create'.key # j /\ ~Tracked(j)'
  BY <1>1, <1>2, LifecycleAssumption DEF NoCall, Tracked
<1>4. byKey[k] = NoIP /\ \A j \in Keys : byKey[j] \in {NoIP, api[j].ip}
  BY <1>1, <1>2, Zenon DEF ShownInv, Recovering
<1>5. \A j \in Keys \ {k} : byKey'[j] = byKey[j]
  BY <1>1, Zenon DEF Reserve, Bind, ipamVars, IInv, PoolInv, IPAMTypeOK
<1>6. byKey'[k] = IF CanReserve(k, api[k].ip) THEN api[k].ip ELSE NoIP
  BY <1>1, <1>4, Zenon DEF Reserve, Bind, ipamVars, IInv, PoolInv, IPAMTypeOK
<1>7. UNCHANGED excuse \/ Excuse(k, "conflict")
  BY <1>1, Zenon
<1>8. \A j \in Keys : Unlisted(j)
  BY <1>7, Unlists
<1>9. \A j \in Keys : Shows(j)' => Shows(j)
  BY <1>1, <1>8, Zenon DEF Unlisted, Shows, Had
<1>10. ASSUME Shows(k)', api[k].state = "present" PROVE byKey'[k] = api[k].ip
  <2>1. Shows(k) /\ ~TakenBefore(k)
    <3>1. Excuse(k, "conflict") => "conflict" \in excuse'[k]
      BY ExcuseAt, Zenon
    <3>2. "conflict" \notin excuse'[k]
      BY <1>10, Zenon DEF Shows, Had
    <3> QED BY <1>1, <1>9, <1>10, <3>1, <3>2, Zenon
  <2>2. api[k].ip # NoIP /\ api[k].ip \in IPs
    BY <2>1, Zenon DEF Shows, IInv, ApiInv
  <2>3. api[k].ip \in Usable
    BY <2>2, Zenon DEF IPs
  <2>4. SUFFICES ASSUME Taken(api[k].ip) PROVE FALSE
    BY <1>4, <1>6, <2>3, Zenon DEF CanReserve, NoIP
  <2>5. PICK j \in Keys : byKey[j] = api[k].ip
    <3>1. api[k].ip \in Offsets
      BY <2>3, LifecycleAssumption DEF Usable, Offsets, First, Last
    <3>2. byIP[api[k].ip] \in Keys
      BY <2>4, <3>1, Zenon DEF Taken, IInv, PoolInv, IPAMTypeOK
    <3> QED BY <2>4, <3>1, <3>2, Zenon DEF Taken, IInv, PoolInv, MapsInverse
  <2>6. j # k /\ api[j].ip = api[k].ip
    BY <1>4, <2>2, <2>5, Zenon
  <2>7. api[j].state # "deleting" /\ "conflict" \notin excuse[j]
    BY <2>1, <2>5, <2>6, Zenon DEF TakenBefore
  <2>8. api[j].state # "absent"
    BY <2>2, <2>6, Zenon DEF EInv, PodInv, SpecInv
  <2>9. api[j].state = "present"
    BY <2>7, <2>8 DEF IInv, ApiInv
  <2>10. "listFailed" \notin excuse[j]
    BY <1>2, <2>1, Zenon DEF ShownInv, ListInv, Shows, Had
  <2>11. Shows(j)
    BY <2>2, <2>6, <2>7, <2>10, Zenon DEF Shows, Had
  <2> QED BY <1>2, <1>10, <2>1, <2>6, <2>9, <2>11, Zenon DEF ShownInv, ShownApart
<1>11. ASSUME NEW j \in Keys PROVE ShownAt(j)'
  <2>1. CASE j = k
    BY <1>1, <1>3, <1>10, <2>1, Zenon DEF ShownAt
  <2>2. CASE j # k
    <3>1. ShownAt(j) /\ byKey'[j] = byKey[j]
      BY <1>2, <1>5, <2>2, Zenon DEF ShownInv
    <3> QED BY <1>1, <1>3, <1>9, <2>2, <3>1, Zenon DEF ShownAt
  <2> QED BY <2>1, <2>2
<1>12. ShownApart'
  BY <1>1, <1>2, <1>9, Zenon DEF ShownInv, ShownApart
<1>13. Recovering'
  <2>1. kubelet' # "down"
    BY <1>1
  <2>2. \A j \in Keys : byKey'[j] \in {NoIP, api'[j].ip}
    BY <1>1, <1>4, <1>5, <1>6, Zenon
  <2>3. \A j \in toRecover' : byKey'[j] = NoIP
    BY <1>1, <1>2, <1>5, Zenon DEF ShownInv, Recovering, IInv, NodeInv
  <2> QED BY <2>1, <2>2, <2>3, Zenon DEF Recovering
<1>14. ListInv'
  BY <1>2, <1>8, Zenon DEF ShownInv, ListInv, Unlisted
<1> QED BY <1>11, <1>12, <1>13, <1>14, Zenon DEF ShownInv

LEMMA NextShown == ASSUME IInv, EInv, [Next]_vars PROVE ShownInv'
<1>1. CASE CreateStep
  BY <1>1, CreateShown, CommitShown, Zenon
<1>2. ASSUME NEW k \in Keys, DeleteStep(k) PROVE ShownInv'
  BY <1>2, ProviderShown, OutsideShown, ReleaseShown, Zenon DEF DeleteStep
<1>3. ASSUME NEW k \in Keys, GuestExit(k) PROVE ShownInv'
  BY <1>3, NothingShown, Zenon DEF GuestExit, callVars, ipamVars, histVars
<1>4. CASE UNCHANGED vars
  BY <1>4, NothingShown, Zenon DEF vars
<1> QED BY <1>1, <1>2, <1>3, <1>4, ProviderShown, BeginShown, SyncShown, ProbeShown, OutsideShown,
        RecoverShown, GoShown, CrashShown, BootShown, Zenon DEF Next


-----------------------------------------------------------------------------
(* The invariant, and what it says of the properties.                      *)

LEMMA InitEInv == Init => EInv
<1> SUFFICES ASSUME Init PROVE EInv
  OBVIOUS
<1>1. /\ create = NoCall /\ kubelet = "up" /\ toRecover = {}
      /\ \A k \in Keys : /\ ~Tracked(k) /\ del[k] = NoDelete /\ endpoints[k] = NoEndpoint
                         /\ byKey[k] = NoIP /\ excuse[k] = {} /\ ~VM!Exists(k)
      /\ \A g \in Slots : gos[g] = NoGo
  BY Zenon DEF Init, Tracked, VM!Init, VM!Exists, VM!Missing, IPAMInit, NoIP
<1>2. \A k \in Keys : /\ api[k].state = "absent" /\ api[k].ip = NoIP /\ api[k].spec = "none"
  BY DEF Init
<1>3. /\ create.pc = "idle" /\ \A k \in Keys : create.key # k /\ del[k].pc = "idle"
      /\ \A g \in Slots : gos[g].pc = "idle" /\ \A k \in Keys : gos[g].key # k
  BY <1>1, LifecycleAssumption DEF NoCall, NoDelete, NoGo
<1>4. IdleInv /\ AdoptInv /\ FlagsInv
  BY <1>1, <1>3 DEF IdleInv, AdoptInv, FlagsInv
<1>5. ShownInv
  BY <1>1, <1>2 DEF ShownInv, ShownAt, ShownApart, Recovering, ListInv, Shows
<1>6. ASSUME NEW k \in Keys PROVE PodInv(k)
  <2>1. OutInv(k)
    BY <1>3, Zenon DEF OutInv
  <2>2. SpecInv(k)
    BY <1>1, <1>2, <1>3 DEF SpecInv
  <2>3. VMInv(k) /\ AddrInv(k)
    BY <1>1, <1>3, Zenon DEF VMInv, AddrInv
  <2>4. del[k].pc # "detach"
    BY <1>3
  <2>5. MapInv(k)
    BY <1>1, <1>3, <2>4, Zenon DEF MapInv
  <2> QED BY <2>1, <2>2, <2>3, <2>5, Zenon DEF PodInv
<1> QED BY <1>4, <1>5, <1>6, Zenon DEF EInv

LEMMA NextEInv == IInv /\ RestartInv /\ EInv /\ [Next]_vars => EInv'
BY NextPods, NextIdle, NextAdopt, NextShown, NextFlags, Zenon DEF EInv, PodsEInv

LEMMA NothingLeft == IInv /\ EInv => NoVMLeak /\ NoEndpointLeak
<1> SUFFICES ASSUME IInv, EInv, NEW k \in Keys, Quiet(k), ~Tracked(k)
             PROVE  /\ ~Had(k, VMReasons) => vms[k].phase = "none"
                    /\ ~Had(k, MapReasons) => endpoints[k] = NoEndpoint
  BY Zenon DEF NoVMLeak, NoEndpointLeak, VMReasons, MapReasons
<1>1. create.key # k /\ del[k].pc = "idle" /\ \A g \in Slots : gos[g].key # k
  BY Zenon DEF Quiet, InCall, InFlight
<1>2. del[k].pc # "detach" /\ ~DeleteReaps(k)
  BY <1>1 DEF DeleteReaps
<1>3. VMInv(k) /\ MapInv(k)
  BY Zenon DEF EInv, PodInv
<1>4. ~Had(k, VMReasons) => ~VM!Exists(k)
  BY <1>1, <1>2, <1>3, Zenon DEF VMInv
<1> QED BY <1>1, <1>2, <1>3, <1>4, Zenon DEF MapInv, VM!Exists

LEMMA MappedToRunning == IInv /\ EInv => MappingCurrent
<1> SUFFICES ASSUME IInv, EInv, NEW k \in Keys, Quiet(k), Tracked(k), ~Had(k, AddrReasons)
             PROVE  IF pods[k].attached
                      THEN vms[k].phase = "running" =>
                             endpoints[k] = [ip |-> pods[k].ip, addr |-> vms[k].addr]
                      ELSE endpoints[k] = NoEndpoint
  BY Zenon DEF MappingCurrent, AddrReasons
<1>1. Calm(k)
  BY Zenon DEF Calm, Quiet, InFlight, Works
<1>2. ~Had(k, MapReasons)
  BY Zenon DEF Had, MapReasons, AddrReasons
<1> QED BY <1>1, <1>2, Zenon DEF EInv, PodInv, MapInv, AddrInv, Mapped, Reached

\* Whoever has a mapping holds its address.
LEMMA MappingHeld ==
  ASSUME IInv, RestartInv, EInv, NEW k \in Keys, endpoints[k].ip # NoIP, ~Had(k, MapReasons)
  PROVE  byKey[k] = endpoints[k].ip
<1>1. MapInv(k) /\ endpoints[k] # NoEndpoint
  BY DEF EInv, PodInv, NoEndpoint
<1>2. CASE create.key = k /\ create.pc = "commit"
  <2>1. create # NoCall
    BY <1>2 DEF NoCall
  <2>2. byKey[k] = create.ip
    BY <1>2, <2>1, Zenon DEF IInv, OwnInv
  <2>3. endpoints[k] = [ip |-> create.ip, addr |-> create.addr]
    BY <1>1, <1>2, Zenon DEF MapInv
  <2> QED BY <2>2, <2>3
<1>3. CASE del[k].pc = "detach"
  BY <1>1, <1>3, Zenon DEF MapInv
<1>4. CASE Tracked(k)
  <2>1. endpoints[k].ip = pods[k].ip
    <3>1. CASE Calm(k)
      BY <1>1, <1>4, <3>1, Zenon DEF MapInv, Mapped
    <3>2. ASSUME NEW g \in Slots, Works(g, k), gos[g].pc \notin {"backoff", "detach"}
          PROVE  endpoints[k].ip = pods[k].ip
      <4>1. gos[g].pc # "orphan"
        BY <3>2, Zenon DEF RestartInv, KeyInv, Had, MapReasons
      <4>2. gos[g].pc \in GoPCs
        BY <3>2, LifecycleAssumption DEF Works, IInv, GosInv, GoType, NoGo
      <4>3. gos[g].pc \in Between \cup {"finish"}
        BY <3>2, <4>1, <4>2 DEF GoPCs, Between, Works
      <4> QED BY <1>1, <1>4, <3>2, <4>3, Zenon DEF MapInv, GoMaps
    <3> QED BY <3>1, <3>2, Zenon DEF Calm
  <2> QED BY <1>4, <2>1, Zenon DEF IInv, OwnInv
<1> QED BY <1>1, <1>2, <1>3, <1>4, Zenon DEF MapInv

LEMMA MappingsApart == IInv /\ RestartInv /\ EInv => NoSharedMapping
<1> SUFFICES ASSUME IInv, RestartInv, EInv, NEW j \in Keys, NEW k \in Keys, j # k,
                    endpoints[j].ip # NoIP, ~Had(j, MapReasons), ~Had(k, MapReasons),
                    endpoints[j].ip = endpoints[k].ip
             PROVE  FALSE
  BY Zenon DEF NoSharedMapping, MapReasons
<1>1. byKey[j] = endpoints[j].ip /\ byKey[k] = endpoints[j].ip
  BY MappingHeld, Zenon
<1> QED BY <1>1, Zenon DEF IInv, PoolInv, MapsInverse, NoIP

LEMMA ShownStable == EInv => StablePodIP /\ AlwaysNeverFinal
<1> SUFFICES ASSUME EInv PROVE StablePodIP /\ AlwaysNeverFinal
  OBVIOUS
<1>1. StablePodIP
  BY Zenon DEF EInv, ShownInv, ShownAt, Shows, StablePodIP
<1>2. AlwaysNeverFinal
  BY Zenon DEF EInv, PodInv, SpecInv, AlwaysNeverFinal
<1> QED BY <1>1, <1>2


\* A step that takes a VM away is a Destroy of that key.
LEMMA OnlyDestroys ==
  ASSUME IInv, NEW k \in Keys, VM!Exists(k), NEW j \in Keys, NEW u,
         UNCHANGED vms \/ VM!Create(j, u) \/ VM!Start(j) \/ VM!Stop(j) \/ VM!Exit(j)
           \/ (VM!Destroy(j) /\ j # k)
  PROVE  vms'[k].phase # "none"
<1>1. CASE j # k
  BY <1>1, VMsElsewhere, Zenon DEF VM!Exists
<1>2. CASE j = k
  <2>1. PICK v \in [phase : VM!Phases, addr : 0 .. NumAddrs - 1, spec : Uids \cup {0}] : v = vms[k]
    BY Zenon DEF IInv, VMsInv, VM!VMTypeOK
  <2>2. PICK ph, a : /\ ph # "none"
                     /\ \/ UNCHANGED vms
                        \/ vms' = [vms EXCEPT ![k].phase = ph, ![k].addr = a]
    <3>1. CASE VM!Start(k)
      BY <3>1 DEF VM!Start
    <3>2. CASE VM!Stop(k) \/ VM!Exit(k)
      BY <3>2 DEF VM!Stop, VM!Exit, VM!Halts
    <3>3. CASE UNCHANGED vms
      BY <3>3
    <3> QED BY <1>2, <3>1, <3>2, <3>3, Zenon DEF VM!Create
  <2>3. CASE UNCHANGED vms
    BY <2>3, Zenon DEF VM!Exists
  <2>4. CASE vms' = [vms EXCEPT ![k].phase = ph, ![k].addr = a]
    <3>1. vms'[k] = [v EXCEPT !.phase = ph, !.addr = a]
      BY <2>1, <2>4, Zenon DEF IInv, VMsInv, VM!VMTypeOK
    <3>2. vms'[k].phase = ph
      BY <3>1, Zenon
    <3> QED BY <2>2, <3>2, Zenon
  <2> QED BY <2>2, <2>3, <2>4, Zenon
<1> QED BY <1>1, <1>2

\* No step takes away a VM that a call of CreatePod has adopted.
LEMMA NextSurvives ==
  ASSUME IInv, EInv, [Next]_vars, NEW k \in Keys, create.key = k, create.pc # "lookup",
         create.adopted, VM!Exists(k), ~Had(k, {"outlived"})
  PROVE  vms'[k].phase # "none"
<1>1. create # NoCall
  BY LifecycleAssumption DEF NoCall
<1>2. ~Tracked(k) /\ del[k] = NoDelete
  BY <1>1, Zenon DEF IInv, OwnInv
<1>3. \A g \in Slots : gos[g].key # k
  BY <1>2, Zenon DEF EInv, PodInv, OutInv, Had
<1>4. create.pc \notin {"lookup", "pull", "create", "start", "rollback"}
  BY Zenon DEF EInv, AdoptInv
<1>5. del[k].pc = "idle"
  BY <1>2 DEF NoDelete
<1>6. PICK u : u = 0
  OBVIOUS
<1>7. CASE CreateStep
  <2>1. UNCHANGED vms \/ VM!Start(k)
    <3>1. ~CreateLookup /\ ~CreatePull /\ ~CreateVM /\ ~CreateStart /\ ~CreateRollback
      BY <1>4, Zenon DEF CreateLookup, CreatePull, CreateVM, CreateStart, CreateRollback, At
    <3> QED BY <1>7, <3>1, Zenon DEF CreateStep, CreateStartAdopted, CreateObserve, CreateAttach,
            CreateCommit
  <2> QED BY <2>1, OnlyDestroys, Zenon
<1>8. ASSUME NEW j \in Keys,
             \/ CreateUnsupported(j) \/ CreateBegin(j) \/ SyncStatus(j) \/ Schedule(j)
             \/ RequestDelete(j) \/ ForceRemove(j) \/ RecoverOne(j)
             \/ \E f \in {"armed", "late"} :
                  FailProbeIgnored(j, f) \/ FailProbeRestart(j, f) \/ FailProbeKill(j, f)
      PROVE  UNCHANGED vms
  BY <1>8, Zenon DEF CreateUnsupported, CreateBegin, SyncStatus, Schedule, RequestDelete,
     ForceRemove, RecoverOne, FailProbeIgnored, FailProbeRestart, FailProbeKill
<1>9. ASSUME NEW j \in Keys, DeleteStep(j) PROVE vms'[k].phase # "none"
  <2>1. UNCHANGED vms \/ VM!Stop(j) \/ (VM!Destroy(j) /\ del[j].pc = "destroy")
    BY <1>9, Zenon DEF DeleteStep, DeleteForget, DeleteUnknown, DeleteDetach, DeleteRelease,
       DeleteStop, DeleteDestroy, DeleteCleanup, Stops, Destroys
  <2>2. del[j].pc = "destroy" => j # k
    BY <1>5
  <2> QED BY <2>1, <2>2, OnlyDestroys, Zenon
<1>10. ASSUME NEW g \in Slots, GoStep(g) PROVE vms'[k].phase # "none"
  <2>1. gos[g].pc # "idle"
    BY <1>10 DEF GoStep, RestartWake, RestartDetach, GoStop, GoDestroy, RestartCreate,
       RestartStart, RestartObserve, RestartAttach, RestartFinish, GoAt
  <2>2. PICK j \in Keys : j = gos[g].key
    BY <2>1 DEF IInv, GosInv, GoType, NoGo
  <2>3. j # k
    BY <1>3, <2>2, Zenon
  <2>4. \E w : UNCHANGED vms \/ VM!Create(j, w) \/ VM!Start(j) \/ VM!Stop(j) \/ VM!Destroy(j)
    BY <1>10, <2>2, Zenon DEF GoStep, RestartWake, RestartDetach, GoStop, GoDestroy, RestartCreate,
       RestartStart, RestartObserve, RestartAttach, RestartFinish, Stops, Destroys
  <2> QED BY <2>3, <2>4, OnlyDestroys, Zenon
<1>11. ASSUME NEW j \in Keys, GuestExit(j) PROVE vms'[k].phase # "none"
  BY <1>11, OnlyDestroys, Zenon DEF GuestExit
<1>12. CASE Crash \/ Boot \/ UNCHANGED vars
  BY <1>12, Zenon DEF Crash, Boot, vars, VM!Exists
<1>13. UNCHANGED vms => vms'[k].phase # "none"
  BY Zenon DEF VM!Exists
<1> QED BY <1>7, <1>8, <1>9, <1>10, <1>11, <1>12, <1>13, Zenon DEF Next

=============================================================================
