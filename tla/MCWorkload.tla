----------------------------- MODULE MCWorkload -----------------------------
(* The Pods and the objects of the runs of Workload.                        *)
EXTENDS Workload

NoProbe == [k \in Kinds |-> "none"]

\* A Pod that declares nothing.
Bare ==
  [containers |-> 1, extra |-> {}, policy |-> "Always", host |-> {},
   psc |-> [user |-> Unset, group |-> Unset, nonRoot |-> "nil", rejected |-> {}, profile |-> "nil"],
   csc |-> [user |-> Unset, group |-> Unset, nonRoot |-> "nil", rejected |-> {}, profile |-> "nil",
            readOnlyRoot |-> FALSE],
   volumes |-> << >>, mounts |-> << >>, envFrom |-> << >>, env |-> << >>,
   dnsPolicy |-> "ClusterFirst", dnsConfig |-> << >>,
   res |-> [r \in {"limits.cpu", "requests.cpu", "limits.memory", "requests.memory"} |-> Unset],
   pullSecrets |-> << >>, registry |-> "docker.io", arm64 |-> TRUE, probes |-> NoProbe]

Volume(name, kind) ==
  [name |-> name, kind |-> kind, obj |-> IF kind = "secret" THEN "sec" ELSE "cm", optional |-> FALSE,
   items |-> << >>, mode |-> "nil", medium |-> "", path |-> << >>, type |-> "", sources |-> << >>, api |-> FALSE]
Mount(name) == [volume |-> name, target |-> name, readOnly |-> FALSE, subPath |-> FALSE]
Entry(name, kind) ==
  [name |-> <<"", name>>, kind |-> kind, value |-> << >>, key |-> "a", obj |-> IF kind = "secret" THEN "sec" ELSE "cm",
   optional |-> FALSE, divisor |-> 0]
Source(kind, prefix) ==
  [kind |-> kind, obj |-> IF kind = "secret" THEN "sec" ELSE "cm", optional |-> FALSE, prefix |-> prefix]
Projection(kind) ==
  [kind |-> kind, obj |-> IF kind = "secret" THEN "sec" ELSE "cm", optional |-> TRUE, items |-> << >>]
Item(key, path, mode) == [key |-> key, path |-> path, mode |-> mode]

Object(data) == [Absent EXCEPT !.found = TRUE, !.data = data]
CM(v)   == Object([k \in {"a", "bad"} |-> <<v>>])
Both    == [Object([k \in {"a", "b"} |-> <<"v2">>]) EXCEPT !.bin = [k \in {"c"} |-> <<"raw">>]]
Creds(a) == [Object([k \in {"a"} |-> <<"s1">>]) EXCEPT !.auths = a]

\* envFrom overlaid by env, with references forwards and backwards.
EnvPod ==
  [Bare EXCEPT !.envFrom = <<Source("configMap", ""), Source("secret", "p"), Source("secret", "")>>,
     !.env = <<[Entry("x", "value") EXCEPT !.value = <<<<"ref", <<"", "a">>>>, <<"esc", "">>, <<"ref", <<"", "y">>>>>>],
               [Entry("a", "configMap") EXCEPT !.optional = TRUE, !.key = "b"],
               [Entry("b", "field") EXCEPT !.key = "metadata.uid"],
               [Entry("y", "resource") EXCEPT !.key = "limits.cpu"],
               [Entry("a", "value") EXCEPT !.value = <<<<"ref", <<"", "a">>>>, <<"ref", <<"", "x">>>>>>]>>,
     !.res["limits.cpu"] = 500]

\* Every kind of volume that is backed by files, one ConfigMap mounted twice.
FilesPod ==
  [Bare EXCEPT
     !.volumes = <<Volume("conf", "configMap"), Volume("scratch", "emptyDir"),
                   [Volume("api", "projected") EXCEPT !.sources =
                      <<Projection("token"), Projection("configMap"),
                        [Projection("downward") EXCEPT !.items = <<Item("metadata.uid", "uid", "nil")>>]>>]>>,
     !.mounts = <<Mount("conf"), Mount("scratch"), Mount("api")>>]

\* A Secret whose file has mode m.
SecretPod(m) ==
  [Bare EXCEPT !.volumes = <<[Volume("key", "secret") EXCEPT !.items = <<Item("a", "id", m)>>]>>,
               !.mounts = <<Mount("key")>>, !.pullSecrets = <<"sec">>]

\* Pods that no node of this kind can run.
Unsupported ==
  {[Bare EXCEPT !.containers = 2], [Bare EXCEPT !.host = {"hostPID"}],
   [Bare EXCEPT !.csc.group = 7], [Bare EXCEPT !.psc.user = 0, !.psc.nonRoot = "true"],
   [Bare EXCEPT !.volumes = <<[Volume("h", "hostPath") EXCEPT !.path = <<"etc">>]>>],
   [Bare EXCEPT !.volumes = <<Volume("key", "secret")>>, !.mounts = <<[Mount("key") EXCEPT !.subPath = TRUE]>>],
   [Bare EXCEPT !.env = <<[Entry("x", "field") EXCEPT !.key = "status.podIP"]>>]}

ProbePod(ks, policy) == [Bare EXCEPT !.probes = [k \in Kinds |-> IF k \in ks THEN "ok" ELSE "none"], !.policy = policy]

MCPods ==
  Unsupported \cup
  {EnvPod, FilesPod, SecretPod("0440"), [Bare EXCEPT !.arm64 = FALSE],
   ProbePod({"startup", "liveness"}, "Never"), ProbePod({"startup", "liveness"}, "Always"),
   ProbePod({"startup", "readiness"}, "OnFailure"),
   [ProbePod({"readiness"}, "OnFailure") EXCEPT !.probes["startup"] = "other"]}

Probed(p) == Declared(p.probes) # {}

Maps    == {Absent, CM("v1"), Both}
Secrets == {Absent, Creds({}), Creds({[key |-> "docker.io", cred |-> "c"], [key |-> "ghcr.io", cred |-> "unusable"]})}

MCObjects(p) ==
  [cm  |-> IF p \in {EnvPod, FilesPod} THEN Maps ELSE {Absent},
   sec |-> IF p = EnvPod \/ p.pullSecrets # << >> THEN Secrets ELSE {Absent}]

MCLimits(p) ==
  CASE Probed(p) -> [uids |-> 1, edits |-> 0, faults |-> 1, flakes |-> 1]
    [] p = FilesPod -> [uids |-> 1, edits |-> 1, faults |-> 2, flakes |-> 0]
    [] OTHER -> [uids |-> 2, edits |-> 1, faults |-> 2, flakes |-> 0]

MCNames == {"", "p"} \X {"a", "b", "x", "y"}
MCPrefixes == {<<"data">>}
MCDNS == <<"10.0.0.10">>

\* One Pod at a time, for the runs about one of them.
ReadOnlyPods == {SecretPod("0400")}
UngatedPods  == {ProbePod({"readiness", "liveness"}, "Always")}
=============================================================================
