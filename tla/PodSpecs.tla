------------------------------ MODULE PodSpecs ------------------------------
(***************************************************************************)
(* translatePod and all it calls: which Pods this node can run, and the    *)
(* micro-VM spec, the mounts and the files it makes of one from the        *)
(* ConfigMaps and Secrets it finds in the informers' caches.  A Pod is     *)
(* its spec, abstracted: names, values and paths are opaque, an            *)
(* environment variable is named by the pair <<prefix, key>>, a literal    *)
(* value is a sequence of tokens (text, "$$" or a "$(VAR)" reference),     *)
(* every other value is a tuple, and a field that is not set is Unset (or  *)
(* "nil").                                                                 *)
(*                                                                         *)
(* A resolution that fails is "pending" (errConfigPending,                 *)
(* errSecretUnavailable: CreatePod is retried) or "unsupported" (any other *)
(* error: the Pod fails for good).                                         *)
(***************************************************************************)
EXTENDS Sequences, FiniteSetsExt

CONSTANTS
  ValidNames,     \* the variable names isEnvVarName accepts
  Root,           \* policy.Root: "unset", "relative" or "absolute"
  HostPrefixes,   \* policy.HostPathAllowedPrefixes, each a sequence of segments
  ClusterDNS,     \* cfg.ClusterDNS, a sequence of servers
  HasTokens       \* whether the node has a TokenRequester

Unset  == -1
Absent == [found |-> FALSE, data |-> << >>, bin |-> << >>, auths |-> {}]

Got(v)    == [err |-> "ok", val |-> v]
Failed(e) == [err |-> e, val |-> << >>]

\* Op(v), for a v that is computed once.
With(v, Op(_)) == CHOOSE r \in {Op(x) : x \in {v}} : TRUE

Each(seq, Op(_)) == [i \in DOMAIN seq |-> Op(seq[i])]

\* Op(... Op(Op(base, seq[1]), seq[2]) ..., seq[n]).
FoldUp(Op(_, _), base, seq) ==
  MapThenFoldSet(LAMBDA x, acc : Op(acc, x), base, LAMBDA i : seq[i], Max, DOMAIN seq)

Concat(seqs) == FoldUp(LAMBDA all, seq : all \o seq, << >>, seqs)
Listed(S)    == CHOOSE seq \in [1..Cardinality(S) -> S] : IsInjective(seq)

\* The error of the first that fails, or all their values.
Gather(results) ==
  With(results, LAMBDA rs :
    LET bad == {i \in DOMAIN rs : rs[i].err # "ok"} IN
    IF bad # {} THEN Failed(rs[Min(bad)].err) ELSE Got([i \in DOMAIN rs |-> rs[i].val]))

\* The same, the values being sequences that are put together.
Chain(results) ==
  With(Gather(results), LAMBDA all : IF all.err # "ok" THEN all ELSE Got(Concat(all.val)))

-----------------------------------------------------------------------------
(* Which Pods are supported (unsupportedReasons, securityContextReasons).  *)

effective(pod, f, nil) == IF pod.csc[f] # nil THEN pod.csc[f] ELSE pod.psc[f]
effectiveRunAsUser(pod)    == effective(pod, "user", Unset)
effectiveRunAsGroup(pod)   == effective(pod, "group", Unset)
effectiveRunAsNonRoot(pod) == effective(pod, "nonRoot", "nil")

profileSupported(p) == p # "Localhost"

securityContextReasons(pod) ==
  IF pod.containers = 0 THEN {} ELSE
  {r \in {"sysctls", "seLinux", "windows"} : r \in pod.psc.rejected \cup pod.csc.rejected}
    \cup {r \in {"privileged", "procMount"} : r \in pod.csc.rejected}
    \cup {r \in {"profile"} : ~profileSupported(pod.psc.profile) \/ ~profileSupported(pod.csc.profile)}
    \cup {r \in {"group without user"} :
            effectiveRunAsGroup(pod) # Unset /\ effectiveRunAsUser(pod) = Unset}
    \cup {r \in {"non-root root"} : effectiveRunAsNonRoot(pod) = "true" /\ effectiveRunAsUser(pod) = 0}

unsupportedReasons(pod) ==
  {r \in {"containers"} : pod.containers # 1}
    \cup {r \in {"init", "ephemeral"} : r \in pod.extra}
    \cup {r \in {"restartPolicy"} : pod.policy \notin {"", "Always", "OnFailure", "Never"}}
    \cup securityContextReasons(pod)
    \cup {r \in {"hostNetwork", "hostPID", "hostIPC"} : r \in pod.host}

-----------------------------------------------------------------------------
(* ConfigMaps and Secrets as files.                                        *)

\* getConfigMap and loadSecret: what is missing is waited for, unless optional.
Fetch(objects, ref) ==
  IF objects[ref.obj].found \/ ref.optional THEN Got(objects[ref.obj]) ELSE Failed("pending")

getConfigMap(seen, ref) == Fetch(seen.cms, ref)
loadSecret(seen, ref)   == Fetch(seen.secs, ref)

\* safeJoinUnderRoot refuses a path that leaves the volume's directory.
File(path, data, mode) ==
  IF path = ".." THEN Failed("unsupported") ELSE Got(<<[path |-> path, data |-> data, mode |-> mode]>>)

fileMode(item, mode) == IF item.mode # "nil" THEN item.mode ELSE mode

ItemFile(src, o, item, mode) ==
  CASE item.key \in DOMAIN o.data -> File(item.path, o.data[item.key], fileMode(item, mode))
    [] item.key \in DOMAIN o.bin \ DOMAIN o.data -> File(item.path, o.bin[item.key], fileMode(item, mode))
    [] OTHER -> IF src.optional THEN Got(<< >>) ELSE Failed("pending")

\* The files of one source: its items, or every key of its data and, for a
\* ConfigMap volume, of its binaryData.
KeyFiles(src, got, mode, binaryToo) ==
  LET o == got.val IN
  IF got.err # "ok" THEN got
  ELSE IF ~o.found THEN Got(<< >>)
  ELSE IF src.items # << >> THEN Chain(Each(src.items, LAMBDA it : ItemFile(src, o, it, mode)))
  ELSE Chain(Each(Listed(DOMAIN o.data), LAMBDA k : File(k, o.data[k], mode))
               \o Each(Listed(IF binaryToo THEN DOMAIN o.bin ELSE {}), LAMBDA k : File(k, o.bin[k], mode)))

defaultMode(vol) == IF vol.mode # "nil" THEN vol.mode ELSE "0644"

configMapVolumeFiles(seen, vol) == KeyFiles(vol, getConfigMap(seen, vol), defaultMode(vol), TRUE)
secretVolumeFiles(seen, vol)    == KeyFiles(vol, loadSecret(seen, vol), defaultMode(vol), FALSE)
projectedConfigMapFiles(seen, src, mode) == KeyFiles(src, getConfigMap(seen, src), mode, FALSE)
projectedSecretFiles(seen, src, mode)    == KeyFiles(src, loadSecret(seen, src), mode, FALSE)

\* The paths known when a Pod is translated (its status is not): the UID, and
\* the ones that stay the same when a Pod is recreated, which stand for their
\* own values.
StablePaths == {"metadata.name", "metadata.namespace", "spec.nodeName",
                "spec.serviceAccountName", "metadata.labels", "metadata.annotations"}
resolveFieldRef(uid, path) ==
  CASE path = "metadata.uid"   -> Got(<<path, uid>>)
    [] path \in StablePaths -> Got(<<path>>)
    [] OTHER -> Failed("unsupported")

projectedDownwardFiles(uid, src, mode) ==
  Chain(Each(src.items, LAMBDA it :
    LET v == resolveFieldRef(uid, it.key) IN
    IF v.err # "ok" THEN v ELSE File(it.path, v.val, fileMode(it, mode))))

\* seen.token is the answer of the TokenRequest made now: a token bound to the
\* Pod, or an error, which is waited out.
RequestToken(seen, uid) == IF seen.token THEN Got(<<"token", uid>>) ELSE Failed("pending")

projectedVolumeFiles(uid, seen, vol) ==
  LET mode == defaultMode(vol)
      Source(src) ==
        CASE src.kind = "token" /\ ~HasTokens -> Failed("unsupported")
          [] src.kind = "token" /\ HasTokens ->
               LET t == RequestToken(seen, uid) IN IF t.err # "ok" THEN t ELSE File("token", t.val, mode)
          [] src.kind = "configMap" -> projectedConfigMapFiles(seen, src, mode)
          [] src.kind = "secret"    -> projectedSecretFiles(seen, src, mode)
          [] src.kind = "downward"  -> projectedDownwardFiles(uid, src, mode)
          [] OTHER -> Got(<< >>)
  IN Chain(Each(vol.sources, Source))

-----------------------------------------------------------------------------
(* Volumes and mounts.                                                     *)

isDefaultProjectedToken(v) == v.api \/ \E i \in DOMAIN v.sources : v.sources[i].kind = "token"

withinAllowedPrefix(path) == \E p \in HostPrefixes : Len(p) <= Len(path) /\ SubSeq(path, 1, Len(p)) = p

validateVolumeSource(v) ==
  CASE v.kind = "hostPath" -> withinAllowedPrefix(v.path) /\ v.type \in {"", "Directory", "DirectoryOrCreate"}
    [] v.kind \in {"emptyDir", "configMap", "secret", "projected"} -> Root = "absolute"
    [] OTHER -> FALSE

\* resolveMount: the mount, the directory that backs it ("" for none, the
\* volume's name under the Pod's own otherwise) and the files in it, which do
\* not depend on the mount.
VolumeFiles(uid, seen, vol) ==
  CASE vol.kind = "configMap" -> configMapVolumeFiles(seen, vol)
    [] vol.kind = "secret"    -> secretVolumeFiles(seen, vol)
    [] vol.kind = "projected" -> projectedVolumeFiles(uid, seen, vol)
    [] OTHER -> Got(<< >>)

resolveMount(uid, seen, vol, vm) ==
  LET backed == vol.kind # "hostPath" /\ ~(vol.kind = "emptyDir" /\ vol.medium = "Memory")
  IN IF vm.subPath \/ vm.target = "relative" THEN Failed("unsupported")
     ELSE With(VolumeFiles(uid, seen, vol), LAMBDA r :
       IF r.err # "ok" THEN r
       ELSE Got([target |-> vm.target, dir |-> IF backed THEN vm.volume ELSE "",
                 readOnly |-> \/ vol.kind \in {"configMap", "secret", "projected"}
                              \/ vm.readOnly /\ (backed \/ vol.kind = "hostPath"),
                 files |-> r.val]))

\* A token volume on a node without an issuer, and so its mount, is passed over,
\* like a mount of no volume; of two volumes of one name the last counts.
takenVolumes(pod) == SelectSeq(pod.volumes, LAMBDA v : HasTokens \/ ~isDefaultProjectedToken(v))
byName(pod) ==
  LET vs == takenVolumes(pod) IN
  [n \in {vs[i].name : i \in DOMAIN vs} |-> vs[Max({i \in DOMAIN vs : vs[i].name = n})]]
takenMounts(pod) == {i \in DOMAIN pod.mounts : pod.mounts[i].volume \in DOMAIN byName(pod)}

\* Every declared volume is validated, mounted or not.  A mount keeps its place
\* in the Pod's list.
resolveVolumes(pod, uid, seen) ==
  IF \E i \in DOMAIN takenVolumes(pod) : ~validateVolumeSource(takenVolumes(pod)[i]) THEN Failed("unsupported")
  ELSE Gather([i \in takenMounts(pod) |->
                 resolveMount(uid, seen, byName(pod)[pod.mounts[i].volume], pod.mounts[i])])

-----------------------------------------------------------------------------
(* The environment.                                                        *)

Text(v) == <<<<"text", v>>>>

Assign(env, name, val) == [n \in DOMAIN env \cup {name} |-> IF n = name THEN val ELSE env[n]]

\* Faulty: an unknown reference becomes empty.
expandEnvDropping(value, env) ==
  Concat(Each(value, LAMBDA t :
    CASE t[1] = "ref" -> IF t[2] \in DOMAIN env THEN env[t[2]] ELSE << >>
      [] t[1] = "esc" -> Text(<<"$">>)
      [] OTHER -> <<t>>))

\* Later references see what is resolved so far; "$$" is a literal dollar and an
\* unknown reference stays as it is written.
expandEnv(value, env) ==
  Concat(Each(value, LAMBDA t :
    CASE t[1] = "ref" /\ t[2] \in DOMAIN env -> env[t[2]]
      [] t[1] = "esc" -> Text(<<"$">>)
      [] OTHER -> <<t>>))

\* A quantity over its divisor, rounded up: CPU in thousandths, the rest whole.
Ceil(a, b) == (a + b - 1) \div b
divideCPU(milli, divisor)   == Ceil(milli, IF divisor = 0 THEN 1000 ELSE divisor)
divideBytes(bytes, divisor) == Ceil(bytes, IF divisor = 0 THEN 1 ELSE divisor)
resolveResourceFieldRef(pod, e) ==
  LET q == IF pod.res[e.key] = Unset THEN 0 ELSE pod.res[e.key] IN
  IF e.key \notin DOMAIN pod.res THEN Failed("unsupported")
  ELSE IF e.key \in {"limits.cpu", "requests.cpu"} THEN Got(<<<<"number", divideCPU(q, e.divisor)>>>>)
  ELSE Got(<<<<"number", divideBytes(q, e.divisor)>>>>)

\* addEnvFromKey for every key of a source's data.
addEnvFromKeys(env, prefix, data) ==
  LET names == {<<prefix, k>> : k \in DOMAIN data} \cap ValidNames IN
  [n \in DOMAIN env \cup names |-> IF n \in names THEN Text(data[n[2]]) ELSE env[n]]

\* One step of resolveEnv: before is the environment so far, or has failed.
EnvFromStep(seen, before, ef) ==
  With(before, LAMBDA acc :
    LET got == IF ef.kind = "configMap" THEN getConfigMap(seen, ef) ELSE loadSecret(seen, ef) IN
    IF acc.err # "ok" THEN acc ELSE IF got.err # "ok" THEN got
    ELSE Got(addEnvFromKeys(acc.val, ef.prefix, got.val.data)))

\* Faulty: waits for a key that is optional, too.
KeyRefRequired(e, got) ==
  IF got.err # "ok" THEN got
  ELSE IF e.key \in DOMAIN got.val.data THEN Got(Text(got.val.data[e.key])) ELSE Failed("pending")

KeyRef(e, got) ==
  IF got.err # "ok" THEN got
  ELSE IF e.key \in DOMAIN got.val.data THEN Got(Text(got.val.data[e.key]))
  ELSE IF e.optional THEN Failed("skip") ELSE Failed("pending")

\* The value of an entry, in the environment of those above it.
EntryValue(pod, uid, seen, env, e) ==
  CASE e.kind = "value"     -> Got(expandEnv(e.value, env))
    [] e.kind = "field"     -> LET f == resolveFieldRef(uid, e.key) IN
                               IF f.err = "ok" THEN Got(Text(f.val)) ELSE f
    [] e.kind = "resource"  -> resolveResourceFieldRef(pod, e)
    [] e.kind = "configMap" -> KeyRef(e, getConfigMap(seen, e))
    [] e.kind = "secret"    -> KeyRef(e, loadSecret(seen, e))

EnvStep(pod, uid, seen, before, e) ==
  With(before, LAMBDA acc :
    LET v == EntryValue(pod, uid, seen, acc.val, e) IN
    CASE acc.err # "ok" -> acc
      [] acc.err = "ok" /\ v.err = "ok"   -> Got(Assign(acc.val, e.name, v.val))
      [] acc.err = "ok" /\ v.err = "skip" -> acc
      [] OTHER -> v)

\* The environment after so many of envFrom's sources, and then of env's entries.
AfterSources(pod, seen) ==
  LET after[i \in 0..Len(pod.envFrom)] ==
        IF i = 0 THEN Got(<< >>) ELSE EnvFromStep(seen, after[i - 1], pod.envFrom[i])
  IN after
AfterEntries(pod, uid, seen) ==
  LET after[i \in 0..Len(pod.env)] ==
        IF i = 0 THEN AfterSources(pod, seen)[Len(pod.envFrom)]
        ELSE EnvStep(pod, uid, seen, after[i - 1], pod.env[i])
  IN after

resolveEnv(pod, uid, seen) == AfterEntries(pod, uid, seen)[Len(pod.env)]

-----------------------------------------------------------------------------
(* Name servers, and the translation as a whole.                           *)

dedupeAppend(base, extra) == FoldUp(LAMBDA b, e : IF e \in Range(b) THEN b ELSE Append(b, e), base, extra)

resolveDNS(pod) ==
  CASE pod.dnsPolicy = "None"    -> pod.dnsConfig
    [] pod.dnsPolicy = "Default" -> << >>
    [] OTHER -> IF ClusterDNS = << >> THEN << >> ELSE dedupeAppend(ClusterDNS, pod.dnsConfig)

resourceQuantity(pod, limit, request) == IF pod.res[limit] # Unset THEN pod.res[limit] ELSE pod.res[request]

\* translateContainer and applySecurityContext.
translateContainer(pod, env, mounts) ==
  [env    |-> env, mounts |-> mounts, dns |-> resolveDNS(pod), 
   cpu    |-> resourceQuantity(pod, "limits.cpu", "requests.cpu"),
   memory |-> resourceQuantity(pod, "limits.memory", "requests.memory"),
   user   |-> effectiveRunAsUser(pod),
   group  |-> IF effectiveRunAsUser(pod) # Unset THEN effectiveRunAsGroup(pod) ELSE Unset,
   readOnlyRoot |-> pod.csc.readOnlyRoot]

translatePod(pod, uid, seen) ==
  IF unsupportedReasons(pod) # {} THEN Failed("unsupported")
  ELSE With(<<resolveVolumes(pod, uid, seen), resolveEnv(pod, uid, seen)>>, LAMBDA r :
         CASE r[1].err # "ok" -> r[1]
           [] r[1].err = "ok" /\ r[2].err # "ok" -> r[2]
           [] OTHER -> Got(translateContainer(pod, r[2].val, r[1].val)))

-----------------------------------------------------------------------------
(* imagePullSecrets.                                                       *)

dockerHub == {"docker.io", "index.docker.io", "registry-1.docker.io"}
registryMatches(host, key) == host = key \/ {host, key} \subseteq dockerHub

\* The answers one Secret may give: its entries are in a Go map, and the first
\* match in the order of the iteration decides.
credentialsFor(auths, host) ==
  LET hits == {a \in auths : registryMatches(host, a.key)} IN
  IF hits = {} THEN {Got("none")} ELSE {IF a.cred = "unusable" THEN Failed("retry") ELSE Got(a.cred) : a \in hits}

\* The answers of resolvePullAuth: the first Secret with a match, in the order
\* of the Pod; a missing or malformed one before it is an error.
PullAuthStep(seen, host, acc, ref) ==
  IF acc # {Got("none")} THEN acc
  ELSE IF ~seen.secs[ref].found \/ seen.secs[ref].auths = {} THEN {Failed("retry")}
  ELSE credentialsFor(seen.secs[ref].auths, host)

resolvePullAuth(pod, seen) ==
  FoldUp(LAMBDA acc, ref : PullAuthStep(seen, pod.registry, acc, ref), {Got("none")}, pod.pullSecrets)
=============================================================================
