----------------------------- MODULE PodProbes -----------------------------
(***************************************************************************)
(* The probers of a Pod's container: one goroutine per declared probe,     *)
(* which counts the results of its own attempts and acts, under the        *)
(* provider's lock, on whatever Pod is then stored under its key.  An      *)
(* attempt and the action on its result are two steps: the probers may be  *)
(* cancelled, the micro-VM replaced and new probers started in between.    *)
(* A generation is one call of startProbes (its number is used again when  *)
(* none of its probers is left); time is abstracted to the order of the    *)
(* attempts.                                                               *)
(***************************************************************************)
EXTENDS Integers, FiniteSets

CONSTANTS
  FailureThreshold, SuccessThreshold,   \* of the probes; the second is readiness's
  MaxGen      \* a prober may act on after being cancelled while up to MaxGen generations have one

VARIABLES
  probes,     \* st.probes of the tracked Pod, or NoProbes (nil)
  probers,    \* the running goroutines: <<generation, kind>> -> its loop's state
  passed,     \* ghost: the kinds whose last verdict, by a prober of the current generation, is good
  late        \* ghost: a cancelled prober's verdict reached the current generation

probeVars == <<probes, probers, passed, late>>

Kinds    == {"startup", "readiness", "liveness"}
NoProbes == [gen |-> 0, has |-> {}, startupDone |-> FALSE, ready |-> FALSE]

\* How a container declares a probe: "none", "ok", or "other" (a handler that
\* probeHandler does not know).
Declared(c) == {k \in Kinds : c[k] # "none"}

Fresh == [at |-> "sleep", ok |-> FALSE, successes |-> 0, failures |-> 0]

\* The context of a generation is cancelled by stopProbes, which clears probes too.
Live(g) == probes.gen = g

Without(f, x) == [y \in DOMAIN f \ {x} |-> f[y]]

\* Faulty: a container counts as ready until a probe fails.
startProbesReady(c) ==
  IF Declared(c) = {} THEN UNCHANGED probeVars
  ELSE \E g \in 1..MaxGen :
       /\ g \notin {x[1] : x \in DOMAIN probers}
       /\ \A h \in 1..(g - 1) : h \in {x[1] : x \in DOMAIN probers}
       /\ probes' = [gen |-> g, has |-> Declared(c), ready |-> TRUE,
                     startupDone |-> c["startup"] # "ok"]
       /\ probers' = [x \in DOMAIN probers \cup {<<g, k>> : k \in {k \in Kinds : c[k] = "ok"}} |->
                        IF x \in DOMAIN probers THEN probers[x] ELSE Fresh]
       /\ passed' = {} /\ late' = FALSE

\* startProbes, with the first step of the probers that have no handler: a
\* startup probe counts as done, the others never run.
startProbes(c) ==
  IF Declared(c) = {} THEN UNCHANGED probeVars
  ELSE \E g \in 1..MaxGen :
       /\ g \notin {x[1] : x \in DOMAIN probers}
       /\ \A h \in 1..(g - 1) : h \in {x[1] : x \in DOMAIN probers}
       /\ probes' = [gen |-> g, has |-> Declared(c), ready |-> FALSE,
                     startupDone |-> c["startup"] # "ok"]
       /\ probers' = [x \in DOMAIN probers \cup {<<g, k>> : k \in {k \in Kinds : c[k] = "ok"}} |->
                        IF x \in DOMAIN probers THEN probers[x] ELSE Fresh]
       /\ passed' = {} /\ late' = FALSE

stopProbes ==
  /\ probes' = NoProbes
  /\ passed' = {} /\ late' = FALSE
  /\ UNCHANGED probers

-----------------------------------------------------------------------------
(* runProbe.                                                               *)

hasStartupProbe == "startup" \in probes.has
startupDone     == probes = NoProbes \/ probes.startupDone

\* A cancelled prober leaves when it sleeps.
Leave(g, k) ==
  /\ <<g, k>> \in DOMAIN probers /\ probers[<<g, k>>].at = "sleep"
  /\ ~Live(g)
  /\ probers' = Without(probers, <<g, k>>)
  /\ UNCHANGED <<probes, passed, late>>

\* It wakes up, finds the startup probe done, and the handler answers.
Attempt(g, k, ok) ==
  /\ <<g, k>> \in DOMAIN probers /\ probers[<<g, k>>].at = "sleep"
  /\ Live(g)
  /\ k # "startup" /\ hasStartupProbe => startupDone
  /\ probers' = [probers EXCEPT ![<<g, k>>].at = "answered", ![<<g, k>>].ok = ok]
  /\ UNCHANGED <<probes, passed, late>>

Threshold(k) == IF k = "readiness" THEN SuccessThreshold ELSE 1
Capped(n, max) == IF n < max THEN n + 1 ELSE max

\* Faulty: every answer resets the count of failures.
CountedAfresh(p, k, ok) ==
  [at |-> "sleep", ok |-> FALSE, failures |-> 0,
   successes |-> IF ok THEN Capped(p.successes, Threshold(k)) ELSE 0]

\* The counters after an answer (an answer cut off by the cancellation is an error).
Counted(p, k, ok) ==
  [at |-> "sleep", ok |-> FALSE,
   successes |-> IF ok THEN Capped(p.successes, Threshold(k)) ELSE 0,
   failures  |-> IF ok THEN 0 ELSE Capped(p.failures, FailureThreshold)]

Verdict(c, k) ==
  CASE c.successes >= Threshold(k) -> "good"
    [] c.failures >= FailureThreshold -> "bad"
    [] OTHER -> "none"

Answers(g, k) ==
  IF <<g, k>> \notin DOMAIN probers \/ probers[<<g, k>>].at # "answered" THEN {}
  ELSE {probers[<<g, k>>].ok} \cup {b \in {FALSE} : ~Live(g)}

\* What the verdict does to the state stored under the Pod's key: setStartupDone
\* and setReady, which find whatever probeState is there now.
Recorded(k, v) ==
  IF probes = NoProbes THEN probes
  ELSE CASE k = "startup" /\ v = "good"   -> [probes EXCEPT !.startupDone = TRUE]
         [] k = "readiness" /\ v # "none" -> [probes EXCEPT !.ready = (v = "good")]
         [] OTHER -> probes

\* A startup or liveness prober that reached its failure threshold calls failProbe.
Fails(k, v) == k # "readiness" /\ v = "bad"

\* The prober acts on an answer, and ends or sleeps again.
Act(g, k, ok) ==
  LET c == Counted(probers[<<g, k>>], k, ok)
      v == Verdict(c, k)
  IN /\ ~Fails(k, v)
     /\ probes' = Recorded(k, v)
     /\ probers' = IF k = "startup" /\ v = "good" THEN Without(probers, <<g, k>>)
                   ELSE [probers EXCEPT ![<<g, k>>] = c]
     /\ passed' = CASE Live(g) /\ v = "good" -> passed \cup {k}
                    [] Live(g) /\ v = "bad"  -> passed \ {k}
                    [] OTHER -> passed
     /\ late' = (late \/ (~Live(g) /\ probes' # probes))

\* The prober whose answer makes failProbe run; it ends there.
Condemns(g, k, ok) ==
  Fails(k, Verdict(Counted(probers[<<g, k>>], k, ok), k))

\* probeReadiness, for a Pod whose phase is Running.
started == startupDone \/ ~hasStartupProbe
probeReadiness ==
  CASE probes = NoProbes -> TRUE
    [] probes # NoProbes /\ ~started -> FALSE
    [] probes # NoProbes /\ started  -> "readiness" \in probes.has => probes.ready

probeInit ==
  /\ probes = NoProbes
  /\ probers = [x \in {} |-> Fresh]
  /\ passed = {} /\ late = FALSE
=============================================================================
