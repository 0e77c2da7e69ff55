---------------------------- MODULE HelperDaemon ----------------------------
(***************************************************************************)
(* The life of macvz-netd itself: its install, load, unload and uninstall  *)
(* commands (privhelper.Installer), the job launchd keeps alive, and the   *)
(* server processes, which share one socket path.  A server can also be    *)
(* started by hand, in the foreground.  Commands can fail half way, or be  *)
(* interrupted; servers can be killed; the config file can turn bad.       *)
(* Each install is run from a build of its own, with the default socket.   *)
(***************************************************************************)
EXTENDS Naturals, Sequences

CONSTANTS MaxCommands, MaxFaults, MaxEdits, MaxHand   \* bounds; MaxHand: foreground servers

ASSUME BoundsAreNaturals == {MaxCommands, MaxFaults, MaxEdits, MaxHand} \subseteq Nat

NoFile == 0            \* builds and plists are numbered by the install that wrote them
Torn   == MaxCommands + 1   \* a plist whose writing was cut short
NoJob  == 0
NoCmd  == <<>>
Off    == [st |-> "off", build |-> NoFile]

VARIABLES binary,    \* the build at BinaryPath
          plist,     \* the install that wrote PlistPath
          rotation,  \* the newsyslog drop-in is there
          job,       \* the plist launchd has bootstrapped
          proc,      \* proc[w]: the server process launchd ("job") or a shell ("hand") started
          socket,    \* who bound the file at SocketPath: "job", "hand", "dead" or "none"
          robbed,    \* history: the job's server lost its socket file while serving
          configOK,  \* config.Load accepts the file the servers are given
          cmd,       \* the steps the command at work has left
          op, n,     \* the last command, and how many there have been
          bootout,   \* history: its bootout failed although the job was loaded
          result,    \* "none" while it runs, then "ok" or "error"
          faults, edits, hands

files == <<binary, plist, rotation>>
cmdVars == <<cmd, op, n, bootout, result>>
vars == <<files, job, proc, socket, robbed, configOK, cmdVars, faults, edits, hands>>

Who == {"job", "hand"}

TypeOK ==
  /\ binary \in 0 .. MaxCommands /\ plist \in 0 .. Torn /\ job \in 0 .. MaxCommands
  /\ proc \in [Who -> [st : {"off", "begun", "bound", "serving", "closing"}, build : 0 .. MaxCommands]]
  /\ socket \in Who \cup {"dead", "none"}
  /\ {rotation, robbed, configOK, bootout} \subseteq BOOLEAN
  /\ op \in {"none", "install", "load", "unload", "uninstall"} /\ result \in {"none", "ok", "error"}

-----------------------------------------------------------------------------
(* The commands, one file or one launchctl call at a time.                 *)

\* Faulty: the job is replaced before the new binary is in place.
ScriptCopiesLast == [install   |-> <<"plist", "rotation", "replace", "bootstrap", "copy">>,
                     load      |-> <<"stat", "bootstrap">>,
                     unload    |-> <<"bootout">>,
                     uninstall |-> <<"replace", "rmPlist", "rmBinary", "rmSocket", "rmRotation">>]

Script == [install   |-> <<"copy", "plist", "rotation", "replace", "bootstrap">>,
           load      |-> <<"stat", "bootstrap">>,
           unload    |-> <<"bootout">>,
           uninstall |-> <<"replace", "rmPlist", "rmBinary", "rmSocket", "rmRotation">>]

Begin(o) ==
  /\ cmd = NoCmd /\ n < MaxCommands
  /\ cmd' = Script[o] /\ op' = o /\ n' = n + 1 /\ bootout' = FALSE /\ result' = "none"
  /\ UNCHANGED <<files, job, proc, socket, robbed, configOK, faults, edits, hands>>

Fault(ok) == faults' = (IF ok THEN faults ELSE faults + 1) /\ faults' <= MaxFaults

\* The next step of the command is s.
At(s) == cmd # NoCmd /\ Head(cmd) = s

\* The step is over; the command goes on, unless it was the last.
Proceed ==
  /\ cmd' = Tail(cmd)
  /\ result' = IF Len(cmd) > 1 THEN "none" ELSE IF result = "error" THEN "error" ELSE "ok"
  /\ UNCHANGED <<op, n>>

Return == cmd' = NoCmd /\ result' = "error" /\ UNCHANGED <<op, n>>

\* copyExecutable writes a temporary file and renames it.
Copy(ok) ==
  /\ At("copy") /\ Fault(ok)
  /\ binary' = IF ok THEN n ELSE binary
  /\ IF ok THEN Proceed ELSE Return
  /\ UNCHANGED <<plist, rotation, job, proc, socket, robbed, configOK, bootout, edits, hands>>

\* Its directory is made first, and os.WriteFile truncates.
WritePlist(ok) ==
  /\ At("plist") /\ Fault(ok)
  /\ plist' \in IF ok THEN {n} ELSE {plist, Torn}
  /\ IF ok THEN Proceed ELSE Return
  /\ UNCHANGED <<binary, rotation, job, proc, socket, robbed, configOK, bootout, edits, hands>>

WriteRotation(ok) ==
  /\ At("rotation") /\ Fault(ok)
  /\ rotation' \in IF ok THEN {TRUE} ELSE {rotation, TRUE}
  /\ IF ok THEN Proceed ELSE Return
  /\ UNCHANGED <<binary, plist, job, proc, socket, robbed, configOK, bootout, edits, hands>>

\* Load looks for the plist first.
StatPlist ==
  /\ At("stat")
  /\ IF plist # NoFile THEN Proceed ELSE Return
  /\ UNCHANGED <<files, job, proc, socket, robbed, configOK, bootout, faults, edits, hands>>

\* SIGTERM: only a server that has come to signal.NotifyContext closes.
Signalled(p) == IF p.st \in {"serving", "closing"} THEN [p EXCEPT !.st = "closing"] ELSE Off

\* launchctl bootout fails when the job is not loaded, or for reasons of its
\* own; Install and Uninstall ignore that, Unload reports it.
Unload(ok) ==
  /\ At("bootout") \/ At("replace")
  /\ Fault(ok \/ job = NoJob) /\ (ok => job # NoJob)
  /\ bootout' = (~ok /\ job # NoJob)
  /\ IF ok THEN /\ job' = NoJob /\ proc' = [proc EXCEPT !["job"] = Signalled(@)]
                /\ socket' = IF proc["job"].st = "bound" /\ socket = "job" THEN "dead" ELSE socket
           ELSE UNCHANGED <<job, proc, socket>>
  /\ IF ok \/ At("replace") THEN Proceed ELSE Return
  /\ UNCHANGED <<files, robbed, configOK, edits, hands>>

\* launchctl bootstrap: refused while the job, or its last process, is there.
Load(ok) ==
  LET able == plist \in 1 .. MaxCommands /\ job = NoJob /\ proc["job"] = Off
  IN  /\ At("bootstrap") /\ (ok => able)
      /\ Fault(ok \/ ~able)
      /\ job' = IF ok THEN plist ELSE job
      /\ IF ok THEN Proceed ELSE Return
      /\ UNCHANGED <<files, proc, socket, robbed, configOK, bootout, edits, hands>>

\* Uninstall goes on to the next file when one cannot be removed.
Keep(ok) ==
  /\ Fault(ok)
  /\ cmd' = Tail(cmd)
  /\ result' = IF Len(cmd) > 1 THEN (IF ok THEN result ELSE "error")
               ELSE IF ok /\ result # "error" THEN "ok" ELSE "error"
  /\ UNCHANGED <<op, n, bootout, job, proc, configOK, edits, hands>>

\* Faulty: Uninstall counts on Close to have removed the socket.
RemoveSocketTrusts(ok) ==
  /\ At("rmSocket") /\ Keep(ok)
  /\ UNCHANGED <<files, socket, robbed>>

RemoveSocket(ok) ==
  /\ At("rmSocket") /\ Keep(ok)
  /\ socket' = IF ok THEN "none" ELSE socket
  /\ robbed' = (robbed \/ (ok /\ socket = "job"))
  /\ UNCHANGED files

RemoveFile(ok) ==
  /\ At("rmPlist") \/ At("rmBinary") \/ At("rmRotation")
  /\ Keep(ok)
  /\ plist'    = IF ok /\ At("rmPlist") THEN NoFile ELSE plist
  /\ binary'   = IF ok /\ At("rmBinary") THEN NoFile ELSE binary
  /\ rotation' = (rotation /\ ~(ok /\ At("rmRotation")))
  /\ UNCHANGED <<socket, robbed>>

\* The command is killed between two of its steps.
Interrupt ==
  /\ cmd # NoCmd /\ faults < MaxFaults /\ faults' = faults + 1
  /\ Return
  /\ UNCHANGED <<files, job, proc, socket, robbed, configOK, bootout, edits, hands>>

-----------------------------------------------------------------------------
(* The servers.                                                            *)

\* RunAtLoad and KeepAlive: launchd starts what is at BinaryPath.
Spawn ==
  /\ job # NoJob /\ proc["job"] = Off /\ binary # NoFile
  /\ proc' = [proc EXCEPT !["job"] = [st |-> "begun", build |-> binary]]
  /\ UNCHANGED <<files, job, socket, robbed, configOK, cmdVars, faults, edits, hands>>

\* sudo macvz-netd serve
ServeByHand ==
  /\ hands < MaxHand /\ hands' = hands + 1 /\ proc["hand"] = Off
  /\ proc' = [proc EXCEPT !["hand"] = [st |-> "begun", build |-> NoFile]]
  /\ UNCHANGED <<files, job, socket, robbed, configOK, cmdVars, faults, edits>>

\* Faulty: Listen does not remove what is at the path.
ListenKeepsStale(w, ok) ==
  LET able == configOK /\ socket = "none"
  IN  /\ proc[w].st = "begun" /\ (ok => able) /\ Fault(ok \/ ~able)
      /\ IF ok THEN proc' = [proc EXCEPT ![w].st = "bound"] /\ socket' = w
               ELSE proc' = [proc EXCEPT ![w] = Off] /\ UNCHANGED socket
      /\ UNCHANGED <<files, job, robbed, configOK, cmdVars, edits, hands>>

\* helperServer loads the policy and refuses to start without one; Listen
\* removes what is at the path, whoever bound it, and binds it.
Listen(w, ok) ==
  /\ proc[w].st = "begun"
  /\ (ok => configOK) /\ Fault(ok \/ ~configOK)
  /\ IF ok THEN /\ proc' = [proc EXCEPT ![w].st = "bound"] /\ socket' = w
                /\ robbed' = IF w = "job" THEN FALSE ELSE robbed \/ socket = "job"
           ELSE /\ proc' = [proc EXCEPT ![w] = Off]
                /\ socket' \in (IF configOK THEN {"none", socket} ELSE {socket})
                /\ robbed' = (robbed \/ (socket' # socket /\ socket = "job" /\ w # "job"))
  /\ UNCHANGED <<files, job, configOK, cmdVars, edits, hands>>

\* NotifyContext, and Serve accepts.
Serve(w) ==
  /\ proc[w].st = "bound" /\ proc' = [proc EXCEPT ![w].st = "serving"]
  /\ UNCHANGED <<files, job, socket, robbed, configOK, cmdVars, faults, edits, hands>>

\* The foreground server is stopped with SIGINT.
Stop ==
  /\ proc["hand"] # Off /\ proc' = [proc EXCEPT !["hand"] = Signalled(@)]
  /\ socket' = IF proc["hand"].st = "bound" /\ socket = "hand" THEN "dead" ELSE socket
  /\ UNCHANGED <<files, job, robbed, configOK, cmdVars, faults, edits, hands>>

\* Close unlinks the path, whoever bound it.
Close(w) ==
  /\ proc[w].st = "closing" /\ proc' = [proc EXCEPT ![w] = Off]
  /\ socket' = "none" /\ robbed' = (robbed \/ (w # "job" /\ socket = "job"))
  /\ UNCHANGED <<files, job, configOK, cmdVars, faults, edits, hands>>

\* A server dies; the file it bound stays.
Killed(w) ==
  /\ proc[w] # Off /\ proc' = [proc EXCEPT ![w] = Off]
  /\ faults < MaxFaults /\ faults' = faults + 1
  /\ socket' = IF socket = w THEN "dead" ELSE socket
  /\ UNCHANGED <<files, job, robbed, configOK, cmdVars, edits, hands>>

\* The operator edits the config file: load fails, or succeeds again.
EditConfig ==
  /\ edits < MaxEdits /\ edits' = edits + 1 /\ configOK' = ~configOK
  /\ UNCHANGED <<files, job, proc, socket, robbed, cmdVars, faults, hands>>

-----------------------------------------------------------------------------
Init ==
  /\ binary = NoFile /\ plist = NoFile /\ rotation = FALSE /\ job = NoJob
  /\ proc = [w \in Who |-> Off] /\ socket = "none" /\ robbed = FALSE /\ configOK \in BOOLEAN
  /\ cmd = NoCmd /\ op = "none" /\ n = 0 /\ bootout = FALSE /\ result = "ok"
  /\ faults = 0 /\ edits = 0 /\ hands = 0

Next ==
  \/ \E o \in DOMAIN Script : Begin(o)
  \/ \E ok \in BOOLEAN :
       \/ Copy(ok) \/ WritePlist(ok) \/ WriteRotation(ok) \/ Unload(ok) \/ Load(ok)
       \/ RemoveSocket(ok) \/ RemoveFile(ok)
  \/ StatPlist \/ Interrupt \/ Spawn \/ ServeByHand \/ Stop \/ EditConfig
  \/ \E w \in Who : Serve(w) \/ Close(w) \/ Killed(w) \/ \E ok \in BOOLEAN : Listen(w, ok)

Spec == Init /\ [][Next]_vars

\* launchd keeps its job alive, and a process that runs goes on.
FairSpec ==
  /\ Spec /\ WF_vars(Spawn)
  /\ \A w \in Who : WF_vars(Serve(w)) /\ WF_vars(Close(w)) /\ WF_vars(\E ok \in BOOLEAN : Listen(w, ok))

-----------------------------------------------------------------------------
(* An uninstall that reports success leaves no job, no server of the job   *)
(* that would go on serving, and nothing on disk, whatever half-done       *)
(* installs, killed servers and stale socket files went before it: as long *)
(* as its bootout did not fail, and no foreground server is about          *)
(* (Installer.Uninstall).                                                  *)
UninstallClean ==
  op = "uninstall" /\ result = "ok" /\ ~bootout =>
    /\ job = NoJob /\ proc["job"].st \in {"off", "closing"}
    /\ binary = NoFile /\ plist = NoFile /\ ~rotation
    /\ hands = 0 => socket = "none"

(* The same of every successful uninstall, as Installer.Uninstall's        *)
(* comment has it: "leaving no running daemon and nothing on disk".        *)
UninstallStops ==
  op = "uninstall" /\ result = "ok" => job = NoJob /\ proc["job"].st \in {"off", "closing"}

(* Re-running install is an upgrade: once it reports success, launchd has  *)
(* the job of the new plist, and every server it runs, after however many  *)
(* deaths, is the new build (Installer.Install).                           *)
UpgradeTakesEffect ==
  op = "install" /\ result = "ok" =>
    job = n /\ binary = n /\ (proc["job"] = Off \/ proc["job"].build = n)

(* The helper comes back: while the job is loaded, its binary in place and *)
(* its config good, there is, again and again, a server of the job that    *)
(* answers at the socket, after any death, unless another process took the *)
(* socket's path from it (KeepAlive, Server.Listen, Serve).                *)
HelperReturns ==
  []<>(job = NoJob \/ binary = NoFile \/ ~configOK \/ robbed \/ proc["hand"] # Off
       \/ (proc["job"].st = "serving" /\ socket = "job"))

(* The same although a foreground server was started and stopped (launchd: *)
(* "starts at boot and restarts on crash", docs/NETWORKING.md).            *)
HelperReachable ==
  []<>(job = NoJob \/ binary = NoFile \/ ~configOK \/ op = "uninstall" \/ proc["hand"] # Off
       \/ (proc["job"].st = "serving" /\ socket = "job"))
=============================================================================
