------------------------ MODULE HelperDaemon_proofs ------------------------
(***************************************************************************)
(* Proofs about macvz-netd's installer, for any number of commands,        *)
(* failures, edits and foreground servers: a successful uninstall leaves   *)
(* nothing, and a successful install takes effect.                         *)
(*                                                                         *)
(* The inductive invariant says what a command has achieved by the step it *)
(* is about to do, which is what its remaining steps stand for, and that a *)
(* job that is not loaded has no server, or one that is closing.           *)
(***************************************************************************)
EXTENDS HelperDaemon, TLAPS

\* What may be left of each command.
InstallSteps ==
  {<<"copy", "plist", "rotation", "replace", "bootstrap">>,
   <<"plist", "rotation", "replace", "bootstrap">>,
   <<"rotation", "replace", "bootstrap">>, <<"replace", "bootstrap">>, <<"bootstrap">>}
LoadSteps   == {<<"stat", "bootstrap">>, <<"bootstrap">>}
UnloadSteps == {<<"bootout">>}
UninstallSteps ==
  {<<"replace", "rmPlist", "rmBinary", "rmSocket", "rmRotation">>,
   <<"rmPlist", "rmBinary", "rmSocket", "rmRotation">>,
   <<"rmBinary", "rmSocket", "rmRotation">>, <<"rmSocket", "rmRotation">>, <<"rmRotation">>}

\* The command at work is in one of its steps and has not reported yet; one
\* that is over has.
CmdInv ==
  /\ n \in 0 .. MaxCommands /\ hands \in Nat
  /\ \/ cmd = NoCmd /\ result # "none"
     \/ op = "install" /\ cmd \in InstallSteps /\ result = "none" /\ n >= 1
     \/ op = "load" /\ cmd \in LoadSteps /\ result = "none"
     \/ op = "unload" /\ cmd \in UnloadSteps /\ result = "none"
     \/ op = "uninstall" /\ cmd \in UninstallSteps /\ result # "ok"

Past(steps) == cmd # NoCmd /\ Head(cmd) \notin steps

InstallInv ==
  op = "install" =>
    /\ Past({"copy"}) => binary = n
    /\ Past({"copy", "plist"}) => plist = n

\* An uninstall that has had no error so far.
UninstallInv ==
  op = "uninstall" /\ result # "error" =>
    /\ Past({"replace"}) /\ ~bootout => job = NoJob
    /\ Past({"replace", "rmPlist"}) => plist = NoFile
    /\ Past({"replace", "rmPlist", "rmBinary"}) => binary = NoFile
    /\ Past({"replace", "rmPlist", "rmBinary", "rmSocket"}) /\ ~bootout /\ hands = 0 =>
         socket = "none"

ServersInv ==
  /\ job = NoJob => proc["job"].st \in {"off", "closing"}
  /\ hands = 0 => proc["hand"] = Off

IInv ==
  TypeOK /\ CmdInv /\ InstallInv /\ UninstallInv /\ ServersInv /\ UninstallClean /\ UpgradeTakesEffect

-----------------------------------------------------------------------------
(* The steps of a command, one after the other.                            *)

\* Each install step is followed by the next; Install is over after the bootstrap.
LEMMA InstallOrder ==
  ASSUME NEW c \in InstallSteps
  PROVE  /\ c # NoCmd /\ Len(c) \in 1 .. 5
         /\ Head(c) \in {"copy", "plist", "rotation", "replace", "bootstrap"}
         /\ IF Head(c) = "bootstrap" THEN ~(Len(c) > 1) /\ Tail(c) = NoCmd
            ELSE /\ Len(c) > 1 /\ Tail(c) \in InstallSteps /\ Tail(c) # NoCmd
                 /\ Head(c) = "copy"     => Head(Tail(c)) = "plist"
                 /\ Head(c) = "plist"    => Head(Tail(c)) = "rotation"
                 /\ Head(c) = "rotation" => Head(Tail(c)) = "replace"
                 /\ Head(c) = "replace"  => Head(Tail(c)) = "bootstrap"
<1>1. CASE c = <<"copy", "plist", "rotation", "replace", "bootstrap">>
  BY <1>1 DEF InstallSteps, NoCmd
<1>2. CASE c = <<"plist", "rotation", "replace", "bootstrap">>
  BY <1>2 DEF InstallSteps, NoCmd
<1>3. CASE c = <<"rotation", "replace", "bootstrap">>
  BY <1>3 DEF InstallSteps, NoCmd
<1>4. CASE c = <<"replace", "bootstrap">>
  BY <1>4 DEF InstallSteps, NoCmd
<1>5. CASE c = <<"bootstrap">>
  BY <1>5 DEF InstallSteps, NoCmd
<1> QED BY <1>1, <1>2, <1>3, <1>4, <1>5, Zenon DEF InstallSteps

LEMMA LoadOrder ==
  ASSUME NEW c \in LoadSteps
  PROVE  /\ c # NoCmd /\ Head(c) \in {"stat", "bootstrap"}
         /\ IF Head(c) = "bootstrap" THEN ~(Len(c) > 1) /\ Tail(c) = NoCmd
            ELSE Len(c) > 1 /\ Tail(c) \in LoadSteps /\ Tail(c) # NoCmd
<1>1. CASE c = <<"stat", "bootstrap">>
  BY <1>1 DEF LoadSteps, NoCmd
<1>2. CASE c = <<"bootstrap">>
  BY <1>2 DEF LoadSteps, NoCmd
<1> QED BY <1>1, <1>2 DEF LoadSteps

LEMMA UnloadOrder ==
  ASSUME NEW c \in UnloadSteps
  PROVE  c # NoCmd /\ Head(c) = "bootout" /\ ~(Len(c) > 1) /\ Tail(c) = NoCmd
<1>1. c = <<"bootout">>
  BY DEF UnloadSteps
<1> QED BY <1>1 DEF NoCmd

\* Each uninstall step is followed by the next.
LEMMA UninstallOrder ==
  ASSUME NEW c \in UninstallSteps
  PROVE  /\ c # NoCmd /\ Len(c) \in 1 .. 5
         /\ Head(c) \in {"replace", "rmPlist", "rmBinary", "rmSocket", "rmRotation"}
         /\ IF Head(c) = "rmRotation" THEN ~(Len(c) > 1) /\ Tail(c) = NoCmd
            ELSE /\ Len(c) > 1 /\ Tail(c) \in UninstallSteps /\ Tail(c) # NoCmd
                 /\ Head(c) = "replace"  => Head(Tail(c)) = "rmPlist"
                 /\ Head(c) = "rmPlist"  => Head(Tail(c)) = "rmBinary"
                 /\ Head(c) = "rmBinary" => Head(Tail(c)) = "rmSocket"
                 /\ Head(c) = "rmSocket" => Head(Tail(c)) = "rmRotation"
<1>1. CASE c = <<"replace", "rmPlist", "rmBinary", "rmSocket", "rmRotation">>
  BY <1>1 DEF UninstallSteps, NoCmd
<1>2. CASE c = <<"rmPlist", "rmBinary", "rmSocket", "rmRotation">>
  BY <1>2 DEF UninstallSteps, NoCmd
<1>3. CASE c = <<"rmBinary", "rmSocket", "rmRotation">>
  BY <1>3 DEF UninstallSteps, NoCmd
<1>4. CASE c = <<"rmSocket", "rmRotation">>
  BY <1>4 DEF UninstallSteps, NoCmd
<1>5. CASE c = <<"rmRotation">>
  BY <1>5 DEF UninstallSteps, NoCmd
<1> QED BY <1>1, <1>2, <1>3, <1>4, <1>5, Zenon DEF UninstallSteps

-----------------------------------------------------------------------------
(* Every step keeps the invariant.                                         *)

\* What the step of a command that At names means for the command.
LEMMA AtStep ==
  ASSUME CmdInv, NEW s, At(s)
  PROVE  \/ op = "install" /\ cmd \in InstallSteps /\ Head(cmd) = s
            /\ s \in {"copy", "plist", "rotation", "replace", "bootstrap"}
         \/ op = "load" /\ cmd \in LoadSteps /\ Head(cmd) = s /\ s \in {"stat", "bootstrap"}
         \/ op = "unload" /\ cmd \in UnloadSteps /\ Head(cmd) = s /\ s = "bootout"
         \/ op = "uninstall" /\ cmd \in UninstallSteps /\ Head(cmd) = s
            /\ s \in {"replace", "rmPlist", "rmBinary", "rmSocket", "rmRotation"}
BY InstallOrder, LoadOrder, UnloadOrder, UninstallOrder, Zenon DEF CmdInv, At

\* A command that goes on is in its next step, or over.
LEMMA Proceeds ==
  ASSUME TypeOK, CmdInv, cmd # NoCmd, Proceed, UNCHANGED hands
  PROVE  /\ CmdInv' /\ result' \in {"none", "ok", "error"}
         /\ op' = op /\ n' = n
<1>0. result' \in {"none", "ok", "error"} /\ op' = op /\ n' = n /\ hands' = hands /\ cmd' = Tail(cmd)
  BY DEF Proceed
<1>1. CASE op = "install" /\ cmd \in InstallSteps /\ result = "none" /\ n >= 1
  <2>1. Head(cmd) = "bootstrap" => cmd' = NoCmd /\ result' = "ok"
    BY <1>1, InstallOrder DEF Proceed
  <2>2. Head(cmd) # "bootstrap" => cmd' \in InstallSteps /\ result' = "none"
    BY <1>1, InstallOrder DEF Proceed
  <2> QED BY <1>0, <1>1, <2>1, <2>2 DEF CmdInv
<1>2. CASE op = "load" /\ cmd \in LoadSteps /\ result = "none"
  <2>1. Head(cmd) = "bootstrap" => cmd' = NoCmd /\ result' = "ok"
    BY <1>2, LoadOrder DEF Proceed
  <2>2. Head(cmd) # "bootstrap" => cmd' \in LoadSteps /\ result' = "none"
    BY <1>2, LoadOrder DEF Proceed
  <2> QED BY <1>0, <1>2, <2>1, <2>2 DEF CmdInv
<1>3. CASE op = "unload" /\ cmd \in UnloadSteps /\ result = "none"
  <2>1. cmd' = NoCmd /\ result' = "ok"
    BY <1>3, UnloadOrder DEF Proceed
  <2> QED BY <1>0, <1>3, <2>1 DEF CmdInv
<1>4. CASE op = "uninstall" /\ cmd \in UninstallSteps /\ result # "ok"
  <2>1. Head(cmd) = "rmRotation" => cmd' = NoCmd /\ result' # "none"
    BY <1>4, UninstallOrder DEF Proceed
  <2>2. Head(cmd) # "rmRotation" => cmd' \in UninstallSteps /\ result' = "none"
    BY <1>4, UninstallOrder DEF Proceed
  <2> QED BY <1>0, <1>4, <2>1, <2>2 DEF CmdInv
<1> QED BY <1>0, <1>1, <1>2, <1>3, <1>4 DEF CmdInv

LEMMA Returns ==
  ASSUME TypeOK, CmdInv, Return, UNCHANGED hands
  PROVE  /\ CmdInv' /\ InstallInv' /\ UninstallInv' /\ UninstallClean' /\ UpgradeTakesEffect'
         /\ op' = op /\ n' = n /\ result' = "error"
BY DEF CmdInv, Return, TypeOK, InstallInv, UninstallInv, UninstallClean, UpgradeTakesEffect, Past

\* The removal steps of Uninstall go on after an error, which is kept.
LEMMA Keeps ==
  ASSUME TypeOK, CmdInv, op = "uninstall", cmd \in UninstallSteps, NEW ok \in BOOLEAN, Keep(ok)
  PROVE  /\ CmdInv' /\ result' \in {"none", "ok", "error"}
         /\ result' # "error" => ok /\ result # "error"
         /\ op' = op /\ n' = n /\ cmd' = Tail(cmd)
         /\ UNCHANGED <<bootout, job, proc, configOK, hands>>
<1>1. /\ result' \in {"none", "ok", "error"} /\ op' = op /\ n' = n /\ cmd' = Tail(cmd)
      /\ result' # "error" => ok /\ result # "error"
      /\ UNCHANGED <<bootout, job, proc, configOK, hands>>
  BY UninstallOrder DEF Keep, TypeOK
<1>2. result # "ok"
  BY UninstallOrder DEF CmdInv
<1>3. Head(cmd) = "rmRotation" => cmd' = NoCmd /\ result' # "none"
  BY <1>1, UninstallOrder DEF Keep
<1>4. Head(cmd) # "rmRotation" => cmd' \in UninstallSteps /\ result' # "ok"
  BY <1>1, <1>2, UninstallOrder DEF Keep
<1> QED BY <1>1, <1>3, <1>4 DEF CmdInv

\* A new command has done nothing yet.
LEMMA BeginKeeps == ASSUME IInv, NEW o \in DOMAIN Script, Begin(o) PROVE IInv'
<1>1. o \in {"install", "load", "unload", "uninstall"}
  BY DEF Script
<1>2. /\ o = "install"   => cmd' \in InstallSteps /\ Head(cmd') = "copy"
      /\ o = "load"      => cmd' \in LoadSteps
      /\ o = "unload"    => cmd' \in UnloadSteps
      /\ o = "uninstall" => cmd' \in UninstallSteps /\ Head(cmd') = "replace"
  BY <1>1 DEF Begin, Script, InstallSteps, LoadSteps, UnloadSteps, UninstallSteps
<1>3. n' \in 0 .. MaxCommands /\ n' >= 1
  BY BoundsAreNaturals DEF IInv, CmdInv, Begin
<1>4. TypeOK'
  BY <1>1, Zenon DEF IInv, TypeOK, Begin, files
<1>5. CmdInv'
  BY <1>1, <1>2, <1>3, Zenon DEF IInv, CmdInv, Begin
<1>6. InstallInv' /\ UninstallInv'
  BY <1>1, <1>2, Zenon DEF InstallInv, UninstallInv, Past, Begin
<1>7. ServersInv' /\ UninstallClean' /\ UpgradeTakesEffect'
  BY DEF IInv, ServersInv, Begin, UninstallClean, UpgradeTakesEffect
<1> QED BY <1>4, <1>5, <1>6, <1>7 DEF IInv

\* A step of Install that writes a file.
LEMMA CopyKeeps == ASSUME IInv, NEW ok \in BOOLEAN, Copy(ok) PROVE IInv'
<1>0. op = "install" /\ cmd \in InstallSteps /\ Head(cmd) = "copy" /\ cmd # NoCmd
  BY AtStep DEF IInv, Copy, At
<1>1. TypeOK' /\ ServersInv' /\ UNCHANGED hands
  BY DEF IInv, TypeOK, ServersInv, Copy, CmdInv, Proceed, Return
<1>2. CASE ~ok
  BY <1>1, <1>2, Returns, Zenon DEF IInv, Copy
<1>3. CASE ok
  <2>1. CmdInv' /\ op' = op /\ n' = n
    BY <1>0, <1>1, <1>3, Proceeds, Zenon DEF IInv, Copy
  <2>2. cmd' = Tail(cmd) /\ Head(cmd') = "plist" /\ cmd' # NoCmd /\ result' = "none"
    BY <1>0, <1>3, InstallOrder DEF Copy, Proceed
  <2>3. binary' = n
    BY <1>3 DEF Copy
  <2> QED BY <1>0, <1>1, <2>1, <2>2, <2>3 DEF IInv, InstallInv, UninstallInv, Past, UninstallClean, UpgradeTakesEffect
<1> QED BY <1>2, <1>3

LEMMA WritePlistKeeps == ASSUME IInv, NEW ok \in BOOLEAN, WritePlist(ok) PROVE IInv'
<1>0. op = "install" /\ cmd \in InstallSteps /\ Head(cmd) = "plist" /\ cmd # NoCmd
  BY AtStep DEF IInv, WritePlist, At
<1>1. TypeOK' /\ ServersInv' /\ UNCHANGED hands
  <2>1. UNCHANGED <<binary, rotation, job, proc, socket, robbed, configOK, bootout, op, n, hands>>
    BY Zenon DEF WritePlist, Proceed, Return
  <2>2. n \in 0 .. MaxCommands /\ plist \in 0 .. Torn
    BY Zenon DEF IInv, CmdInv, TypeOK
  <2>3. plist' \in {n, plist, Torn}
    BY Zenon DEF WritePlist
  <2>4. plist' \in 0 .. Torn
    BY <2>2, <2>3, BoundsAreNaturals DEF Torn
  <2>5. result' \in {"none", "ok", "error"}
    BY Zenon DEF WritePlist, Proceed, Return
  <2> QED BY <2>1, <2>4, <2>5, Zenon DEF IInv, TypeOK, ServersInv
<1>2. CASE ~ok
  BY <1>1, <1>2, Returns, Zenon DEF IInv, WritePlist
<1>3. CASE ok
  <2>1. CmdInv' /\ op' = op /\ n' = n
    BY <1>0, <1>1, <1>3, Proceeds, Zenon DEF IInv, WritePlist
  <2>2. cmd' = Tail(cmd) /\ Head(cmd') = "rotation" /\ cmd' # NoCmd /\ result' = "none"
    BY <1>0, <1>3, InstallOrder DEF WritePlist, Proceed
  <2>3. plist' = n /\ binary' = binary /\ binary = n
    BY <1>0, <1>3 DEF WritePlist, IInv, InstallInv, Past
  <2> QED BY <1>0, <1>1, <2>1, <2>2, <2>3 DEF IInv, InstallInv, UninstallInv, Past, UninstallClean, UpgradeTakesEffect
<1> QED BY <1>2, <1>3

LEMMA WriteRotationKeeps == ASSUME IInv, NEW ok \in BOOLEAN, WriteRotation(ok) PROVE IInv'
<1>0. op = "install" /\ cmd \in InstallSteps /\ Head(cmd) = "rotation" /\ cmd # NoCmd
  BY AtStep DEF IInv, WriteRotation, At
<1>1. TypeOK' /\ ServersInv' /\ UNCHANGED hands
  BY DEF IInv, TypeOK, ServersInv, WriteRotation, CmdInv, Proceed, Return
<1>2. CASE ~ok
  BY <1>1, <1>2, Returns, Zenon DEF IInv, WriteRotation
<1>3. CASE ok
  <2>1. CmdInv' /\ op' = op /\ n' = n
    BY <1>0, <1>1, <1>3, Proceeds, Zenon DEF IInv, WriteRotation
  <2>2. cmd' = Tail(cmd) /\ Head(cmd') = "replace" /\ cmd' # NoCmd /\ result' = "none"
    BY <1>0, <1>3, InstallOrder DEF WriteRotation, Proceed
  <2>3. plist' = n /\ binary' = n
    BY <1>0, <1>3 DEF WriteRotation, IInv, InstallInv, Past
  <2> QED BY <1>0, <1>1, <2>1, <2>2, <2>3 DEF IInv, InstallInv, UninstallInv, Past, UninstallClean, UpgradeTakesEffect
<1> QED BY <1>2, <1>3

LEMMA StatPlistKeeps == ASSUME IInv, StatPlist PROVE IInv'
<1>0. op = "load" /\ cmd # NoCmd
  BY AtStep DEF IInv, StatPlist, At
<1>1. TypeOK' /\ ServersInv' /\ UNCHANGED hands
  BY DEF IInv, TypeOK, ServersInv, StatPlist, CmdInv, Proceed, Return, files
<1>2. CmdInv' /\ op' = op
  BY <1>0, <1>1, Proceeds, Returns, Zenon DEF IInv, StatPlist
<1> QED BY <1>0, <1>1, <1>2 DEF IInv, InstallInv, UninstallInv, UninstallClean, UpgradeTakesEffect

\* After a bootout that did not fail no job is loaded, and its server is off
\* or closing.
LEMMA UnloadKeeps == ASSUME IInv, NEW ok \in BOOLEAN, Unload(ok) PROVE IInv'
<1>0. /\ cmd # NoCmd /\ UNCHANGED <<files, hands>>
      /\ \/ op = "unload" /\ Head(cmd) = "bootout"
         \/ op = "install" /\ cmd \in InstallSteps /\ Head(cmd) = "replace"
         \/ op = "uninstall" /\ cmd \in UninstallSteps /\ Head(cmd) = "replace"
  BY AtStep DEF IInv, Unload, At
<1>1. proc \in [Who -> [st : {"off", "begun", "bound", "serving", "closing"}, build : 0 .. MaxCommands]]
  BY DEF IInv, TypeOK
<1>2. /\ Signalled(proc["job"]) \in [st : {"off", "begun", "bound", "serving", "closing"}, build : 0 .. MaxCommands]
      /\ Signalled(proc["job"]).st \in {"off", "closing"}
  BY <1>1, BoundsAreNaturals DEF Signalled, Off, NoFile, Who
<1>3. proc' \in [Who -> [st : {"off", "begun", "bound", "serving", "closing"}, build : 0 .. MaxCommands]]
      /\ proc'["hand"] = proc["hand"] /\ (ok => proc'["job"] = Signalled(proc["job"]))
  BY <1>1, <1>2 DEF Unload, Who
<1>4. TypeOK'
  <2>1. UNCHANGED <<binary, plist, rotation, robbed, configOK, op>>
    BY <1>0, Zenon DEF Unload, Proceed, Return, files
  <2>2. job' \in 0 .. MaxCommands
    BY BoundsAreNaturals DEF IInv, TypeOK, Unload, NoJob
  <2>3. socket' \in Who \cup {"dead", "none"} /\ bootout' \in BOOLEAN
    BY Zenon DEF IInv, TypeOK, Unload
  <2>4. result' \in {"none", "ok", "error"}
    BY Zenon DEF Unload, Proceed, Return
  <2> QED BY <1>3, <2>1, <2>2, <2>3, <2>4, Zenon DEF IInv, TypeOK
<1>5. ServersInv'
  BY <1>0, <1>2, <1>3 DEF IInv, ServersInv, Unload
<1>6. CASE ~ok /\ ~At("replace")
  BY <1>0, <1>4, <1>5, <1>6, Returns, Zenon DEF IInv, Unload
<1>7. CASE (ok \/ At("replace")) /\ op = "unload"
  BY <1>0, <1>4, <1>5, <1>7, Proceeds DEF IInv, Unload, InstallInv, UninstallInv, UninstallClean, UpgradeTakesEffect
<1>8. CASE (ok \/ At("replace")) /\ op # "unload"
  <2>1. CmdInv' /\ op' = op /\ n' = n
    BY <1>0, <1>8, Proceeds, Zenon DEF IInv, Unload
  <2>2. cmd' # NoCmd /\ result' = "none" /\ (op = "uninstall" => Head(cmd') = "rmPlist")
    <3>1. Proceed
      BY <1>8, Zenon DEF Unload
    <3>2. CASE op = "install"
      BY <1>0, <3>1, <3>2, InstallOrder DEF Proceed
    <3>3. CASE op = "uninstall"
      BY <1>0, <3>1, <3>3, UninstallOrder DEF Proceed
    <3> QED BY <1>0, <1>8, <3>2, <3>3, Zenon
  <2>3. ~bootout' => job' = NoJob
    BY DEF Unload
  <2>4. op = "install" => plist' = n /\ binary' = n
    BY <1>0 DEF IInv, InstallInv, Past, files
  <2> QED BY <1>4, <1>5, <2>1, <2>2, <2>3, <2>4 DEF IInv, InstallInv, UninstallInv, Past, UninstallClean, UpgradeTakesEffect
<1> QED BY <1>0, <1>6, <1>7, <1>8

\* launchd takes the job of the plist that is there, which has no server yet.
LEMMA LoadKeeps == ASSUME IInv, NEW ok \in BOOLEAN, Load(ok) PROVE IInv'
<1>0. /\ cmd # NoCmd /\ UNCHANGED <<files, hands, proc>>
      /\ \/ op = "load"
         \/ op = "install" /\ cmd \in InstallSteps /\ Head(cmd) = "bootstrap"
  BY AtStep DEF IInv, Load, At
<1>1. TypeOK'
  BY <1>0, BoundsAreNaturals DEF IInv, TypeOK, Load, Proceed, Return, CmdInv, files
<1>2. ServersInv'
  BY <1>0 DEF IInv, ServersInv, Load, Off
<1>3. CASE ~ok
  BY <1>0, <1>1, <1>2, <1>3, Returns, Zenon DEF IInv, Load
<1>4. CASE ok
  <2>1. CmdInv' /\ op' = op /\ n' = n
    BY <1>0, <1>4, Proceeds, Zenon DEF IInv, Load
  <2>2. op = "install" => cmd' = NoCmd /\ job' = n /\ binary' = n /\ proc'["job"] = Off
    BY <1>0, <1>4, InstallOrder DEF Load, Proceed, IInv, InstallInv, Past, files
  <2> QED BY <1>0, <1>1, <1>2, <2>1, <2>2 DEF IInv, InstallInv, UninstallInv, Past, UninstallClean, UpgradeTakesEffect
<1> QED BY <1>3, <1>4

\* Uninstall's socket.
LEMMA RemoveSocketKeeps == ASSUME IInv, NEW ok \in BOOLEAN, RemoveSocket(ok) PROVE IInv'
<1>0. op = "uninstall" /\ cmd \in UninstallSteps /\ Head(cmd) = "rmSocket" /\ cmd # NoCmd
  BY AtStep DEF IInv, RemoveSocket, At
<1>1. /\ CmdInv' /\ result' \in {"none", "ok", "error"}
      /\ result' # "error" => ok /\ result # "error"
      /\ op' = op /\ n' = n /\ cmd' = Tail(cmd)
      /\ UNCHANGED <<bootout, job, proc, configOK, hands>>
  BY <1>0, Keeps, Zenon DEF IInv, RemoveSocket
<1>2. cmd' # NoCmd /\ Head(cmd') = "rmRotation" /\ result' # "ok"
  BY <1>0, <1>1, UninstallOrder DEF CmdInv
<1>3. TypeOK' /\ ServersInv'
  BY <1>1 DEF IInv, TypeOK, ServersInv, RemoveSocket, files
<1>4. UNCHANGED files /\ (ok => socket' = "none")
  BY DEF RemoveSocket
<1>5. UninstallInv'
  BY <1>0, <1>1, <1>2, <1>4 DEF IInv, UninstallInv, Past, files
<1> QED BY <1>0, <1>1, <1>2, <1>3, <1>5 DEF IInv, InstallInv, UninstallClean, UpgradeTakesEffect

\* Uninstall's other files; after the last one it reports.
LEMMA RemoveFileKeeps == ASSUME IInv, NEW ok \in BOOLEAN, RemoveFile(ok) PROVE IInv'
<1>0. /\ op = "uninstall" /\ cmd \in UninstallSteps /\ cmd # NoCmd
      /\ Head(cmd) \in {"rmPlist", "rmBinary", "rmRotation"}
  BY AtStep DEF IInv, RemoveFile, At
<1>1. /\ CmdInv' /\ result' \in {"none", "ok", "error"}
      /\ result' # "error" => ok /\ result # "error"
      /\ op' = op /\ n' = n /\ cmd' = Tail(cmd)
      /\ UNCHANGED <<bootout, job, proc, configOK, hands>>
  BY <1>0, Keeps, Zenon DEF IInv, RemoveFile
<1>2. TypeOK' /\ ServersInv' /\ UNCHANGED socket
  <2>1. binary' \in {binary, NoFile} /\ plist' \in {plist, NoFile} /\ UNCHANGED <<socket, robbed>>
        /\ rotation' \in BOOLEAN
    BY Zenon DEF RemoveFile, IInv, TypeOK
  <2>2. binary' \in 0 .. MaxCommands /\ plist' \in 0 .. Torn
    BY <2>1, BoundsAreNaturals DEF IInv, TypeOK, NoFile, Torn
  <2> QED BY <1>1, <2>1, <2>2, Zenon DEF IInv, TypeOK, ServersInv
<1>3. /\ plist'    = IF ok /\ Head(cmd) = "rmPlist" THEN NoFile ELSE plist
      /\ binary'   = IF ok /\ Head(cmd) = "rmBinary" THEN NoFile ELSE binary
      /\ rotation' = (rotation /\ ~(ok /\ Head(cmd) = "rmRotation"))
  BY <1>0 DEF RemoveFile, At
<1>4. UninstallInv' /\ (cmd' # NoCmd => UninstallClean')
  BY <1>0, <1>1, <1>2, <1>3, UninstallOrder DEF IInv, UninstallInv, Past, CmdInv, UninstallClean
<1>5. ASSUME cmd' = NoCmd PROVE UninstallClean'
  <2>1. Head(cmd) = "rmRotation"
    BY <1>0, <1>1, <1>5, UninstallOrder
  <2> QED BY <1>0, <1>1, <1>2, <1>3, <2>1 DEF IInv, UninstallInv, Past, ServersInv, UninstallClean
<1> QED BY <1>0, <1>1, <1>2, <1>4, <1>5 DEF IInv, InstallInv, UpgradeTakesEffect

LEMMA InterruptKeeps == ASSUME IInv, Interrupt PROVE IInv'
<1>1. TypeOK' /\ ServersInv' /\ UNCHANGED hands /\ Return
  BY DEF IInv, TypeOK, ServersInv, Interrupt, Return, CmdInv, files
<1> QED BY <1>1, Returns, Zenon DEF IInv

\* What the servers may do between two steps of a command: without a job none
\* of it binds the socket, and a job's new server is what is at BinaryPath.
LEMMA ServerStep ==
  ASSUME IInv, TypeOK', UNCHANGED <<files, job, cmdVars>>,
         hands' \in Nat, hands' = 0 => hands = 0 /\ proc'["hand"] = Off,
         job = NoJob => proc'["job"].st \in {"off", "closing"},
         hands' = 0 /\ job = NoJob /\ socket = "none" => socket' = "none",
         \/ proc'["job"] = Off
         \/ proc["job"] # Off /\ proc'["job"].build = proc["job"].build
         \/ proc'["job"].build = binary
  PROVE  IInv'
<1>0. UNCHANGED <<binary, plist, rotation, job, cmd, op, n, bootout, result>>
  BY DEF files, cmdVars
<1>1. CmdInv' /\ InstallInv' /\ ServersInv'
  BY <1>0 DEF IInv, CmdInv, InstallInv, Past, ServersInv
<1>2. UninstallInv'
  BY <1>0, Zenon DEF IInv, UninstallInv, Past
<1>3. UninstallClean'
  BY <1>0, Zenon DEF IInv, UninstallClean
<1>4. UpgradeTakesEffect'
  BY <1>0, Zenon DEF IInv, UpgradeTakesEffect
<1> QED BY <1>1, <1>2, <1>3, <1>4 DEF IInv

Servers == [st : {"off", "begun", "bound", "serving", "closing"}, build : 0 .. MaxCommands]

\* One server changes.
LEMMA ServerChanges ==
  ASSUME IInv, NEW w \in Who, NEW p \in Servers, proc' = [proc EXCEPT ![w] = p]
  PROVE  /\ proc' \in [Who -> Servers] /\ proc'[w] = p
         /\ \A v \in Who \ {w} : proc'[v] = proc[v]
BY DEF IInv, TypeOK, Servers

LEMMA OffIsServer == Off \in Servers /\ Off.st = "off"
BY BoundsAreNaturals DEF Off, Servers, NoFile

LEMMA SpawnKeeps == ASSUME IInv, Spawn PROVE IInv'
<1>1. [st |-> "begun", build |-> binary] \in Servers
  BY DEF IInv, TypeOK, Servers
<1>2. /\ proc' \in [Who -> Servers] /\ proc'["job"] = [st |-> "begun", build |-> binary]
      /\ proc'["hand"] = proc["hand"]
  BY <1>1, ServerChanges DEF Spawn, Who
<1>3. TypeOK'
  BY <1>2 DEF IInv, TypeOK, Spawn, files, cmdVars, Servers
<1> QED BY <1>2, <1>3, ServerStep DEF Spawn, IInv, ServersInv, CmdInv

LEMMA ServeByHandKeeps == ASSUME IInv, ServeByHand PROVE IInv'
<1>1. [st |-> "begun", build |-> NoFile] \in Servers
  BY BoundsAreNaturals DEF Servers, NoFile
<1>2. proc' \in [Who -> Servers] /\ proc'["job"] = proc["job"]
  BY <1>1, ServerChanges DEF ServeByHand, Who
<1>3. TypeOK'
  BY <1>2 DEF IInv, TypeOK, ServeByHand, files, cmdVars, Servers
<1>4. hands' \in Nat /\ hands' # 0
  BY DEF ServeByHand, IInv, CmdInv
<1> QED BY <1>2, <1>3, <1>4, ServerStep DEF ServeByHand, IInv, ServersInv

LEMMA ServeKeeps == ASSUME IInv, NEW w \in Who, Serve(w) PROVE IInv'
<1>0. proc[w] \in Servers /\ proc \in [Who -> Servers]
  BY DEF IInv, TypeOK, Servers
<1>1. [proc[w] EXCEPT !.st = "serving"] \in Servers
      /\ proc' = [proc EXCEPT ![w] = [proc[w] EXCEPT !.st = "serving"]]
  BY <1>0 DEF Serve, Servers
<1>2. /\ proc' \in [Who -> Servers] /\ proc'[w] = [proc[w] EXCEPT !.st = "serving"]
      /\ \A v \in Who \ {w} : proc'[v] = proc[v]
  BY <1>1, ServerChanges
<1>3. TypeOK'
  BY <1>2 DEF IInv, TypeOK, Serve, files, cmdVars, Servers
<1>4. proc[w] # Off /\ proc[w].st = "bound" /\ proc'[w].build = proc[w].build
  BY <1>0, <1>2 DEF Serve, Off, Servers
<1>5. UNCHANGED <<files, job, cmdVars, hands, socket>> /\ hands \in Nat
  BY DEF Serve, IInv, CmdInv
<1> QED BY <1>2, <1>3, <1>4, <1>5, ServerStep DEF IInv, ServersInv, Who

\* Stop and Close end at most one server, and the socket it may take with it.
LEMMA EndKeeps ==
  ASSUME IInv, NEW w \in Who, proc[w] # Off,
         \/ proc' = [proc EXCEPT ![w] = Off]
         \/ w = "hand" /\ proc' = [proc EXCEPT ![w] = Signalled(proc[w])],
         socket' \in {"none", socket} \/ (socket' = "dead" /\ socket # "none"),
         robbed' \in BOOLEAN, configOK' \in BOOLEAN, UNCHANGED <<files, job, cmdVars, hands>>
  PROVE  IInv'
<1>1. Signalled(proc[w]) \in Servers
  BY OffIsServer DEF Signalled, IInv, TypeOK, Servers
<1>2. /\ proc' \in [Who -> Servers] /\ proc'[w] \in {Off, Signalled(proc[w])}
      /\ \A v \in Who \ {w} : proc'[v] = proc[v] /\ (w = "job" => proc'[w] = Off)
  BY <1>1, OffIsServer, ServerChanges DEF Who
<1>3. socket' \in Who \cup {"dead", "none"}
  BY DEF IInv, TypeOK
<1>4. TypeOK'
  BY <1>2, <1>3 DEF IInv, TypeOK, files, cmdVars, Servers
<1>5. hands # 0 \/ w = "job"
  BY DEF IInv, ServersInv, Who
<1>6. hands \in Nat
  BY DEF IInv, CmdInv
<1> QED BY <1>2, <1>4, <1>5, <1>6, OffIsServer, ServerStep DEF IInv, ServersInv, Who

LEMMA StopKeeps == ASSUME IInv, Stop PROVE IInv'
<1>1. robbed' \in BOOLEAN /\ configOK' \in BOOLEAN
  BY DEF IInv, TypeOK, Stop
<1>2. proc' = [proc EXCEPT !["hand"] = Signalled(proc["hand"])] /\ proc["hand"] # Off
  BY DEF Stop
<1>3. socket' \in {"none", socket} \/ (socket' = "dead" /\ socket # "none")
  BY DEF Stop
<1>4. UNCHANGED <<files, job, cmdVars, hands>> /\ "hand" \in Who
  BY DEF Stop, Who
<1> QED BY <1>1, <1>2, <1>3, <1>4, EndKeeps, Zenon

LEMMA CloseKeeps == ASSUME IInv, NEW w \in Who, Close(w) PROVE IInv'
<1>1. robbed' \in BOOLEAN /\ configOK' \in BOOLEAN
  BY DEF IInv, TypeOK, Close
<1>2. proc[w] # Off /\ proc' = [proc EXCEPT ![w] = Off] /\ socket' \in {"none", socket}
  BY DEF Close, Off
<1>3. UNCHANGED <<files, job, cmdVars, hands>>
  BY DEF Close
<1> QED BY <1>1, <1>2, <1>3, EndKeeps, Zenon

LEMMA KilledKeeps == ASSUME IInv, NEW w \in Who, Killed(w) PROVE IInv'
<1>1. robbed' \in BOOLEAN /\ configOK' \in BOOLEAN
  BY DEF IInv, TypeOK, Killed
<1> QED BY <1>1, EndKeeps DEF Killed, Who

LEMMA ListenKeeps == ASSUME IInv, NEW w \in Who, NEW ok \in BOOLEAN, Listen(w, ok) PROVE IInv'
<1>0. /\ UNCHANGED <<files, job, cmdVars, hands>> /\ hands \in Nat
      /\ robbed' \in BOOLEAN /\ configOK' \in BOOLEAN /\ proc \in [Who -> Servers]
  BY DEF Listen, IInv, TypeOK, CmdInv, Servers
<1>1. proc[w] # Off /\ proc[w].st = "begun" /\ (w = "job" => job # NoJob) /\ (w = "hand" => hands # 0)
  BY DEF Listen, Off, IInv, ServersInv
<1>2. CASE ok
  <2>1. [proc[w] EXCEPT !.st = "bound"] \in Servers
        /\ proc' = [proc EXCEPT ![w] = [proc[w] EXCEPT !.st = "bound"]] /\ socket' = w
    BY <1>0, <1>2 DEF Listen, Servers
  <2>2. /\ proc' \in [Who -> Servers] /\ proc'[w] = [proc[w] EXCEPT !.st = "bound"]
        /\ \A v \in Who \ {w} : proc'[v] = proc[v]
    BY <2>1, ServerChanges
  <2>3. TypeOK'
    BY <1>0, <2>1, <2>2 DEF IInv, TypeOK, files, cmdVars, Servers
  <2>4. proc'[w].build = proc[w].build
    BY <1>0, <2>2 DEF Servers
  <2> QED BY <1>0, <1>1, <2>2, <2>3, <2>4, ServerStep DEF IInv, ServersInv, Who
<1>3. CASE ~ok
  <2>1. proc' = [proc EXCEPT ![w] = Off] /\ socket' \in {"none", socket}
    BY <1>3 DEF Listen
  <2> QED BY <1>0, <1>1, <2>1, EndKeeps, Zenon
<1> QED BY <1>2, <1>3

LEMMA EditConfigKeeps == ASSUME IInv, EditConfig PROVE IInv'
<1>1. TypeOK'
  BY DEF IInv, TypeOK, EditConfig, files, cmdVars
<1>2. UNCHANGED <<files, job, cmdVars, hands, socket, proc>> /\ hands \in Nat
  BY DEF EditConfig, IInv, CmdInv
<1> QED BY <1>1, <1>2, ServerStep DEF IInv, ServersInv

LEMMA InitHolds == Init => IInv
<1> SUFFICES ASSUME Init PROVE IInv
  OBVIOUS
<1>1. TypeOK
  <2>1. proc \in [Who -> Servers]
    BY OffIsServer DEF Init
  <2>2. {rotation, robbed, configOK, bootout} \subseteq BOOLEAN
    BY DEF Init
  <2> QED BY <2>1, <2>2, BoundsAreNaturals DEF Init, TypeOK, Servers, NoFile, NoJob, Torn
<1>2. CmdInv /\ InstallInv /\ UninstallInv
  BY BoundsAreNaturals DEF Init, CmdInv, InstallInv, UninstallInv
<1>3. ServersInv /\ UninstallClean /\ UpgradeTakesEffect
  BY OffIsServer DEF Init, ServersInv, UninstallClean, UpgradeTakesEffect, Who
<1> QED BY <1>1, <1>2, <1>3 DEF IInv

LEMMA NextKeeps == IInv /\ [Next]_vars => IInv'
<1> SUFFICES ASSUME IInv, [Next]_vars PROVE IInv'
  OBVIOUS
<1>1. CASE UNCHANGED vars
  BY <1>1 DEF vars, files, cmdVars, IInv, TypeOK, CmdInv, InstallInv, UninstallInv, Past,
              ServersInv, UninstallClean, UpgradeTakesEffect
<1>2. CASE Next
  BY <1>2, BeginKeeps, CopyKeeps, WritePlistKeeps, WriteRotationKeeps, UnloadKeeps, LoadKeeps,
     RemoveSocketKeeps, RemoveFileKeeps, StatPlistKeeps, InterruptKeeps, SpawnKeeps,
     ServeByHandKeeps, StopKeeps, EditConfigKeeps, ServeKeeps, CloseKeeps, KilledKeeps,
     ListenKeeps, Zenon DEF Next
<1> QED BY <1>1, <1>2

-----------------------------------------------------------------------------
(* The theorems.                                                           *)

\* The strengthened invariant holds in every reachable state.
THEOREM Inductive == Spec => []IInv
BY InitHolds, NextKeeps, PTL DEF Spec

\* An uninstall that reports success leaves no job, no server of it and no
\* file, after any history of failures and interruptions, unless its bootout
\* failed or a foreground server was started (Installer.Uninstall).
THEOREM UninstallLeavesNothing == Spec => []UninstallClean
<1>1. IInv => UninstallClean
  BY DEF IInv
<1> QED BY <1>1, Inductive, PTL

\* An install that reports success has put its own build and plist in charge,
\* and every server of the job is that build (Installer.Install).
THEOREM InstallIsUpgrade == Spec => []UpgradeTakesEffect
<1>1. IInv => UpgradeTakesEffect
  BY DEF IInv
<1> QED BY <1>1, Inductive, PTL

=============================================================================
