---------------------------- MODULE Installation ----------------------------
(***************************************************************************)
(* How the agent changes under itself: it moves from the directory and the  *)
(* service of its predecessor (komari-agent) to its own (lite-agent), which *)
(* package relocate does at every start, and it replaces its own binary by  *)
(* newer releases, which package update does.  Both end the process and     *)
(* leave the rest to the service manager, so a start, a copy, a service     *)
(* that is enabled or removed, a crash, and the start of the other service  *)
(* fall together in any order.                                              *)
(*                                                                          *)
(* Modelled is the build for Linux and FreeBSD (relocate/service_unix.go).  *)
(* What a host has to do with it is a record of Hosts:                      *)
(*   manager   the service manager: "systemd", "openrc", "procd", "upstart" *)
(*   place     "default", "custom" (a service of another name) or           *)
(*             "container"                                                  *)
(*   track     "stable" or "snapshot", the releases it follows              *)
(*   token     "given" on the command line, or "saved" in the identity file *)
(*   config    "none", or a file in the old directory that is named by an   *)
(*             argument ("arg") or by the environment ("env")               *)
(*   remote    what the command line says of remote control: "unset", "on"  *)
(*             and "off" by the new flag, "nossh" by the old one            *)
(*   state     the state of remote control found on disk: "none", "on",     *)
(*             "off"                                                        *)
(***************************************************************************)
EXTENDS Integers, Sequences, FiniteSets

CONSTANTS
  Hosts,        \* the hosts considered
  Releases,     \* the releases in the order they are published, each a record
                \* [major, minor, patch, revision, four]
  MaxFaults,    \* bound: steps that fail
  MaxCrashes    \* bound: processes killed and reboots

ASSUME InstallationAssumption ==
  /\ MaxFaults \in Nat /\ MaxCrashes \in Nat
  /\ \A h \in Hosts : /\ h.state \in {"none", "on", "off"}
                      /\ h.config \in {"none", "arg", "env"}
  /\ Releases \in Seq([major : Nat, minor : Nat, patch : Nat, revision : Nat, four : BOOLEAN])

Old == "komari-agent"
New == "lite-agent"
Services == {Old, New}

\* The files beside the binary that matter here: the saved identity, which
\* stands for every trace of an earlier agent, the configuration, and the
\* state of the remote control.
Files == {"identity", "config", "state"}

VARIABLES
  host,       \* the host, which does not change
  binary,     \* [Services -> Nat]: the release in each directory, 0 for none
  files,      \* [Services -> [Files -> value]]: "none" if the file is missing
  unit,       \* [Services -> [installed, enabled, respawn]]: what the manager knows
  proc,       \* [Services -> process]
  published,  \* how many releases are published
  ready,      \* those whose asset for this platform is there
  faults, crashes,
  \* Kept for the properties only:
  failed      \* what of the last retirement failed: "stop", "remove"

vars == <<host, binary, files, unit, proc, published, ready, faults, crashes, failed>>

-----------------------------------------------------------------------------
(* The order of versions *)

\* The patch and revision that a version counts as: 2.1.61 to 2.1.99 are
\* refreshes of 2.1.6 to 2.1.9.
PatchOrder(tag) ==
  IF ~tag.four /\ tag.major = 2 /\ tag.minor = 1 /\ tag.patch \in 61..99
    THEN <<tag.patch \div 10, tag.patch % 10>>
    ELSE <<tag.patch, tag.revision>>

Ordered(tag) == <<tag.major, tag.minor>> \o PatchOrder(tag)

\* Fault: the revision is overlooked.
NewerPatch(current, latest) ==
  LET a == Ordered(Releases[current])
      b == Ordered(Releases[latest])
  IN  \E i \in 1..3 : a[i] < b[i] /\ \A j \in 1..i - 1 : a[j] = b[j]

NeedUpdate(current, latest) ==
  LET a == Ordered(Releases[current])
      b == Ordered(Releases[latest])
  IN  \E i \in 1..4 : a[i] < b[i] /\ \A j \in 1..i - 1 : a[j] = b[j]

Listed == 1..published

\* The asset for this platform is there.
HasAsset(r) == r \in ready

\* The release to update to from version v, as the two tracks choose it.  The
\* newest stable release is awaited if it has no asset yet.
LatestStable(v) ==
  {r \in Listed : HasAsset(r) /\ NeedUpdate(v, r) /\ \A q \in Listed : ~NeedUpdate(r, q)}

LatestSnapshot(v) ==
  {r \in Listed : HasAsset(r) /\ r # v /\ \A q \in Listed : HasAsset(q) => q <= r}

Updates(v) ==
  IF host.track = "stable" THEN LatestStable(v)
  ELSE IF host.place = "container" THEN {} ELSE LatestSnapshot(v)

-----------------------------------------------------------------------------
(* Processes *)

Stages == {"off", "due", "config", "relocate", "binary", "sidecars", "seed", "install",
           "start", "wait", "prevent", "disable", "leave", "stop", "remove", "main"}

Process(at, version, remote, joins) ==
  [at |-> at, version |-> version, remote |-> remote, joins |-> joins]

At(p, stage) == Process(stage, p.version, p.remote, p.joins)

Off == Process("off", 0, FALSE, FALSE)
Due == Process("due", 0, FALSE, FALSE)

Unit(installed, enabled, respawn) ==
  [installed |-> installed, enabled |-> enabled, respawn |-> respawn]

\* Only systemd can be told not to start a service again.
NoRespawn(s) ==
  [unit EXCEPT ![s] = Unit(@.installed, @.enabled, @.respawn /\ host.manager # "systemd")]

\* Upstart has no command for it.
Disabled(s) ==
  [unit EXCEPT ![s] = Unit(@.installed, @.enabled /\ host.manager = "upstart", @.respawn)]

\* What the service manager does with a service whose process ends by itself.
Ended(s) == IF unit[s].respawn THEN Due ELSE Off

Go(s, from, to) ==
  /\ proc[s].at = from
  /\ proc' = [proc EXCEPT ![s] = At(@, to)]

\* A step of the process, or a command it runs, fails or works.
Fails == faults < MaxFaults /\ faults' = faults + 1

Works == UNCHANGED faults

\* systemctl is-active and the like; upstart has no such question here.
Running(s) == host.manager # "upstart" /\ proc[s].at \notin {"off", "due"}

-----------------------------------------------------------------------------
(* The start of a process *)

\* A saved token is there if none is given.
HasIdentity(s) == host.token = "saved" => files[s]["identity"] # "none"

\* The configuration that the launch names is there: arguments and environment are
\* rewritten to name the file in the directory of s.
HasConfig(s) == host.config # "none" => files[s]["config"] # "none"

CanStart(s) == binary[s] # 0 /\ HasConfig(s) /\ HasIdentity(s)

\* An earlier agent was here: the old directory, or what one left behind.
PriorInstall(s) ==
  host.place # "container" /\ (s = Old \/ files[s]["identity"] # "none")

\* Whether remote control is on, for a process that starts in s.
RemoteControl(s) ==
  IF host.remote # "unset" THEN host.remote = "on"
  ELSE IF files[s]["state"] # "none" THEN files[s]["state"] = "on"
  ELSE PriorInstall(s)

\* Whether that is written down, for later starts.
WritesState(s) == host.remote = "unset" /\ files[s]["state"] = "none" /\ PriorInstall(s)

StateOf(on) == IF on THEN "on" ELSE "off"

\* The state file of s is replaced, as a whole (WriteFileAtomic).
WithState(s, state) ==
  [files EXCEPT ![s] = [f \in Files |-> IF f = "state" THEN state ELSE files[s][f]]]

Launch(s) ==
  /\ proc[s].at = "due"
  /\ proc' = [proc EXCEPT ![s] = Process("config", binary[s], FALSE, FALSE)]
  /\ UNCHANGED <<host, binary, files, unit, published, ready, faults, crashes, failed>>

\* loadEffectiveConfig and applySavedAgentToken: without its configuration or
\* its token the process ends.
LoadConfig(s) ==
  /\ proc[s].at = "config"
  /\ IF CanStart(s)
       THEN /\ proc' = [proc EXCEPT ![s] = Process("relocate", proc[s].version, RemoteControl(s), FALSE)]
            /\ IF WritesState(s)
                 THEN \/ Works /\ files' = WithState(s, "on")
                      \/ Fails /\ UNCHANGED files
                 ELSE Works /\ UNCHANGED files
       ELSE /\ proc' = [proc EXCEPT ![s] = Ended(s)]
            /\ Works /\ UNCHANGED files
  /\ UNCHANGED <<host, binary, unit, published, ready, crashes, failed>>

-----------------------------------------------------------------------------
(* The old service moves to the new one: doRelocate *)

\* The service is found under the name of the old one: systemd tells it of the process,
\* with the others it is what is installed.
Detected == host.place = "default" /\ (host.manager = "systemd" \/ unit[Old].installed)

\* A container, a service of another name and one without its identity stay where
\* they are.  If the new service is running already the old one only hands over to it.
Plan ==
  /\ \/ ~(Detected /\ HasIdentity(Old)) /\ Go(Old, "relocate", "main")
     \/ /\ Detected /\ HasIdentity(Old) /\ Running(New)
        /\ proc[Old].at = "relocate"
        /\ proc' = [proc EXCEPT ![Old] = Process("sidecars", @.version, @.remote, TRUE)]
     \/ Detected /\ HasIdentity(Old) /\ ~Running(New) /\ Go(Old, "relocate", "binary")
  /\ UNCHANGED <<host, binary, files, unit, published, ready, faults, crashes, failed>>

CopyBinary ==
  /\ \/ Works /\ Go(Old, "binary", "sidecars") /\ binary' = [binary EXCEPT ![New] = binary[Old]]
     \/ Fails /\ Go(Old, "binary", "main") /\ UNCHANGED binary
  /\ UNCHANGED <<host, files, unit, published, ready, crashes, failed>>

\* Fault: the state of the remote control is forgotten.
SidecarsWithoutState == IF host.config = "arg" THEN <<"identity", "config">> ELSE <<"identity">>

\* Fault: the identity is forgotten.
SidecarsWithoutIdentity == IF host.config = "arg" THEN <<"state", "config">> ELSE <<"state">>

\* The files that are copied, in their order: a configuration only if an
\* argument names it.
Sidecars ==
  IF host.config = "arg" THEN <<"identity", "state", "config">> ELSE <<"identity", "state">>

\* The new directory when the first n of them are copied.  A file that the
\* old directory does not have is passed over.
Copied(n) ==
  [f \in Files |-> IF f \in {Sidecars[i] : i \in 1..n} /\ files[Old][f] # "none"
                     THEN files[Old][f] ELSE files[New][f]]

CopySidecars ==
  /\ \/ /\ Works /\ Go(Old, "sidecars", "seed")
        /\ files' = [files EXCEPT ![New] = Copied(Len(Sidecars))]
     \/ /\ Fails /\ Go(Old, "sidecars", "main")
        /\ \E n \in 0..Len(Sidecars) - 1 : files' = [files EXCEPT ![New] = Copied(n)]
  /\ UNCHANGED <<host, binary, unit, published, ready, crashes, failed>>

\* The new directory is not that of an earlier agent, so remote control would
\* be off there: seedRemoteControlState.  Its failure is only logged.
SeedState ==
  /\ Go(Old, "seed", IF proc[Old].joins THEN "prevent" ELSE "install")
  /\ IF files[New]["state"] = "none" /\ host.remote \notin {"on", "off"}
       THEN \/ Works /\ files' = WithState(New, StateOf(host.remote # "nossh"))
            \/ Fails /\ UNCHANGED files
       ELSE Works /\ UNCHANGED files
  /\ UNCHANGED <<host, binary, unit, published, ready, crashes, failed>>

\* The unit is written, then enabled; either may fail.  For upstart to write it is to
\* enable it.
Install ==
  /\ \/ /\ Works /\ Go(Old, "install", "start")
        /\ unit' = [unit EXCEPT ![New] = Unit(TRUE, TRUE, TRUE)]
     \/ /\ Fails /\ Go(Old, "install", "main")
        /\ \/ UNCHANGED unit
           \/ unit' = [unit EXCEPT ![New] = Unit(TRUE, @.enabled \/ host.manager = "upstart", TRUE)]
  /\ UNCHANGED <<host, binary, files, published, ready, crashes, failed>>

StartNew ==
  /\ proc[Old].at = "start"
  /\ \/ /\ Works
        /\ proc' = [proc EXCEPT ![Old] = At(@, "wait"),
                                ![New] = IF @.at = "off" THEN Due ELSE @]
     \/ /\ Fails
        /\ proc' = [proc EXCEPT ![Old] = At(@, "main")]
  /\ UNCHANGED <<host, binary, files, unit, published, ready, crashes, failed>>

\* waitRunning: the old service gives up its place only to one that runs, and
\* stays if that does not happen within the time.
WaitRunning ==
  /\ \/ Running(New) /\ Go(Old, "wait", "prevent")
     \/ ~Running(New) /\ Go(Old, "wait", "main")
  /\ UNCHANGED <<host, binary, files, unit, published, ready, faults, crashes, failed>>

\* A failure is logged.
PreventRestart ==
  /\ Go(Old, "prevent", "disable")
  /\ \/ Works /\ unit' = NoRespawn(Old)
     \/ Fails /\ UNCHANGED unit
  /\ UNCHANGED <<host, binary, files, published, ready, crashes, failed>>

\* A failure is ignored: the old service stays enabled.
DisableNoStop ==
  /\ Go(Old, "disable", "leave")
  /\ \/ Works /\ unit' = Disabled(Old)
     \/ Fails /\ UNCHANGED unit
  /\ UNCHANGED <<host, binary, files, published, ready, crashes, failed>>

\* The old process exits with 0 after the handover.
Leave ==
  /\ proc[Old].at = "leave"
  /\ proc' = [proc EXCEPT ![Old] = Ended(Old)]
  /\ UNCHANGED <<host, binary, files, unit, published, ready, faults, crashes, failed>>

-----------------------------------------------------------------------------
(* The new service removes what is left of the old: retireLeftoverLegacy *)

Retire ==
  /\ IF unit[Old].installed
       THEN /\ Go(New, "relocate", "stop")
            /\ \/ Works /\ unit' = NoRespawn(Old)
               \/ Fails /\ UNCHANGED unit
       ELSE Go(New, "relocate", "main") /\ Works /\ UNCHANGED unit
  /\ UNCHANGED <<host, binary, files, published, ready, crashes, failed>>

\* Fault: the service is removed and its process left.
RemoveRunning ==
  /\ proc[New].at = "stop"
  /\ proc' = [proc EXCEPT ![New] = At(@, "remove")]
  /\ UNCHANGED <<host, binary, files, unit, published, ready, faults, crashes, failed>>

\* Stopping a service ends its process and does not start it again.  That it failed is
\* ignored, and the process goes on.
StopLegacy ==
  /\ proc[New].at = "stop"
  /\ \/ /\ Works
        /\ proc' = [proc EXCEPT ![New] = At(@, "remove"), ![Old] = Off]
        /\ failed' = failed \ {"stop"}
     \/ /\ Fails
        /\ proc' = [proc EXCEPT ![New] = At(@, "remove")]
        /\ failed' = failed \cup {"stop"}
  /\ UNCHANGED <<host, binary, files, unit, published, ready, crashes>>

\* The service is disabled and its file deleted; a supervisor other than systemd goes on
\* restarting a process that was not stopped.  If the file could not be deleted the
\* service is left, enabled if that could not be undone either, and its restart is
\* allowed again where that was written beside the file.
RemoveLegacy ==
  /\ Go(New, "remove", "main")
  /\ \/ /\ Works
        /\ unit' = [unit EXCEPT ![Old] = Unit(FALSE, FALSE, @.respawn /\ host.manager # "systemd")]
        /\ failed' = failed \ {"remove"}
     \/ /\ Fails
        /\ \E enabled \in {unit[Old].enabled, Disabled(Old)[Old].enabled},
              respawn \in {unit[Old].respawn, TRUE} :
             unit' = [unit EXCEPT ![Old] = Unit(TRUE, enabled, respawn)]
        /\ failed' = failed \cup {"remove"}
  /\ UNCHANGED <<host, binary, files, published, ready, crashes>>

-----------------------------------------------------------------------------
(* Updates *)

\* replaceAgentBinary: the state of the remote control is written beside the
\* binary before it is replaced, because the new release may have another
\* default; then the process exits with 42.
CheckAndUpdate(s) ==
  /\ proc[s].at = "main"
  /\ \E r \in Updates(proc[s].version) :
       \/ /\ Works
          /\ files' = WithState(s, StateOf(proc[s].remote))
          /\ binary' = [binary EXCEPT ![s] = r]
          /\ proc' = [proc EXCEPT ![s] = Ended(s)]
       \/ /\ Fails
          /\ UNCHANGED <<binary, proc>>
          /\ \/ UNCHANGED files
             \/ files' = WithState(s, StateOf(proc[s].remote))
  /\ UNCHANGED <<host, unit, published, ready, crashes, failed>>

\* A release appears, and its asset later.
Publish ==
  /\ published < Len(Releases)
  /\ published' = published + 1
  /\ UNCHANGED <<host, binary, files, unit, proc, ready, faults, crashes, failed>>

Attach ==
  /\ \E r \in 1..published \ ready : ready' = ready \cup {r}
  /\ UNCHANGED <<host, binary, files, unit, proc, published, faults, crashes, failed>>

-----------------------------------------------------------------------------
(* Failures from outside *)

\* A process is killed.
Crash(s) ==
  /\ crashes < MaxCrashes
  /\ proc[s].at \notin {"off", "due"}
  /\ proc' = [proc EXCEPT ![s] = Ended(s)]
  /\ crashes' = crashes + 1
  /\ UNCHANGED <<host, binary, files, unit, published, ready, faults, failed>>

\* The host goes down and starts the services that are enabled.
Reboot ==
  /\ crashes < MaxCrashes
  /\ proc' = [s \in Services |-> IF unit[s].enabled THEN Due ELSE Off]
  /\ crashes' = crashes + 1
  /\ failed' = failed \ {"stop"}
  /\ UNCHANGED <<host, binary, files, unit, published, ready, faults>>

-----------------------------------------------------------------------------
\* An agent in the old place, with the files its launch needs.
Init ==
  /\ host \in Hosts
  /\ \E release \in 1..Len(Releases) :
       /\ binary = [s \in Services |-> IF s = Old THEN release ELSE 0]
       /\ published = release /\ ready = 1..release
  /\ \E identity \in IF host.token = "saved" THEN {"there"} ELSE {"none", "there"} :
       files = [s \in Services |-> [f \in Files |->
                  IF s = New THEN "none"
                  ELSE IF f = "identity" THEN identity
                  ELSE IF f = "state" THEN host.state
                  ELSE IF host.config = "none" THEN "none" ELSE "there"]]
  /\ unit = [s \in Services |-> Unit(s = Old, s = Old, s = Old)]
  /\ proc = [s \in Services |-> IF s = Old THEN Due ELSE Off]
  /\ faults = 0 /\ crashes = 0 /\ failed = {}

Relocate ==
  \/ Plan \/ CopyBinary \/ CopySidecars \/ SeedState \/ Install \/ StartNew
  \/ WaitRunning \/ PreventRestart \/ DisableNoStop \/ Leave

RetireLegacy == Retire \/ StopLegacy \/ RemoveLegacy

Next ==
  \/ \E s \in Services : Launch(s) \/ LoadConfig(s) \/ CheckAndUpdate(s) \/ Crash(s)
  \/ Relocate \/ RetireLegacy
  \/ Publish \/ Attach \/ Reboot

Spec == Init /\ [][Next]_vars

\* The processes run, the service manager starts what is due, and every
\* release gets its asset at last.
Fairness ==
  /\ \A s \in Services : WF_vars(Launch(s)) /\ WF_vars(LoadConfig(s)) /\ WF_vars(CheckAndUpdate(s))
  /\ WF_vars(Relocate) /\ WF_vars(RetireLegacy)
  /\ WF_vars(Publish) /\ WF_vars(Attach)

FairSpec == Spec /\ Fairness

-----------------------------------------------------------------------------
(* Properties *)

\* The host never loses its agent: wherever the relocation is, and whatever
\* fails or is killed there, a service is enabled whose launch finds its
\* binary, its configuration and its token (relocate/relocate.go: the old
\* service is disabled after the new one was seen running, and removed by it).
AgentCanStart == \E s \in Services : unit[s].enabled /\ CanStart(s)

\* The old and the new agent do not serve side by side, although both services may be
\* enabled and started at once, unless the order to stop the old one failed
\* (retireLeftoverLegacy runs before the agent connects, and ignores that failure).
OneServes == proc[Old].at = "main" /\ proc[New].at = "main" => "stop" \in failed

\* What the launch, the state file or, on a host with neither, the age of the
\* installation says of remote control in the old place holds for every agent
\* that serves: the move and the updates neither open nor close it.  Excepted
\* is a host on which two steps failed: if neither the old process nor the
\* relocation could write the state file, the failures are only logged and the
\* new place begins with remote control off.
RemoteControlKept ==
  \A s \in Services :
    proc[s].at = "main" /\ faults < 2 =>
      proc[s].remote = IF host.remote # "unset" THEN host.remote = "on"
                       ELSE IF host.state # "none" THEN host.state = "on"
                       ELSE host.place # "container"

\* A binary is never replaced by a release published before it, neither by an update nor
\* by a late copy from the old place; unless the old agent could not be stopped or its
\* service not be removed, and so moves once more.
NeverDowngrades ==
  [][\A s \in Services : binary'[s] >= binary[s] \/ failed # {}]_vars

\* However releases, assets, faults and the move fall together, an agent of
\* the newest release comes to serve and stays.
UpdateArrives ==
  host.place # "container" \/ host.track = "stable"
    => <>[](\E s \in Services : proc[s].at = "main" /\ proc[s].version = Len(Releases))

\* Updates go up and on.
UpdatesAscend == NeverDowngrades /\ UpdateArrives

=============================================================================
