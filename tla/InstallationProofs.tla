------------------------- MODULE InstallationProofs -------------------------
(***************************************************************************)
(* Theorems about Installation, for any releases and any number of faults, *)
(* crashes and reboots: a host whose configuration is not named by the     *)
(* environment of its service never loses its agent; and on any host the   *)
(* old and the new agent never serve side by side if the old one could be  *)
(* stopped, no binary is replaced by an earlier release if it could be     *)
(* removed as well, and remote control stays as it was.                    *)
(*                                                                         *)
(* The argument follows the handover.  Nothing enables the new service     *)
(* before its directory is complete, and nothing takes a file out of it,   *)
(* so an enabled new service can start; the old service is disabled only   *)
(* by a process that has seen the new one run, or by the new one itself.   *)
(***************************************************************************)
EXTENDS Installation, TLAPS

Values == {"none", "there", "on", "off"}

InstallTyped ==
  /\ host \in Hosts
  /\ binary \in [Services -> Nat] /\ binary[Old] # 0
  /\ files \in [Services -> [Files -> Values]]
  /\ unit \in [Services -> [installed : BOOLEAN, enabled : BOOLEAN, respawn : BOOLEAN]]
  /\ proc \in [Services -> [at : Stages, version : Nat, remote : BOOLEAN, joins : BOOLEAN]]
  /\ published \in Nat
  /\ ready \subseteq Nat \ {0}

\* The new directory is complete where the handover relies on it, if no file of the
\* old one is named by the environment of its service.
Complete ==
  host.config # "env" =>
    /\ CanStart(Old)
    /\ proc[Old].at \in {"sidecars", "seed", "install"} /\ ~proc[Old].joins => binary[New] # 0
    /\ proc[Old].at \in {"seed", "install"} /\ ~proc[Old].joins => CanStart(New)
    /\ unit[New].enabled => CanStart(New)

\* The new service is enabled where the handover relies on it.
Enabled ==
  /\ proc[Old].at \in {"relocate", "binary", "install"} => ~proc[Old].joins
  /\ proc[Old].at \in {"sidecars", "seed"} /\ proc[Old].joins => unit[New].enabled
  /\ proc[Old].at \in {"start", "wait", "prevent", "disable", "leave"} => unit[New].enabled
  /\ proc[New].at # "off" => unit[New].enabled
  /\ unit[Old].enabled \/ unit[New].enabled

\* The old agent is gone before the new one serves, unless it could not be stopped, and
\* its service, unless it could not be removed.
Retired ==
  /\ ~unit[Old].installed => ~unit[Old].enabled
  /\ ~unit[Old].installed => proc[Old].at = "off" \/ "stop" \in failed
  /\ proc[New].at \in {"remove", "main"} => proc[Old].at = "off" \/ "stop" \in failed
  /\ proc[New].at = "main" => ~unit[Old].installed \/ "remove" \in failed

InstallInv == InstallTyped /\ Complete /\ Enabled /\ Retired

-----------------------------------------------------------------------------
LEMMA TwoServices == Old # New /\ Services = {Old, New} /\ Old \in Services /\ New \in Services
BY DEF Services, Old, New

LEMMA ProcessTyped ==
  ASSUME NEW a \in Stages, NEW v \in Nat, NEW r \in BOOLEAN, NEW j \in BOOLEAN
  PROVE  /\ Process(a, v, r, j) \in [at : Stages, version : Nat, remote : BOOLEAN, joins : BOOLEAN]
         /\ Process(a, v, r, j).at = a
         /\ Process(a, v, r, j).joins = j
BY DEF Process

LEMMA OffAndDue ==
  /\ Off \in [at : Stages, version : Nat, remote : BOOLEAN, joins : BOOLEAN]
  /\ Due \in [at : Stages, version : Nat, remote : BOOLEAN, joins : BOOLEAN]
  /\ Off.at = "off" /\ Due.at = "due"
BY DEF Off, Due, Process, Stages

LEMMA UnitTyped ==
  ASSUME NEW i \in BOOLEAN, NEW e \in BOOLEAN, NEW r \in BOOLEAN
  PROVE  /\ Unit(i, e, r) \in [installed : BOOLEAN, enabled : BOOLEAN, respawn : BOOLEAN]
         /\ Unit(i, e, r).installed = i
         /\ Unit(i, e, r).enabled = e
BY DEF Unit

LEMMA RemoteControlTyped ==
  ASSUME InstallTyped, NEW s \in Services
  PROVE  RemoteControl(s) \in BOOLEAN
BY DEF RemoteControl, PriorInstall, InstallTyped

\* A step of the old process that changes only its stage.
LEMMA GoTyped ==
  ASSUME InstallTyped, NEW s \in Services, NEW a \in Stages, NEW b \in Stages, Go(s, a, b)
  PROVE  /\ proc' \in [Services -> [at : Stages, version : Nat, remote : BOOLEAN, joins : BOOLEAN]]
         /\ proc'[s].at = b
         /\ proc'[s].joins = proc[s].joins
         /\ \A t \in Services : t # s => proc'[t] = proc[t]
BY DEF InstallTyped, Go, At, Process

-----------------------------------------------------------------------------
LEMMA InitInv ==
  ASSUME Init
  PROVE  InstallInv
<1>1. PICK release \in 1..Len(Releases) :
        /\ binary = [s \in Services |-> IF s = Old THEN release ELSE 0]
        /\ published = release /\ ready = 1..release
  BY DEF Init
<1>2. PICK identity \in IF host.token = "saved" THEN {"there"} ELSE {"none", "there"} :
        files = [s \in Services |-> [f \in Files |->
                  IF s = New THEN "none"
                  ELSE IF f = "identity" THEN identity
                  ELSE IF f = "state" THEN host.state
                  ELSE IF host.config = "none" THEN "none" ELSE "there"]]
  BY DEF Init
<1>3. host \in Hosts /\ host.state \in Values /\ identity \in Values
  BY InstallationAssumption DEF Init, Values
<1>4. /\ unit = [s \in Services |-> Unit(s = Old, s = Old, s = Old)]
      /\ proc = [s \in Services |-> IF s = Old THEN Due ELSE Off]
  BY DEF Init
<1>5. InstallTyped
  <2>1. /\ binary \in [Services -> Nat] /\ binary[Old] # 0
        /\ published \in Nat /\ ready \subseteq Nat \ {0}
    BY <1>1, TwoServices
  <2>2. files \in [Services -> [Files -> Values]]
    BY <1>2, <1>3 DEF Values
  <2>3. unit \in [Services -> [installed : BOOLEAN, enabled : BOOLEAN, respawn : BOOLEAN]]
    BY <1>4 DEF Unit
  <2>4. proc \in [Services -> [at : Stages, version : Nat, remote : BOOLEAN, joins : BOOLEAN]]
    BY <1>4, OffAndDue
  <2>5. QED
    BY <1>3, <2>1, <2>2, <2>3, <2>4 DEF InstallTyped
<1>6. proc[Old].at = "due" /\ proc[New].at = "off"
  BY <1>4, OffAndDue, TwoServices
<1>7. unit[Old].installed /\ unit[Old].enabled /\ ~unit[New].enabled
  BY <1>4, TwoServices DEF Unit
<1>8. CanStart(Old)
  <2>1. binary[Old] # 0
    BY <1>1, TwoServices
  <2>2. host.token = "saved" => files[Old]["identity"] # "none"
    BY <1>2, TwoServices DEF Files
  <2>3. host.config # "none" => files[Old]["config"] # "none"
    BY <1>2, TwoServices DEF Files
  <2>4. QED
    BY <2>1, <2>2, <2>3 DEF CanStart, HasIdentity, HasConfig
<1>9. QED
  BY <1>3, <1>5, <1>6, <1>7, <1>8 DEF InstallInv, Complete, Enabled, Retired

-----------------------------------------------------------------------------
(* One lemma per action. *)

LEMMA LaunchInv ==
  ASSUME InstallInv, NEW s \in Services, Launch(s)
  PROVE  InstallInv'
<1> USE DEF InstallInv
<1>1. UNCHANGED <<host, binary, files, unit, published, ready, failed>>
  BY DEF Launch
<1>2. proc' = [proc EXCEPT ![s] = Process("config", binary[s], FALSE, FALSE)] /\ proc[s].at = "due"
  BY DEF Launch
<1>3. Process("config", binary[s], FALSE, FALSE) \in [at : Stages, version : Nat, remote : BOOLEAN, joins : BOOLEAN]
  BY ProcessTyped DEF InstallTyped, Stages
<1>4. proc'[s].at = "config" /\ \A t \in Services : t # s => proc'[t] = proc[t]
  BY <1>2 DEF InstallTyped, Process
<1>5. InstallTyped'
  BY <1>1, <1>2, <1>3 DEF InstallTyped
<1>6. Complete' /\ Enabled' /\ Retired'
  BY <1>1, <1>2, <1>4, TwoServices DEF Complete, Enabled, Retired, CanStart, HasIdentity, HasConfig
<1>7. QED
  BY <1>5, <1>6

\* The state file never decides whether a service can start.
LEMMA StateKeepsStart ==
  ASSUME InstallTyped, NEW s \in Services, NEW t \in Services, NEW v \in Values,
         files' = WithState(s, v), UNCHANGED <<host, binary>>
  PROVE  /\ files' \in [Services -> [Files -> Values]]
         /\ CanStart(t)' <=> CanStart(t)
<1>1. files' \in [Services -> [Files -> Values]]
  BY DEF WithState, InstallTyped
<1>2. files'[t]["config"] = files[t]["config"] /\ files'[t]["identity"] = files[t]["identity"]
  BY DEF WithState, InstallTyped, Files
<1>3. QED
  BY <1>1, <1>2 DEF CanStart, HasIdentity, HasConfig

LEMMA LoadConfigInv ==
  ASSUME InstallInv, NEW s \in Services, LoadConfig(s)
  PROVE  InstallInv'
<1> USE DEF InstallInv
<1>1. UNCHANGED <<host, binary, unit, published, ready, failed>> /\ proc[s].at = "config"
  BY DEF LoadConfig
<1>2. /\ files' \in [Services -> [Files -> Values]]
      /\ \A t \in Services : CanStart(t)' <=> CanStart(t)
  <2>1. CASE UNCHANGED files
    BY <1>1, <2>1 DEF InstallTyped, CanStart, HasIdentity, HasConfig
  <2>2. CASE files' = WithState(s, "on")
    BY <1>1, <2>2, StateKeepsStart DEF Values
  <2>3. QED
    BY <2>1, <2>2 DEF LoadConfig
<1>3. /\ proc' \in [Services -> [at : Stages, version : Nat, remote : BOOLEAN, joins : BOOLEAN]]
      /\ proc'[s].at \in {"relocate", "off", "due"}
      /\ proc'[s].at = "relocate" => ~proc'[s].joins
      /\ \A t \in Services : t # s => proc'[t] = proc[t]
  <2>1. CASE proc' = [proc EXCEPT ![s] = Process("relocate", proc[s].version, RemoteControl(s), FALSE)]
    <3>1. Process("relocate", proc[s].version, RemoteControl(s), FALSE) \in [at : Stages, version : Nat, remote : BOOLEAN, joins : BOOLEAN]
      <4>1. proc[s].version \in Nat
        BY DEF InstallTyped
      <4>2. RemoteControl(s) \in BOOLEAN
        BY RemoteControlTyped
      <4>3. QED
        BY <4>1, <4>2 DEF Process, Stages
    <3>2. proc'[s].at = "relocate" /\ ~proc'[s].joins
      BY <2>1 DEF InstallTyped, Process
    <3>3. QED
      BY <2>1, <3>1, <3>2 DEF InstallTyped
  <2>2. CASE proc' = [proc EXCEPT ![s] = Ended(s)]
    BY <2>2, OffAndDue DEF InstallTyped, Ended
  <2>3. QED
    BY <2>1, <2>2 DEF LoadConfig
<1>4. InstallTyped'
  BY <1>1, <1>2, <1>3 DEF InstallTyped
<1>5. Complete' /\ Enabled' /\ Retired'
  BY <1>1, <1>2, <1>3, TwoServices DEF Complete, Enabled, Retired
<1>6. QED
  BY <1>4, <1>5

LEMMA PlanInv ==
  ASSUME InstallInv, Plan
  PROVE  InstallInv'
<1> USE DEF InstallInv
<1>1. UNCHANGED <<host, binary, files, unit, published, ready, failed>>
  BY DEF Plan, Detected
<1>2. /\ proc' \in [Services -> [at : Stages, version : Nat, remote : BOOLEAN, joins : BOOLEAN]]
      /\ proc[Old].at = "relocate" /\ proc'[New] = proc[New]
      /\ \/ proc'[Old].at \in {"main", "binary"} /\ proc'[Old].joins = proc[Old].joins
         \/ proc'[Old].at = "sidecars" /\ proc'[Old].joins /\ unit[New].enabled
  <2>1. CASE Go(Old, "relocate", "main") \/ Go(Old, "relocate", "binary")
    BY <2>1, GoTyped, TwoServices DEF Stages, Go
  <2>2. CASE /\ Running(New) /\ proc[Old].at = "relocate"
             /\ proc' = [proc EXCEPT ![Old] = Process("sidecars", @.version, @.remote, TRUE)]
    <3>1. unit[New].enabled
      BY <2>2 DEF Running, Enabled
    <3>2. Process("sidecars", proc[Old].version, proc[Old].remote, TRUE) \in [at : Stages, version : Nat, remote : BOOLEAN, joins : BOOLEAN]
      <4>1. proc[Old].version \in Nat /\ proc[Old].remote \in BOOLEAN
        BY TwoServices DEF InstallTyped
      <4>2. QED
        BY <4>1 DEF Process, Stages
    <3>3. proc'[Old].at = "sidecars" /\ proc'[Old].joins /\ proc'[New] = proc[New]
      BY <2>2, TwoServices DEF InstallTyped, Process
    <3>4. QED
      BY <2>2, <3>1, <3>2, <3>3 DEF InstallTyped
  <2>3. QED
    BY <2>1, <2>2 DEF Plan, Detected
<1>3. InstallTyped'
  BY <1>1, <1>2 DEF InstallTyped
<1>4. Complete' /\ Enabled' /\ Retired'
  BY <1>1, <1>2 DEF Complete, Enabled, Retired, CanStart, HasIdentity, HasConfig
<1>5. QED
  BY <1>3, <1>4

LEMMA CopyBinaryInv ==
  ASSUME InstallInv, CopyBinary
  PROVE  InstallInv'
<1> USE DEF InstallInv
<1>1. UNCHANGED <<host, files, unit, published, ready, failed>>
  BY DEF CopyBinary
<1>2. /\ proc' \in [Services -> [at : Stages, version : Nat, remote : BOOLEAN, joins : BOOLEAN]]
      /\ proc[Old].at = "binary" /\ proc'[New] = proc[New] /\ proc'[Old].joins = proc[Old].joins
      /\ \/ proc'[Old].at = "main" /\ binary' = binary
         \/ proc'[Old].at = "sidecars" /\ binary' = [binary EXCEPT ![New] = binary[Old]]
  BY GoTyped, TwoServices DEF CopyBinary, Stages, Go
<1>3. /\ binary' \in [Services -> Nat]
      /\ binary'[Old] = binary[Old] /\ binary[Old] # 0
      /\ binary'[New] \in {binary[New], binary[Old]}
      /\ proc'[Old].at = "sidecars" => binary'[New] # 0
  BY <1>2, TwoServices DEF InstallTyped
<1>4. InstallTyped'
  BY <1>1, <1>2, <1>3 DEF InstallTyped
<1>5. (CanStart(Old) => CanStart(Old)') /\ (CanStart(New) => CanStart(New)')
  BY <1>1, <1>3 DEF CanStart, HasIdentity, HasConfig
<1>6. Complete'
  BY <1>1, <1>2, <1>3, <1>5 DEF Complete
<1>7. Enabled' /\ Retired'
  BY <1>1, <1>2 DEF Enabled, Retired
<1>8. QED
  BY <1>4, <1>6, <1>7

\* What is copied is added to the new directory, and what its launch needs is
\* all there in the end.
LEMMA CopiedFiles ==
  ASSUME InstallTyped, NEW n \in 0..Len(Sidecars),
         files' = [files EXCEPT ![New] = Copied(n)], UNCHANGED <<host, binary>>
  PROVE  /\ files' \in [Services -> [Files -> Values]]
         /\ CanStart(Old) => CanStart(Old)'
         /\ CanStart(New) => CanStart(New)'
         /\ host.config # "env" /\ CanStart(Old) /\ n = Len(Sidecars) /\ binary[New] # 0
            => CanStart(New)'
<1>1. Copied(n) \in [Files -> Values]
  BY TwoServices DEF InstallTyped, Copied
<1>2. files' \in [Services -> [Files -> Values]]
  BY <1>1 DEF InstallTyped
<1>3. files'[Old] = files[Old] /\ files'[New] = Copied(n)
  BY TwoServices DEF InstallTyped
<1>4. ASSUME NEW f \in Files, files[New][f] # "none"
      PROVE  Copied(n)[f] # "none"
  BY <1>4 DEF Copied
<1>5. ASSUME NEW f \in Files, f \in {Sidecars[i] : i \in 1..n}, files[Old][f] # "none"
      PROVE  Copied(n)[f] # "none"
  BY <1>5 DEF Copied
<1>6. n = Len(Sidecars) =>
        /\ "identity" \in {Sidecars[i] : i \in 1..n}
        /\ host.config = "arg" => "config" \in {Sidecars[i] : i \in 1..n}
  <2>1. CASE host.config = "arg"
    <3>1. Len(Sidecars) = 3 /\ Sidecars[1] = "identity" /\ Sidecars[3] = "config"
      BY <2>1 DEF Sidecars
    <3>2. QED
      BY <3>1
  <2>2. CASE host.config # "arg"
    <3>1. Len(Sidecars) = 2 /\ Sidecars[1] = "identity"
      BY <2>2 DEF Sidecars
    <3>2. QED
      BY <2>2, <3>1
  <2>3. QED
    BY <2>1, <2>2
<1>7. "identity" \in Files /\ "config" \in Files
  BY DEF Files
<1>8. (CanStart(Old) => CanStart(Old)') /\ (CanStart(New) => CanStart(New)')
  BY <1>3, <1>4, <1>7 DEF CanStart, HasIdentity, HasConfig
<1>9. host.config # "env" /\ CanStart(Old) /\ n = Len(Sidecars) /\ binary[New] # 0
      => CanStart(New)'
  <2>1. host.config \in {"none", "arg", "env"}
    BY InstallationAssumption DEF InstallTyped
  <2>2. QED
    BY <1>3, <1>5, <1>6, <1>7, <2>1 DEF CanStart, HasIdentity, HasConfig
<1>10. QED
  BY <1>2, <1>8, <1>9

LEMMA CopySidecarsInv ==
  ASSUME InstallInv, CopySidecars
  PROVE  InstallInv'
<1> USE DEF InstallInv
<1>1. UNCHANGED <<host, binary, unit, published, ready, failed>>
  BY DEF CopySidecars
<1>2. /\ proc' \in [Services -> [at : Stages, version : Nat, remote : BOOLEAN, joins : BOOLEAN]]
      /\ proc[Old].at = "sidecars" /\ proc'[New] = proc[New] /\ proc'[Old].joins = proc[Old].joins
      /\ proc'[Old].at \in {"seed", "main"}
  BY GoTyped, TwoServices DEF CopySidecars, Stages, Go
<1>3. Len(Sidecars) \in {2, 3}
  <2>1. CASE host.config = "arg"
    BY <2>1 DEF Sidecars
  <2>2. CASE host.config # "arg"
    BY <2>2 DEF Sidecars
  <2>3. QED
    BY <2>1, <2>2
<1>4. PICK n \in 0..Len(Sidecars) :
        /\ files' = [files EXCEPT ![New] = Copied(n)]
        /\ proc'[Old].at = "seed" => n = Len(Sidecars)
  <2>1. CASE /\ Go(Old, "sidecars", "seed")
             /\ files' = [files EXCEPT ![New] = Copied(Len(Sidecars))]
    <3>1. Len(Sidecars) \in 0..Len(Sidecars)
      BY <1>3
    <3>2. QED
      BY <2>1, <3>1, Zenon
  <2>2. CASE /\ Go(Old, "sidecars", "main")
             /\ \E n \in 0..Len(Sidecars) - 1 : files' = [files EXCEPT ![New] = Copied(n)]
    <3>1. proc'[Old].at = "main"
      BY <2>2, GoTyped, TwoServices DEF Stages
    <3>2. PICK n \in 0..Len(Sidecars) - 1 : files' = [files EXCEPT ![New] = Copied(n)]
      BY <2>2
    <3>3. n \in 0..Len(Sidecars)
      BY <3>2, <1>3
    <3>4. QED
      BY <3>1, <3>2, <3>3
  <2>3. QED
    BY <2>1, <2>2 DEF CopySidecars
<1>5. /\ files' \in [Services -> [Files -> Values]]
      /\ CanStart(Old) => CanStart(Old)'
      /\ CanStart(New) => CanStart(New)'
      /\ host.config # "env" /\ CanStart(Old) /\ proc'[Old].at = "seed" /\ binary[New] # 0
         => CanStart(New)'
  BY <1>1, <1>4, CopiedFiles
<1>6. InstallTyped'
  BY <1>1, <1>2, <1>5 DEF InstallTyped
<1>7. Complete'
  BY <1>1, <1>2, <1>5 DEF Complete
<1>8. Enabled' /\ Retired'
  BY <1>1, <1>2 DEF Enabled, Retired
<1>9. QED
  BY <1>6, <1>7, <1>8

LEMMA SeedStateInv ==
  ASSUME InstallInv, SeedState
  PROVE  InstallInv'
<1> USE DEF InstallInv
<1>1. UNCHANGED <<host, binary, unit, published, ready, failed>>
  BY DEF SeedState
<1>2. /\ proc' \in [Services -> [at : Stages, version : Nat, remote : BOOLEAN, joins : BOOLEAN]]
      /\ proc[Old].at = "seed" /\ proc'[New] = proc[New] /\ proc'[Old].joins = proc[Old].joins
      /\ proc'[Old].at = IF proc[Old].joins THEN "prevent" ELSE "install"
  BY GoTyped, TwoServices DEF SeedState, Stages, Go
<1>3. /\ files' \in [Services -> [Files -> Values]]
      /\ \A t \in Services : CanStart(t)' <=> CanStart(t)
  <2>1. CASE UNCHANGED files
    BY <1>1, <2>1 DEF InstallTyped, CanStart, HasIdentity, HasConfig
  <2>2. CASE files' = WithState(New, StateOf(host.remote # "nossh"))
    BY <1>1, <2>2, StateKeepsStart, TwoServices DEF Values, StateOf
  <2>3. QED
    BY <2>1, <2>2 DEF SeedState
<1>4. InstallTyped'
  BY <1>1, <1>2, <1>3 DEF InstallTyped
<1>5. Complete'
  BY <1>1, <1>2, <1>3, TwoServices DEF Complete
<1>6. Enabled' /\ Retired'
  BY <1>1, <1>2 DEF Enabled, Retired
<1>7. QED
  BY <1>4, <1>5, <1>6

\* The new service is enabled only by the relocation whose copies are complete.
LEMMA InstallStepInv ==
  ASSUME InstallInv, Install
  PROVE  InstallInv'
<1> USE DEF InstallInv
<1>1. UNCHANGED <<host, binary, files, published, ready, failed>>
  BY DEF Install
<1>2. /\ proc' \in [Services -> [at : Stages, version : Nat, remote : BOOLEAN, joins : BOOLEAN]]
      /\ proc[Old].at = "install" /\ proc'[New] = proc[New] /\ proc'[Old].joins = proc[Old].joins
      /\ proc'[Old].at \in {"start", "main"}
  BY GoTyped, TwoServices DEF Install, Stages, Go
<1>3. /\ unit' \in [Services -> [installed : BOOLEAN, enabled : BOOLEAN, respawn : BOOLEAN]]
      /\ unit'[Old] = unit[Old]
      /\ unit[New].enabled => unit'[New].enabled
      /\ proc'[Old].at = "start" => unit'[New].enabled
  <2>1. CASE Go(Old, "install", "start") /\ unit' = [unit EXCEPT ![New] = Unit(TRUE, TRUE, TRUE)]
    <3>1. proc'[Old].at = "start"
      BY <2>1, GoTyped, TwoServices DEF Stages
    <3>2. QED
      BY <2>1, <3>1, TwoServices DEF InstallTyped, Unit
  <2>2. CASE Go(Old, "install", "main") /\ UNCHANGED unit
    <3>1. proc'[Old].at = "main"
      BY <2>2, GoTyped, TwoServices DEF Stages
    <3>2. QED
      BY <2>2, <3>1, TwoServices DEF InstallTyped
  <2>3. CASE /\ Go(Old, "install", "main")
             /\ unit' = [unit EXCEPT ![New] = Unit(TRUE, @.enabled \/ host.manager = "upstart", TRUE)]
    <3>1. proc'[Old].at = "main"
      BY <2>3, GoTyped, TwoServices DEF Stages
    <3>2. unit[New].enabled \in BOOLEAN
      BY TwoServices DEF InstallTyped
    <3>3. QED
      BY <2>3, <3>1, <3>2, TwoServices DEF InstallTyped, Unit
  <2>4. QED
    BY <2>1, <2>2, <2>3 DEF Install
<1>4. host.config # "env" /\ ~proc[Old].joins => CanStart(New)
  BY <1>2 DEF Complete
<1>5. InstallTyped'
  BY <1>1, <1>2, <1>3 DEF InstallTyped
<1>6. proc[Old].joins => unit[New].enabled
  BY <1>2 DEF Enabled
<1>7. Complete'
  BY <1>1, <1>2, <1>3, <1>4, <1>6 DEF Complete, CanStart, HasIdentity, HasConfig
<1>8. Enabled' /\ Retired'
  BY <1>1, <1>2, <1>3 DEF Enabled, Retired
<1>9. QED
  BY <1>5, <1>7, <1>8

LEMMA StartNewInv ==
  ASSUME InstallInv, StartNew
  PROVE  InstallInv'
<1> USE DEF InstallInv
<1>1. UNCHANGED <<host, binary, files, unit, published, ready, failed>> /\ proc[Old].at = "start"
  BY DEF StartNew
<1>2. \A a \in Stages : At(proc[Old], a) \in [at : Stages, version : Nat, remote : BOOLEAN, joins : BOOLEAN] /\ At(proc[Old], a).at = a
  BY TwoServices DEF At, Process, InstallTyped
<1>3. /\ proc' \in [Services -> [at : Stages, version : Nat, remote : BOOLEAN, joins : BOOLEAN]]
      /\ proc'[Old].at \in {"wait", "main"}
      /\ proc'[New] = proc[New] \/ proc'[New].at = "due"
  <2>1. CASE proc' = [proc EXCEPT ![Old] = At(@, "wait"), ![New] = IF @.at = "off" THEN Due ELSE @]
    BY <2>1, <1>2, OffAndDue, TwoServices DEF InstallTyped, Stages
  <2>2. CASE proc' = [proc EXCEPT ![Old] = At(@, "main")]
    BY <2>2, <1>2, TwoServices DEF InstallTyped, Stages
  <2>3. QED
    BY <2>1, <2>2 DEF StartNew
<1>4. InstallTyped'
  BY <1>1, <1>3 DEF InstallTyped
<1>5. Complete'
  BY <1>1, <1>3 DEF Complete, CanStart, HasIdentity, HasConfig
<1>6. Enabled' /\ Retired'
  BY <1>1, <1>3 DEF Enabled, Retired
<1>7. QED
  BY <1>4, <1>5, <1>6

LEMMA WaitRunningInv ==
  ASSUME InstallInv, WaitRunning
  PROVE  InstallInv'
<1> USE DEF InstallInv
<1>1. UNCHANGED <<host, binary, files, unit, published, ready, failed>>
  BY DEF WaitRunning
<1>2. /\ proc' \in [Services -> [at : Stages, version : Nat, remote : BOOLEAN, joins : BOOLEAN]]
      /\ proc[Old].at = "wait" /\ proc'[New] = proc[New]
      /\ proc'[Old].at \in {"prevent", "main"}
  BY GoTyped, TwoServices DEF WaitRunning, Stages, Go
<1>3. InstallTyped'
  BY <1>1, <1>2 DEF InstallTyped
<1>4. Complete'
  BY <1>1, <1>2 DEF Complete, CanStart, HasIdentity, HasConfig
<1>5. Enabled' /\ Retired'
  BY <1>1, <1>2 DEF Enabled, Retired
<1>6. QED
  BY <1>3, <1>4, <1>5

\* What the two commands leave of the old unit.
LEMMA OldUnit ==
  ASSUME InstallTyped, unit' = unit \/ unit' = NoRespawn(Old) \/ unit' = Disabled(Old)
  PROVE  /\ unit' \in [Services -> [installed : BOOLEAN, enabled : BOOLEAN, respawn : BOOLEAN]]
         /\ unit'[New] = unit[New]
         /\ unit'[Old].installed = unit[Old].installed
         /\ unit'[Old].enabled => unit[Old].enabled
         /\ unit' # Disabled(Old) => unit'[Old].enabled = unit[Old].enabled
<1>1. unit[Old] \in [installed : BOOLEAN, enabled : BOOLEAN, respawn : BOOLEAN]
  BY TwoServices DEF InstallTyped
<1>2. CASE unit' = unit
  BY <1>2, TwoServices DEF InstallTyped
<1>3. CASE unit' = NoRespawn(Old)
  <2>1. unit' = [unit EXCEPT ![Old] = Unit(@.installed, @.enabled, @.respawn /\ host.manager # "systemd")]
    BY <1>3 DEF NoRespawn
  <2>2. unit'[Old] = Unit(unit[Old].installed, unit[Old].enabled, unit[Old].respawn /\ host.manager # "systemd")
    BY <2>1, TwoServices DEF InstallTyped
  <2>3. (unit[Old].respawn /\ host.manager # "systemd") \in BOOLEAN
    OBVIOUS
  <2>4. unit'[Old] \in [installed : BOOLEAN, enabled : BOOLEAN, respawn : BOOLEAN] /\ unit'[Old].installed = unit[Old].installed /\ unit'[Old].enabled = unit[Old].enabled
    BY <1>1, <2>2, <2>3 DEF Unit
  <2>5. QED
    BY <2>1, <2>4, TwoServices DEF InstallTyped
<1>4. CASE unit' = Disabled(Old)
  <2>1. unit' = [unit EXCEPT ![Old] = Unit(@.installed, @.enabled /\ host.manager = "upstart", @.respawn)]
    BY <1>4 DEF Disabled
  <2>2. unit'[Old] = Unit(unit[Old].installed, unit[Old].enabled /\ host.manager = "upstart", unit[Old].respawn)
    BY <2>1, TwoServices DEF InstallTyped
  <2>3. (unit[Old].enabled /\ host.manager = "upstart") \in BOOLEAN
    OBVIOUS
  <2>4. unit'[Old] \in [installed : BOOLEAN, enabled : BOOLEAN, respawn : BOOLEAN] /\ unit'[Old].installed = unit[Old].installed /\ (unit'[Old].enabled => unit[Old].enabled)
    BY <1>1, <2>2, <2>3 DEF Unit
  <2>5. QED
    BY <1>4, <2>1, <2>4, TwoServices DEF InstallTyped
<1>5. QED
  BY <1>2, <1>3, <1>4

LEMMA PreventRestartInv ==
  ASSUME InstallInv, PreventRestart
  PROVE  InstallInv'
<1> USE DEF InstallInv
<1>1. UNCHANGED <<host, binary, files, published, ready, failed>>
  BY DEF PreventRestart
<1>2. /\ proc' \in [Services -> [at : Stages, version : Nat, remote : BOOLEAN, joins : BOOLEAN]]
      /\ proc[Old].at = "prevent" /\ proc'[New] = proc[New] /\ proc'[Old].at = "disable"
  BY GoTyped, TwoServices DEF PreventRestart, Stages, Go
<1>3. /\ unit' \in [Services -> [installed : BOOLEAN, enabled : BOOLEAN, respawn : BOOLEAN]] /\ unit'[New] = unit[New]
      /\ unit'[Old].installed = unit[Old].installed
      /\ unit'[Old].enabled => unit[Old].enabled
  BY OldUnit DEF PreventRestart
<1>4. InstallTyped'
  BY <1>1, <1>2, <1>3 DEF InstallTyped
<1>5. Complete'
  BY <1>1, <1>2, <1>3 DEF Complete, CanStart, HasIdentity, HasConfig
<1>6. Enabled' /\ Retired'
  BY <1>1, <1>2, <1>3 DEF Enabled, Retired
<1>7. QED
  BY <1>4, <1>5, <1>6

\* The old service is disabled when the new one is enabled.
LEMMA DisableNoStopInv ==
  ASSUME InstallInv, DisableNoStop
  PROVE  InstallInv'
<1> USE DEF InstallInv
<1>1. UNCHANGED <<host, binary, files, published, ready, failed>>
  BY DEF DisableNoStop
<1>2. /\ proc' \in [Services -> [at : Stages, version : Nat, remote : BOOLEAN, joins : BOOLEAN]]
      /\ proc[Old].at = "disable" /\ proc'[New] = proc[New]
      /\ proc'[Old].at \in {"leave", "main"}
  <2>1. CASE Go(Old, "disable", "leave")
    BY <2>1, GoTyped, TwoServices DEF Stages, Go
  <2>2. CASE Go(Old, "disable", "main")
    BY <2>2, GoTyped, TwoServices DEF Stages, Go
  <2>3. QED
    BY <2>1, <2>2 DEF DisableNoStop
<1>3. /\ unit' \in [Services -> [installed : BOOLEAN, enabled : BOOLEAN, respawn : BOOLEAN]] /\ unit'[New] = unit[New]
      /\ unit'[Old].installed = unit[Old].installed
      /\ unit'[Old].enabled => unit[Old].enabled
  BY OldUnit DEF DisableNoStop
<1>4. InstallTyped'
  BY <1>1, <1>2, <1>3 DEF InstallTyped
<1>5. Complete'
  BY <1>1, <1>2, <1>3 DEF Complete, CanStart, HasIdentity, HasConfig
<1>6. Enabled' /\ Retired'
  BY <1>1, <1>2, <1>3 DEF Enabled, Retired
<1>7. QED
  BY <1>4, <1>5, <1>6

LEMMA EndedTyped ==
  ASSUME NEW s \in Services
  PROVE  /\ Ended(s) \in [at : Stages, version : Nat, remote : BOOLEAN, joins : BOOLEAN]
         /\ Ended(s).at \in {"off", "due"}
BY OffAndDue DEF Ended

\* A process that ends disturbs nothing.
LEMMA EndInv ==
  ASSUME InstallInv, NEW s \in Services, proc[s].at # "off",
         proc' = [proc EXCEPT ![s] = Ended(s)],
         UNCHANGED <<host, unit, failed>>,
         InstallTyped', \A t \in Services : CanStart(t) => CanStart(t)',
         \A t \in Services : binary[t] # 0 => binary'[t] # 0
  PROVE  InstallInv'
<1> USE DEF InstallInv
<1>1. /\ proc'[s].at \in {"off", "due"}
      /\ \A t \in Services : t # s => proc'[t] = proc[t]
  BY EndedTyped DEF InstallTyped
<1>2. Complete'
  BY <1>1, TwoServices DEF Complete
<1>3. Enabled'
  BY <1>1, TwoServices DEF Enabled
<1>4. Retired'
  BY <1>1, TwoServices DEF Retired
<1>5. QED
  BY <1>2, <1>3, <1>4

LEMMA LeaveInv ==
  ASSUME InstallInv, Leave
  PROVE  InstallInv'
<1>1. InstallTyped'
  BY EndedTyped, TwoServices DEF Leave, InstallInv, InstallTyped
<1>2. \A t \in Services : CanStart(t) => CanStart(t)'
  BY DEF Leave, CanStart, HasIdentity, HasConfig
<1>3. QED
  BY <1>1, <1>2, EndInv, TwoServices DEF Leave

LEMMA CrashInv ==
  ASSUME InstallInv, NEW s \in Services, Crash(s)
  PROVE  InstallInv'
<1>1. InstallTyped'
  BY EndedTyped DEF Crash, InstallInv, InstallTyped
<1>2. \A t \in Services : CanStart(t) => CanStart(t)'
  BY DEF Crash, CanStart, HasIdentity, HasConfig
<1>3. QED
  BY <1>1, <1>2, EndInv DEF Crash

LEMMA RetireInv ==
  ASSUME InstallInv, Retire
  PROVE  InstallInv'
<1> USE DEF InstallInv
<1>1. UNCHANGED <<host, binary, files, published, ready, failed>>
  BY DEF Retire
<1>2. /\ proc' \in [Services -> [at : Stages, version : Nat, remote : BOOLEAN, joins : BOOLEAN]]
      /\ proc[New].at = "relocate" /\ proc'[Old] = proc[Old]
      /\ IF unit[Old].installed THEN proc'[New].at = "stop" ELSE proc'[New].at = "main"
  BY GoTyped, TwoServices DEF Retire, Stages, Go
<1>3. /\ unit' \in [Services -> [installed : BOOLEAN, enabled : BOOLEAN, respawn : BOOLEAN]] /\ unit'[New] = unit[New]
      /\ unit'[Old].installed = unit[Old].installed
      /\ unit'[Old].enabled => unit[Old].enabled
  BY OldUnit DEF Retire
<1>4. InstallTyped'
  BY <1>1, <1>2, <1>3 DEF InstallTyped
<1>5. Complete'
  BY <1>1, <1>2, <1>3 DEF Complete, CanStart, HasIdentity, HasConfig
<1>6. Enabled' /\ Retired'
  BY <1>1, <1>2, <1>3 DEF Enabled, Retired
<1>7. QED
  BY <1>4, <1>5, <1>6

LEMMA StopLegacyInv ==
  ASSUME InstallInv, StopLegacy
  PROVE  InstallInv'
<1> USE DEF InstallInv
<1>1. UNCHANGED <<host, binary, files, unit, published, ready>> /\ proc[New].at = "stop"
  BY DEF StopLegacy
<1>2. At(proc[New], "remove") \in [at : Stages, version : Nat, remote : BOOLEAN, joins : BOOLEAN] /\ At(proc[New], "remove").at = "remove"
  BY TwoServices DEF At, Process, InstallTyped, Stages
<1>3. \/ proc' = [proc EXCEPT ![New] = At(@, "remove"), ![Old] = Off] /\ failed' = failed \ {"stop"}
      \/ proc' = [proc EXCEPT ![New] = At(@, "remove")] /\ failed' = failed \cup {"stop"}
  BY DEF StopLegacy
<1>4. /\ proc' \in [Services -> [at : Stages, version : Nat, remote : BOOLEAN, joins : BOOLEAN]]
      /\ proc'[New].at = "remove" /\ ("remove" \in failed' <=> "remove" \in failed)
      /\ \/ proc'[Old].at = "off"
         \/ proc'[Old] = proc[Old] /\ "stop" \in failed'
  BY <1>2, <1>3, OffAndDue, TwoServices DEF InstallTyped
<1>5. InstallTyped'
  BY <1>1, <1>4 DEF InstallTyped
<1>6. Complete'
  BY <1>1, <1>4 DEF Complete, CanStart, HasIdentity, HasConfig
<1>7. Enabled' /\ Retired'
  BY <1>1, <1>4 DEF Enabled, Retired
<1>8. QED
  BY <1>5, <1>6, <1>7

\* The old service is removed, or that is known to have failed.
LEMMA RemoveLegacyInv ==
  ASSUME InstallInv, RemoveLegacy
  PROVE  InstallInv'
<1> USE DEF InstallInv
<1>1. UNCHANGED <<host, binary, files, published, ready>>
  BY DEF RemoveLegacy
<1>2. /\ proc' \in [Services -> [at : Stages, version : Nat, remote : BOOLEAN, joins : BOOLEAN]]
      /\ proc[New].at = "remove" /\ proc'[Old] = proc[Old] /\ proc'[New].at = "main"
  BY GoTyped, TwoServices DEF RemoveLegacy, Stages, Go
<1>3. /\ unit' \in [Services -> [installed : BOOLEAN, enabled : BOOLEAN, respawn : BOOLEAN]] /\ unit'[New] = unit[New]
      /\ ("stop" \in failed' <=> "stop" \in failed)
      /\ \/ ~unit'[Old].installed /\ ~unit'[Old].enabled
         \/ unit'[Old].installed /\ "remove" \in failed'
  <2>1. unit[Old].respawn \in BOOLEAN /\ unit[Old].enabled \in BOOLEAN /\ Disabled(Old)[Old].enabled \in BOOLEAN
    <3>1. unit[Old].respawn \in BOOLEAN /\ unit[Old].enabled \in BOOLEAN
      BY TwoServices DEF InstallTyped
    <3>2. Disabled(Old)[Old] = Unit(unit[Old].installed, unit[Old].enabled /\ host.manager = "upstart", unit[Old].respawn)
      BY TwoServices DEF Disabled, InstallTyped
    <3>3. Disabled(Old)[Old].enabled = (unit[Old].enabled /\ host.manager = "upstart")
      BY <3>2 DEF Unit
    <3>4. QED
      BY <3>1, <3>3
  <2>2. CASE /\ unit' = [unit EXCEPT ![Old] = Unit(FALSE, FALSE, @.respawn /\ host.manager # "systemd")]
             /\ failed' = failed \ {"remove"}
    BY <2>1, <2>2, TwoServices DEF InstallTyped, Unit
  <2>3. ASSUME NEW enabled \in {unit[Old].enabled, Disabled(Old)[Old].enabled},
               NEW respawn \in {unit[Old].respawn, TRUE},
               unit' = [unit EXCEPT ![Old] = Unit(TRUE, enabled, respawn)],
               failed' = failed \cup {"remove"}
        PROVE  /\ unit' \in [Services -> [installed : BOOLEAN, enabled : BOOLEAN, respawn : BOOLEAN]] /\ unit'[New] = unit[New]
               /\ unit'[Old].installed /\ "remove" \in failed' /\ ("stop" \in failed' <=> "stop" \in failed)
    <3>1. enabled \in BOOLEAN /\ respawn \in BOOLEAN
      BY <2>1, <2>3
    <3>2. QED
      BY <2>3, <3>1, TwoServices DEF InstallTyped, Unit
  <2>4. QED
    BY <2>2, <2>3 DEF RemoveLegacy
<1>4. InstallTyped'
  BY <1>1, <1>2, <1>3 DEF InstallTyped
<1>5. Complete'
  BY <1>1, <1>2, <1>3 DEF Complete, CanStart, HasIdentity, HasConfig
<1>6. Enabled' /\ Retired'
  BY <1>1, <1>2, <1>3 DEF Enabled, Retired
<1>7. QED
  BY <1>4, <1>5, <1>6

LEMMA CheckAndUpdateInv ==
  ASSUME InstallInv, NEW s \in Services, CheckAndUpdate(s)
  PROVE  InstallInv'
<1> USE DEF InstallInv
<1>1. PICK r \in Updates(proc[s].version) :
        \/ /\ files' = WithState(s, StateOf(proc[s].remote))
           /\ binary' = [binary EXCEPT ![s] = r]
           /\ proc' = [proc EXCEPT ![s] = Ended(s)]
        \/ /\ UNCHANGED <<binary, proc>>
           /\ files' = files \/ files' = WithState(s, StateOf(proc[s].remote))
  BY DEF CheckAndUpdate
<1>2. UNCHANGED <<host, unit, published, ready, failed>> /\ proc[s].at = "main"
  BY DEF CheckAndUpdate
<1>3. r \in Nat \ {0}
  BY DEF Updates, LatestStable, LatestSnapshot, Listed, HasAsset, InstallTyped
<1>4. /\ files' \in [Services -> [Files -> Values]]
      /\ \A t \in Services : /\ files'[t]["config"] = files[t]["config"]
                             /\ files'[t]["identity"] = files[t]["identity"]
  <2>1. CASE files' = files
    BY <2>1 DEF InstallTyped
  <2>2. CASE files' = WithState(s, StateOf(proc[s].remote))
    BY <2>2 DEF InstallTyped, WithState, StateOf, Files, Values
  <2>3. QED
    BY <1>1, <2>1, <2>2
<1>5. /\ binary' \in [Services -> Nat]
      /\ \A t \in Services : binary[t] # 0 => binary'[t] # 0
  BY <1>1, <1>3 DEF InstallTyped
<1>6. \A t \in Services : CanStart(t) => CanStart(t)'
  BY <1>2, <1>4, <1>5 DEF CanStart, HasIdentity, HasConfig
<1>7. InstallTyped'
  BY <1>1, <1>2, <1>4, <1>5, EndedTyped, TwoServices DEF InstallTyped
<1>8. CASE proc' = [proc EXCEPT ![s] = Ended(s)]
  BY <1>2, <1>5, <1>6, <1>7, <1>8, EndInv
<1>9. CASE UNCHANGED proc
  <2>1. Complete'
    BY <1>2, <1>5, <1>6, <1>9, TwoServices DEF Complete
  <2>2. Enabled' /\ Retired'
    BY <1>2, <1>9 DEF Enabled, Retired
  <2>3. QED
    BY <1>7, <2>1, <2>2
<1>10. QED
  BY <1>1, <1>8, <1>9

LEMMA PublishInv ==
  ASSUME InstallInv, Publish \/ Attach
  PROVE  InstallInv'
<1> USE DEF InstallInv
<1>1. UNCHANGED <<host, binary, files, unit, proc, failed>>
  BY DEF Publish, Attach
<1>2. published' \in Nat /\ ready' \subseteq Nat \ {0}
  <2>1. CASE Publish
    BY <2>1 DEF Publish, InstallTyped
  <2>2. CASE Attach
    <3>1. PICK r \in 1..published \ ready : ready' = ready \cup {r}
      BY <2>2 DEF Attach
    <3>2. r \in Nat \ {0}
      BY <3>1 DEF InstallTyped
    <3>3. QED
      BY <2>2, <3>1, <3>2 DEF Attach, InstallTyped
  <2>3. QED
    BY <2>1, <2>2
<1>3. InstallTyped'
  BY <1>1, <1>2 DEF InstallTyped
<1>4. Complete' /\ Enabled' /\ Retired'
  BY <1>1 DEF Complete, Enabled, Retired, CanStart, HasIdentity, HasConfig
<1>5. QED
  BY <1>3, <1>4

\* A reboot starts what is enabled, and a service that is gone is not.
LEMMA RebootInv ==
  ASSUME InstallInv, Reboot
  PROVE  InstallInv'
<1> USE DEF InstallInv
<1>1. UNCHANGED <<host, binary, files, unit, published, ready>>
  BY DEF Reboot
<1>2. \A t \in Services : proc'[t] = IF unit[t].enabled THEN Due ELSE Off
  BY DEF Reboot
<1>3. proc' \in [Services -> [at : Stages, version : Nat, remote : BOOLEAN, joins : BOOLEAN]]
  BY OffAndDue DEF Reboot
<1>4. /\ proc'[Old].at = IF unit[Old].enabled THEN "due" ELSE "off"
      /\ proc'[New].at = IF unit[New].enabled THEN "due" ELSE "off"
  BY <1>2, OffAndDue, TwoServices
<1>5. InstallTyped'
  BY <1>1, <1>3 DEF InstallTyped
<1>6. Complete'
  BY <1>1, <1>4 DEF Complete, CanStart, HasIdentity, HasConfig
<1>7. Enabled' /\ Retired'
  BY <1>1, <1>4 DEF Enabled, Retired
<1>8. QED
  BY <1>5, <1>6, <1>7

LEMMA StutterInv ==
  ASSUME InstallInv, UNCHANGED vars
  PROVE  InstallInv'
BY DEF vars, InstallInv, InstallTyped, Complete, Enabled, Retired, CanStart, HasIdentity, HasConfig

LEMMA StepInv == InstallInv /\ [Next]_vars => InstallInv'
<1> SUFFICES ASSUME InstallInv, [Next]_vars PROVE InstallInv'
  OBVIOUS
<1>1. ASSUME NEW s \in Services, Launch(s) \/ LoadConfig(s) \/ CheckAndUpdate(s) \/ Crash(s)
      PROVE  InstallInv'
  BY <1>1, LaunchInv, LoadConfigInv, CheckAndUpdateInv, CrashInv
<1>2. CASE Relocate
  BY <1>2, PlanInv, CopyBinaryInv, CopySidecarsInv, SeedStateInv, InstallStepInv, StartNewInv,
     WaitRunningInv, PreventRestartInv, DisableNoStopInv, LeaveInv DEF Relocate
<1>3. CASE RetireLegacy
  BY <1>3, RetireInv, StopLegacyInv, RemoveLegacyInv DEF RetireLegacy
<1>4. CASE Publish \/ Attach \/ Reboot
  BY <1>4, PublishInv, RebootInv
<1>5. CASE UNCHANGED vars
  BY <1>5, StutterInv
<1>6. QED
  BY <1>1, <1>2, <1>3, <1>4, <1>5 DEF Next

LEMMA InvConsequences ==
  ASSUME InstallInv
  PROVE  (host.config # "env" => AgentCanStart) /\ OneServes
<1>1. host.config # "env" => AgentCanStart
  BY TwoServices DEF InstallInv, Complete, Enabled, AgentCanStart
<1>2. OneServes
  BY DEF InstallInv, Retired, OneServes
<1>3. QED
  BY <1>1, <1>2

-----------------------------------------------------------------------------
(* The theorems *)

\* On a host whose configuration is not named by the environment of its
\* service, a service is enabled at every moment of the move whose launch
\* finds all it needs (doRelocate, retireLeftoverLegacy, replaceAgentBinary).
THEOREM AgentNeverLost ==
  ASSUME \A h \in Hosts : h.config # "env"
  PROVE  Spec => []AgentCanStart
<1>1. Init => InstallInv
  BY InitInv
<1>2. InstallInv /\ [Next]_vars => InstallInv'
  BY StepInv
<1>3. InstallInv => AgentCanStart
  BY InvConsequences DEF InstallInv, InstallTyped
<1>4. QED
  BY <1>1, <1>2, <1>3, PTL DEF Spec

\* On any host, the old and the new agent never serve at the same time, whatever fails but
\* the order to stop the old one, whose failure StopDisableRemove ignores.
THEOREM OldAndNewNeverServeTogether == Spec => []OneServes
<1>1. Init => InstallInv
  BY InitInv
<1>2. InstallInv /\ [Next]_vars => InstallInv'
  BY StepInv
<1>3. InstallInv => OneServes
  BY InvConsequences
<1>4. QED
  BY <1>1, <1>2, <1>3, PTL DEF Spec

-----------------------------------------------------------------------------
(* Updates *)

\* Releases are published in the order of their versions.
ReleasesInOrder == \A i, j \in 1..Len(Releases) : i < j => NeedUpdate(i, j)

\* Only a release whose asset was there is installed, and as long as the old service
\* exists, its removal not having failed, the new one has none that the old one has not.
ReleaseInv ==
  /\ published \in 0..Len(Releases)
  /\ ready \subseteq 1..published
  /\ \A s \in Services : binary[s] \in ready \cup {0}
  /\ unit[Old].installed /\ "remove" \notin failed => binary[New] <= binary[Old]

\* A step that leaves the binaries and the releases alone, and installs nothing in the
\* old place.
LEMMA ReleasesLeftAlone ==
  ASSUME ReleaseInv, UNCHANGED <<binary, published, ready>>,
         unit'[Old].installed /\ "remove" \notin failed' => unit[Old].installed /\ "remove" \notin failed
  PROVE  ReleaseInv'
BY DEF ReleaseInv

LEMMA ReleaseFacts ==
  ASSUME ReleaseInv
  PROVE  /\ Len(Releases) \in Nat /\ published \in Nat /\ published <= Len(Releases)
         /\ \A r \in ready : r \in Nat /\ 1 <= r /\ r <= published /\ r \in 1..Len(Releases)
<1>1. Len(Releases) \in Nat
  BY InstallationAssumption
<1>2. published \in Nat /\ published <= Len(Releases)
  BY <1>1 DEF ReleaseInv
<1>3. \A r \in ready : r \in 1..published
  BY DEF ReleaseInv
<1>4. QED
  BY <1>1, <1>2, <1>3

\* What an update installs was published, and not before what is there.
LEMMA UpdatesAreNewer ==
  ASSUME ReleasesInOrder, ReleaseInv, NEW s \in Services, NEW v, NEW r \in Updates(v)
  PROVE  r \in ready /\ r \in Nat /\ r >= binary[s]
<1>1. /\ Len(Releases) \in Nat /\ published \in 0..Len(Releases)
      /\ ready \subseteq 1..published /\ binary[s] \in ready \cup {0}
  BY InstallationAssumption DEF ReleaseInv
<1>2. r \in ready
  BY DEF Updates, LatestStable, LatestSnapshot, HasAsset
<1>3. CASE binary[s] = 0
  BY <1>2, <1>3, ReleaseFacts
<1>4. CASE binary[s] # 0
  <2>1. binary[s] \in ready /\ binary[s] \in Listed
    BY <1>1, <1>4 DEF Listed
  <2>2. CASE r \in LatestStable(v)
    <3>1. ~NeedUpdate(r, binary[s])
      BY <2>1, <2>2 DEF LatestStable
    <3>2. r \in 1..Len(Releases) /\ binary[s] \in 1..Len(Releases)
      BY <1>2, <2>1, ReleaseFacts
    <3>3. ~(r < binary[s])
      BY <3>1, <3>2 DEF ReleasesInOrder
    <3>4. QED
      BY <1>2, <2>1, <3>3, ReleaseFacts
  <2>3. CASE r \in LatestSnapshot(v)
    BY <1>2, <2>1, <2>3, ReleaseFacts DEF LatestSnapshot, HasAsset
  <2>4. QED
    BY <2>2, <2>3 DEF Updates
<1>5. QED
  BY <1>3, <1>4

\* The new service updates itself only when the old one is gone or could not be removed.
LEMMA UpdateInstalls ==
  ASSUME ReleasesInOrder, InstallInv, ReleaseInv, NEW s \in Services, CheckAndUpdate(s)
  PROVE  ReleaseInv' /\ \A t \in Services : binary'[t] >= binary[t]
<1>1. UNCHANGED <<unit, published, ready, failed>> /\ proc[s].at = "main"
  BY DEF CheckAndUpdate
<1>2. binary \in [Services -> Nat]
  BY DEF InstallInv, InstallTyped
<1>3. CASE UNCHANGED binary
  <2>1. ReleaseInv'
    BY <1>1, <1>3, ReleasesLeftAlone
  <2>2. QED
    BY <1>2, <1>3, <2>1
<1>4. ASSUME NEW r \in Updates(proc[s].version), binary' = [binary EXCEPT ![s] = r]
      PROVE  ReleaseInv' /\ \A t \in Services : binary'[t] >= binary[t]
  <2>1. r \in ready /\ r >= binary[s] /\ r \in Nat
    BY <1>4, UpdatesAreNewer
  <2>2. /\ binary'[s] = r /\ \A t \in Services : t # s => binary'[t] = binary[t]
        /\ \A t \in Services : binary[t] \in Nat
    BY <1>2, <1>4
  <2>3. unit[Old].installed /\ "remove" \notin failed => s = Old
    BY <1>1, TwoServices DEF InstallInv, Retired
  <2>4. unit[Old].installed /\ "remove" \notin failed => binary'[New] <= binary'[Old]
    BY <2>1, <2>2, <2>3, TwoServices DEF ReleaseInv
  <2>5. ReleaseInv'
    BY <1>1, <2>1, <2>2, <2>4 DEF ReleaseInv
  <2>6. QED
    BY <2>1, <2>2, <2>5
<1>5. QED
  BY <1>3, <1>4 DEF CheckAndUpdate

\* A copy from the old place brings nothing older, if the retirement did not fail.
LEMMA CopyInstalls ==
  ASSUME InstallInv, ReleaseInv, CopyBinary
  PROVE  ReleaseInv' /\ \A t \in Services : binary'[t] >= binary[t] \/ failed # {}
<1>1. UNCHANGED <<unit, published, ready, failed>> /\ proc[Old].at = "binary"
  BY DEF CopyBinary, Go
<1>2. binary \in [Services -> Nat]
  BY DEF InstallInv, InstallTyped
<1>3. CASE UNCHANGED binary
  <2>1. ReleaseInv'
    BY <1>1, <1>3, ReleasesLeftAlone
  <2>2. QED
    BY <1>2, <1>3, <2>1
<1>4. CASE binary' = [binary EXCEPT ![New] = binary[Old]]
  <2>1. binary[New] <= binary[Old] \/ failed # {}
    BY <1>1 DEF InstallInv, Retired, ReleaseInv
  <2>2. binary'[New] = binary[Old] /\ binary'[Old] = binary[Old] /\ binary[Old] \in Nat /\ binary[New] \in Nat
    BY <1>2, <1>4, TwoServices
  <2>3. ReleaseInv'
    BY <1>1, <2>2, TwoServices DEF ReleaseInv
  <2>4. QED
    BY <2>1, <2>2, <2>3, TwoServices
<1>5. QED
  BY <1>3, <1>4 DEF CopyBinary

\* No other step touches a binary, and none installs the old service again.
LEMMA OthersKeepBinaries ==
  ASSUME InstallInv, [Next]_vars,
         ~CopyBinary, \A s \in Services : ~CheckAndUpdate(s)
  PROVE  /\ UNCHANGED binary
         /\ unit'[Old].installed /\ "remove" \notin failed' => unit[Old].installed /\ "remove" \notin failed
<1>1. ASSUME NEW s \in Services, Launch(s) \/ LoadConfig(s) \/ Crash(s)
      PROVE  UNCHANGED <<binary, unit, failed>>
  BY <1>1 DEF Launch, LoadConfig, Crash
<1>2. CASE Plan \/ CopySidecars \/ SeedState \/ StartNew \/ WaitRunning \/ Leave
  BY <1>2 DEF Plan, Detected, CopySidecars, SeedState, StartNew, WaitRunning, Leave
<1>3. CASE Install
  <2>1. UNCHANGED <<binary, failed>>
    BY <1>3 DEF Install
  <2>2. unit'[Old] = unit[Old]
    BY <1>3, TwoServices DEF Install, InstallInv, InstallTyped
  <2>3. QED
    BY <2>1, <2>2
<1>4. CASE PreventRestart \/ DisableNoStop \/ Retire
  <2>1. UNCHANGED <<binary, failed>>
    BY <1>4 DEF PreventRestart, DisableNoStop, Retire
  <2>2. unit' = unit \/ unit' = NoRespawn(Old) \/ unit' = Disabled(Old)
    BY <1>4 DEF PreventRestart, DisableNoStop, Retire
  <2>3. QED
    BY <2>1, <2>2, OldUnit DEF InstallInv
<1>5. CASE StopLegacy \/ Publish \/ Attach \/ Reboot \/ UNCHANGED vars
  BY <1>5 DEF StopLegacy, Publish, Attach, Reboot, vars
<1>6. CASE RemoveLegacy
  <2>1. CASE failed' = failed \cup {"remove"}
    BY <1>6, <2>1 DEF RemoveLegacy
  <2>2. CASE unit' = [unit EXCEPT ![Old] = Unit(FALSE, FALSE, @.respawn /\ host.manager # "systemd")]
    <3>1. ~unit'[Old].installed
      BY <2>2, TwoServices DEF InstallInv, InstallTyped, Unit
    <3>2. QED
      BY <1>6, <3>1 DEF RemoveLegacy
  <2>3. QED
    BY <1>6, <2>1, <2>2 DEF RemoveLegacy
<1>7. QED
  BY <1>1, <1>2, <1>3, <1>4, <1>5, <1>6 DEF Next, Relocate, RetireLegacy

LEMMA ReleaseStep ==
  ASSUME ReleasesInOrder, InstallInv, ReleaseInv, [Next]_vars
  PROVE  ReleaseInv' /\ \A t \in Services : binary'[t] >= binary[t] \/ failed # {}
<1>1. CASE CopyBinary
  BY <1>1, CopyInstalls
<1>2. CASE \E s \in Services : CheckAndUpdate(s)
  BY <1>2, UpdateInstalls
<1>3. CASE ~CopyBinary /\ \A s \in Services : ~CheckAndUpdate(s)
  <2>1. /\ UNCHANGED binary
        /\ unit'[Old].installed /\ "remove" \notin failed' => unit[Old].installed /\ "remove" \notin failed
    BY <1>3, OthersKeepBinaries
  <2>2. \A t \in Services : binary'[t] >= binary[t]
    BY <2>1 DEF InstallInv, InstallTyped
  <2>3. CASE UNCHANGED <<published, ready>>
    BY <2>1, <2>2, <2>3, ReleasesLeftAlone
  <2>4. CASE Publish \/ Attach
    <3>1. /\ published' \in 0..Len(Releases) /\ published <= published'
          /\ ready' \subseteq 1..published' /\ ready \subseteq ready'
      <4>1. ready \subseteq 1..published
        BY DEF ReleaseInv
      <4>2. CASE Publish
        <5>1. published' = published + 1 /\ published < Len(Releases) /\ ready' = ready
          BY <4>2 DEF Publish
        <5>2. QED
          BY <4>1, <5>1, ReleaseFacts
      <4>3. CASE Attach
        <5>1. published' = published /\ ready \subseteq ready' /\ ready' \subseteq 1..published
          BY <4>1, <4>3 DEF Attach
        <5>2. QED
          BY <5>1, ReleaseFacts
      <4>4. QED
        BY <2>4, <4>2, <4>3
    <3>2. QED
      BY <2>1, <2>2, <2>4, <3>1 DEF ReleaseInv
  <2>5. UNCHANGED <<published, ready>> \/ Publish \/ Attach
    <3>1. ASSUME NEW s \in Services, Launch(s) \/ LoadConfig(s) \/ CheckAndUpdate(s) \/ Crash(s)
          PROVE  UNCHANGED <<published, ready>>
      BY <3>1 DEF Launch, LoadConfig, CheckAndUpdate, Crash
    <3>2. CASE Relocate
      BY <3>2 DEF Relocate, Plan, Detected, CopyBinary, CopySidecars, SeedState, Install, StartNew,
                  WaitRunning, PreventRestart, DisableNoStop, Leave
    <3>3. CASE RetireLegacy
      BY <3>3 DEF RetireLegacy, Retire, StopLegacy, RemoveLegacy
    <3>4. CASE Reboot \/ UNCHANGED vars
      BY <3>4 DEF Reboot, vars
    <3>5. QED
      BY <3>1, <3>2, <3>3, <3>4 DEF Next
  <2>6. QED
    BY <2>3, <2>4, <2>5
<1>4. QED
  BY <1>1, <1>2, <1>3

LEMMA ReleaseInit ==
  ASSUME Init
  PROVE  ReleaseInv
<1>1. PICK release \in 1..Len(Releases) :
        /\ binary = [s \in Services |-> IF s = Old THEN release ELSE 0]
        /\ published = release /\ ready = 1..release
  BY DEF Init
<1>2. Len(Releases) \in Nat
  BY InstallationAssumption
<1>3. binary[Old] = release /\ binary[New] = 0
  BY <1>1, TwoServices
<1>4. QED
  BY <1>1, <1>2, <1>3, TwoServices DEF ReleaseInv

\* If releases are published in the order of their versions, no step replaces a binary by
\* an earlier release: neither an update on either track nor a late copy from the old place,
\* unless the old agent could not be stopped or its service not be removed.
THEOREM BinariesOnlyAscend ==
  ASSUME ReleasesInOrder
  PROVE  Spec => NeverDowngrades
<1>1. Init => InstallInv /\ ReleaseInv
  BY InitInv, ReleaseInit
<1>2. InstallInv /\ ReleaseInv /\ [Next]_vars => InstallInv' /\ ReleaseInv'
  BY StepInv, ReleaseStep
<1>3. InstallInv /\ ReleaseInv /\ [Next]_vars
      => [\A s \in Services : binary'[s] >= binary[s] \/ failed # {}]_vars
  BY ReleaseStep
<1>4. QED
  BY <1>1, <1>2, <1>3, PTL DEF Spec, NeverDowngrades

-----------------------------------------------------------------------------
(* Remote control *)

\* What RemoteControlKept asks of every agent that serves.
Wanted ==
  IF host.remote # "unset" THEN host.remote = "on"
  ELSE IF host.state # "none" THEN host.state = "on"
  ELSE host.place # "container"

\* A process at these stages knows whether remote control is on.
Knowing == Stages \ {"off", "due", "config"}

\* The stages of a move, and those of them at which the new state is written.
Moving == {"binary", "sidecars", "seed", "install", "start", "wait", "prevent", "disable", "leave"}
Seeded == {"install", "start", "wait", "prevent", "disable", "leave"}

\* The state in the old directory is never wrong; a process that knows and has not
\* written it has failed to.
OldState ==
  /\ files[Old]["state"] \in {"none", StateOf(Wanted)}
  /\ files[Old]["state"] = "none" => host.state = "none"
  /\ /\ files[Old]["state"] = "none" /\ proc[Old].at \in Knowing
     /\ host.place # "container"
     => faults >= 1
  /\ proc[Old].at \in Moving => host.place = "default"

\* Nor is that in the new one, and it is there before the new service can start.
NewState ==
  /\ files[New]["state"] \in {"none", StateOf(Wanted)}
  /\ proc[Old].at = "seed" /\ files[Old]["state"] # "none" => files[New]["state"] # "none"
  /\ proc[Old].at \in Seeded \/ unit[New].enabled => files[New]["state"] # "none"

RemoteInv ==
  /\ faults \in Nat
  /\ host.remote = "unset" => OldState /\ (faults < 2 => NewState)
  /\ proc[Old].at \in Knowing => proc[Old].remote = Wanted
  /\ proc[New].at \in Knowing /\ faults < 2 => proc[New].remote = Wanted

LEMMA StagesApart ==
  /\ Moving \subseteq Knowing /\ Seeded \subseteq Moving
  /\ "main" \in Knowing /\ "relocate" \in Knowing /\ "seed" \in Moving
  /\ "main" \notin Moving /\ "relocate" \notin Moving /\ "seed" \notin Seeded
  /\ "off" \notin Knowing /\ "due" \notin Knowing /\ "config" \notin Knowing
BY DEF Moving, Seeded, Knowing, Stages

\* A step that leaves the files alone, teaches no process anything, enters the move only
\* in a default place, and enables the new service only when its state is written.
LEMMA RemoteMoves ==
  ASSUME RemoteInv, UNCHANGED <<host, files>>, faults' \in Nat, faults' >= faults,
         \A s \in Services :
           proc'[s].at \in Knowing => proc[s].at \in Knowing /\ proc'[s].remote = proc[s].remote,
         proc'[Old].at \in Moving => proc[Old].at \in Moving \/ host.place = "default",
         proc'[Old].at = "seed" => proc[Old].at = "seed",
         proc'[Old].at \in Seeded => proc[Old].at \in Seeded,
         unit'[New].enabled => unit[New].enabled \/ proc[Old].at \in Seeded
  PROVE  RemoteInv'
<1>1. faults \in Nat /\ (faults' < 2 => faults < 2) /\ (faults >= 1 => faults' >= 1)
  BY DEF RemoteInv
<1>2. Wanted' = Wanted
  BY DEF Wanted
<1>3. OldState => OldState'
  BY <1>1, <1>2, TwoServices DEF OldState, StateOf
<1>4. NewState => NewState'
  BY <1>2, TwoServices DEF NewState, StateOf
<1>5. QED
  BY <1>1, <1>2, <1>3, <1>4, TwoServices DEF RemoteInv

\* The same for a step that changes one process's stage.
LEMMA GoRemote ==
  ASSUME InstallTyped, NEW s \in Services, NEW a \in Stages, NEW b \in Stages, Go(s, a, b)
  PROVE  /\ proc[s].at = a /\ proc'[s].at = b /\ proc'[s].remote = proc[s].remote
         /\ \A t \in Services : t # s => proc'[t] = proc[t]
BY DEF InstallTyped, Go, At, Process

\* What a process's end leaves of it knows nothing.
LEMMA EndedKnowsNothing ==
  ASSUME InstallTyped, NEW s \in Services, proc' = [proc EXCEPT ![s] = Ended(s)]
  PROVE  /\ proc'[s].at \in {"off", "due"}
         /\ \A t \in Services : t # s => proc'[t] = proc[t]
BY EndedTyped DEF InstallTyped

LEMMA FaultsCounted ==
  ASSUME RemoteInv, Works \/ Fails
  PROVE  faults' \in Nat /\ faults' >= faults
BY DEF RemoteInv, Works, Fails

\* Steps of the move that copy no file.
LEMMA RelocateRemote ==
  ASSUME InstallInv, RemoteInv,
         Plan \/ CopyBinary \/ Install \/ StartNew \/ WaitRunning \/ PreventRestart
              \/ DisableNoStop \/ Leave
  PROVE  RemoteInv'
<1> USE DEF InstallInv
<1>1. UNCHANGED <<host, files>>
  BY DEF Plan, Detected, CopyBinary, Install, StartNew, WaitRunning, PreventRestart, DisableNoStop, Leave
<1>2. faults' \in Nat /\ faults' >= faults
  <2>1. UNCHANGED faults \/ Fails
    BY DEF Plan, Detected, CopyBinary, Install, StartNew, WaitRunning, PreventRestart, DisableNoStop,
           Leave, Works
  <2>2. QED
    BY <2>1, FaultsCounted DEF Works
<1>3. /\ proc[Old].at \in Knowing
      /\ proc'[Old].at \in Knowing => proc'[Old].remote = proc[Old].remote
      /\ proc'[Old].at \in Moving => proc[Old].at \in Moving \/ host.place = "default"
      /\ proc'[Old].at # "seed"
      /\ proc'[Old].at \in Seeded => proc[Old].at \in Seeded
      /\ proc'[New] = proc[New] \/ proc'[New].at = "due"
  <2>1. CASE \E a, b \in Stages :
               /\ Go(Old, a, b) /\ a \in Knowing /\ b # "seed"
               /\ b \in Moving => a \in Moving \/ host.place = "default"
               /\ b \in Seeded => a \in Seeded
    BY <2>1, GoRemote, TwoServices
  <2>2. CASE Plan
    <3>1. CASE /\ Detected /\ proc[Old].at = "relocate"
               /\ proc' = [proc EXCEPT ![Old] = Process("sidecars", @.version, @.remote, TRUE)]
      <4>1. /\ proc'[Old].at = "sidecars" /\ proc'[Old].remote = proc[Old].remote
            /\ proc'[New] = proc[New]
        BY <3>1, TwoServices DEF InstallTyped, Process
      <4>2. QED
        BY <3>1, <4>1, StagesApart DEF Detected, Seeded
    <3>2. CASE Go(Old, "relocate", "main")
      BY <2>1, <3>2, StagesApart DEF Knowing, Stages
    <3>3. CASE Detected /\ Go(Old, "relocate", "binary")
      BY <2>1, <3>3, StagesApart DEF Detected, Knowing, Stages, Seeded
    <3>4. QED
      BY <2>2, <3>1, <3>2, <3>3 DEF Plan
  <2>3. CASE CopyBinary
    BY <2>1, <2>3 DEF CopyBinary, Knowing, Stages, Moving, Seeded
  <2>4. CASE Install
    BY <2>1, <2>4 DEF Install, Knowing, Stages, Moving, Seeded
  <2>5. CASE WaitRunning
    BY <2>1, <2>5 DEF WaitRunning, Knowing, Stages, Moving, Seeded
  <2>6. CASE PreventRestart
    BY <2>1, <2>6 DEF PreventRestart, Knowing, Stages, Moving, Seeded
  <2>7. CASE DisableNoStop
    <3>1. Go(Old, "disable", "leave") \/ Go(Old, "disable", "main")
      BY <2>7 DEF DisableNoStop
    <3>2. QED
      BY <2>1, <3>1 DEF Knowing, Stages, Moving, Seeded
  <2>8. CASE Leave
    <3>1. proc[Old].at = "leave" /\ proc' = [proc EXCEPT ![Old] = Ended(Old)]
      BY <2>8 DEF Leave
    <3>2. proc'[Old].at \in {"off", "due"} /\ proc'[New] = proc[New]
      BY <3>1, EndedKnowsNothing, TwoServices
    <3>3. QED
      BY <3>1, <3>2 DEF Knowing, Stages, Moving, Seeded
  <2>9. CASE StartNew
    <3>1. proc[Old].at = "start"
      BY <2>9 DEF StartNew
    <3>2. /\ proc'[Old].at \in {"wait", "main"} /\ proc'[Old].remote = proc[Old].remote
          /\ proc'[New] = proc[New] \/ proc'[New].at = "due"
      <4>1. CASE proc' = [proc EXCEPT ![Old] = At(@, "wait"), ![New] = IF @.at = "off" THEN Due ELSE @]
        BY <4>1, OffAndDue, TwoServices DEF InstallTyped, At, Process
      <4>2. CASE proc' = [proc EXCEPT ![Old] = At(@, "main")]
        BY <4>2, TwoServices DEF InstallTyped, At, Process
      <4>3. QED
        BY <2>9, <4>1, <4>2 DEF StartNew
    <3>3. QED
      BY <3>1, <3>2 DEF Knowing, Stages, Moving, Seeded
  <2>10. QED
    BY <2>2, <2>3, <2>4, <2>5, <2>6, <2>7, <2>8, <2>9
<1>4. unit'[New].enabled => unit[New].enabled \/ proc[Old].at \in Seeded
  <2>1. CASE Install
    BY <2>1 DEF Install, Go, Seeded
  <2>2. CASE PreventRestart \/ DisableNoStop
    <3>1. unit' = unit \/ unit' = NoRespawn(Old) \/ unit' = Disabled(Old)
      BY <2>2 DEF PreventRestart, DisableNoStop
    <3>2. QED
      BY <3>1, OldUnit
  <2>3. CASE Plan \/ CopyBinary \/ StartNew \/ WaitRunning \/ Leave
    BY <2>3 DEF Plan, Detected, CopyBinary, StartNew, WaitRunning, Leave
  <2>4. QED
    BY <2>1, <2>2, <2>3
<1>5. \A s \in Services :
        proc'[s].at \in Knowing => proc[s].at \in Knowing /\ proc'[s].remote = proc[s].remote
  BY <1>3, StagesApart, TwoServices
<1>6. QED
  BY <1>1, <1>2, <1>3, <1>4, <1>5, RemoteMoves

\* Steps outside the move that write no file.
LEMMA OutsideRemote ==
  ASSUME InstallInv, RemoteInv,
         \/ \E s \in Services : Launch(s) \/ Crash(s)
         \/ RetireLegacy \/ Publish \/ Attach \/ Reboot \/ UNCHANGED vars
  PROVE  RemoteInv'
<1> USE DEF InstallInv
<1>1. UNCHANGED <<host, files>>
  BY DEF Launch, Crash, RetireLegacy, Retire, StopLegacy, RemoveLegacy, Publish, Attach, Reboot, vars
<1>2. faults' \in Nat /\ faults' >= faults
  <2>1. UNCHANGED faults \/ Fails
    BY DEF Launch, Crash, RetireLegacy, Retire, StopLegacy, RemoveLegacy, Publish, Attach, Reboot,
           vars, Works
  <2>2. QED
    BY <2>1, FaultsCounted DEF Works
<1>3. /\ proc'[Old] = proc[Old] \/ proc'[Old].at \notin Knowing
      /\ \/ proc'[New].at \notin Knowing
         \/ proc[New].at \in Knowing /\ proc'[New].remote = proc[New].remote
         \/ proc'[New] = proc[New]
  <2>1. ASSUME NEW s \in Services, Launch(s)
        PROVE  proc'[s].at \notin Knowing /\ \A t \in Services : t # s => proc'[t] = proc[t]
    BY <2>1, StagesApart DEF Launch, Process, InstallTyped
  <2>2. ASSUME NEW s \in Services, Crash(s)
        PROVE  proc'[s].at \notin Knowing /\ \A t \in Services : t # s => proc'[t] = proc[t]
    BY <2>2, EndedKnowsNothing, StagesApart DEF Crash
  <2>3. CASE Retire \/ RemoveLegacy
    <3>1. \E a, b \in Stages : Go(New, a, b) /\ a \in Knowing
      BY <2>3 DEF Retire, RemoveLegacy, Stages, Knowing
    <3>2. QED
      BY <3>1, GoRemote, TwoServices
  <2>4. CASE StopLegacy
    BY <2>4, StagesApart, OffAndDue, TwoServices
    DEF StopLegacy, InstallTyped, At, Process, Knowing, Stages
  <2>5. CASE Reboot
    BY <2>5, StagesApart, OffAndDue, TwoServices DEF Reboot
  <2>6. CASE Publish \/ Attach \/ UNCHANGED vars
    BY <2>6 DEF Publish, Attach, vars
  <2>7. QED
    BY <2>1, <2>2, <2>3, <2>4, <2>5, <2>6, TwoServices DEF RetireLegacy
<1>4. unit'[New].enabled => unit[New].enabled
  <2>1. CASE Retire
    <3>1. unit' = unit \/ unit' = NoRespawn(Old) \/ unit' = Disabled(Old)
      BY <2>1 DEF Retire
    <3>2. QED
      BY <3>1, OldUnit
  <2>2. CASE RemoveLegacy
    BY <2>2, TwoServices DEF RemoveLegacy, InstallTyped
  <2>3. QED
    BY <2>1, <2>2 DEF Launch, Crash, RetireLegacy, StopLegacy, Publish, Attach, Reboot, vars
<1>5. QED
  BY <1>1, <1>2, <1>3, <1>4, RemoteMoves, StagesApart, TwoServices

\* What WithState does to the state of each service.
LEMMA StateWritten ==
  ASSUME InstallTyped, NEW s \in Services, NEW v, files' = WithState(s, v)
  PROVE  /\ files'[s]["state"] = v
         /\ \A t \in Services : t # s => files'[t]["state"] = files[t]["state"]
BY DEF WithState, InstallTyped, Files

LEMMA StateIsSomething == \A b : StateOf(b) # "none" /\ (b \in BOOLEAN => (StateOf(b) = "on" <=> b))
BY DEF StateOf

LEMMA WantedTyped == Wanted \in BOOLEAN
BY DEF Wanted

\* A start reads what is written, or works it out where nothing is.
LEMMA LoadRemote ==
  ASSUME InstallInv, RemoteInv, NEW s \in Services, LoadConfig(s)
  PROVE  RemoteInv'
<1> USE DEF InstallInv
<1>1. UNCHANGED <<host, unit>> /\ proc[s].at = "config"
  BY DEF LoadConfig
<1>2. Wanted' = Wanted /\ Wanted \in BOOLEAN
  BY <1>1, WantedTyped DEF Wanted
<1>3. CASE ~CanStart(s)
  <2>1. proc' = [proc EXCEPT ![s] = Ended(s)] /\ UNCHANGED <<files, faults>>
    BY <1>3 DEF LoadConfig, Works
  <2>2. proc'[s].at \in {"off", "due"} /\ \A t \in Services : t # s => proc'[t] = proc[t]
    BY <2>1, EndedKnowsNothing
  <2>3. proc'[s].at \notin Knowing /\ proc'[s].at \notin Moving /\ proc'[s].at \notin Seeded /\ proc'[s].at # "seed"
    BY <2>2, StagesApart
  <2>4. faults' \in Nat /\ faults' >= faults
    BY <2>1 DEF RemoteInv
  <2>5. QED
    BY <1>1, <2>1, <2>2, <2>3, <2>4, RemoteMoves, TwoServices
<1>4. CASE CanStart(s)
  <2>1. proc' = [proc EXCEPT ![s] = Process("relocate", proc[s].version, RemoteControl(s), FALSE)]
    BY <1>4 DEF LoadConfig
  <2>2. /\ proc'[s].at = "relocate" /\ proc'[s].remote = RemoteControl(s)
        /\ \A t \in Services : t # s => proc'[t] = proc[t]
    BY <2>1 DEF InstallTyped, Process
  <2>3. /\ faults' \in Nat /\ faults' >= faults
        /\ \/ files' = files /\ (WritesState(s) => faults' >= 1)
           \/ WritesState(s) /\ files' = WithState(s, "on") /\ faults' = faults
    BY <1>4 DEF LoadConfig, Works, Fails, RemoteInv
  <2>4. s = Old \/ faults < 2 => RemoteControl(s) = Wanted
    <3>1. CASE host.remote # "unset"
      BY <3>1 DEF RemoteControl, Wanted
    <3>2. CASE host.remote = "unset" /\ s = Old
      <4>1. /\ files[Old]["state"] \in {"none", StateOf(Wanted)}
            /\ files[Old]["state"] = "none" => host.state = "none"
        BY <3>2 DEF RemoteInv, OldState
      <4>2. CASE files[Old]["state"] = "none"
        BY <3>2, <4>1, <4>2 DEF RemoteControl, PriorInstall, Wanted
      <4>3. CASE files[Old]["state"] # "none"
        <5>1. RemoteControl(Old) = (files[Old]["state"] = "on")
          BY <3>2, <4>3 DEF RemoteControl
        <5>2. (files[Old]["state"] = "on") = Wanted
          BY <1>2, <4>1, <4>3, StateIsSomething
        <5>3. QED
          BY <3>2, <5>1, <5>2
      <4>4. QED
        BY <4>2, <4>3
    <3>3. CASE host.remote = "unset" /\ s = New /\ faults < 2
      <4>1. unit[New].enabled
        BY <1>1, <3>3 DEF Enabled
      <4>2. files[New]["state"] = StateOf(Wanted) /\ files[New]["state"] # "none"
        BY <3>3, <4>1 DEF RemoteInv, NewState
      <4>3. RemoteControl(New) = (files[New]["state"] = "on")
        BY <3>3, <4>2 DEF RemoteControl
      <4>4. (files[New]["state"] = "on") = Wanted
        BY <1>2, <4>2, StateIsSomething
      <4>5. QED
        BY <3>3, <4>3, <4>4
    <3>4. QED
      BY <3>1, <3>2, <3>3, TwoServices
  <2>5. WritesState(s) /\ files' = WithState(s, "on") =>
          /\ host.remote = "unset" /\ files[s]["state"] = "none"
          /\ s = Old \/ faults < 2 => s = Old /\ Wanted = TRUE
    <3>1. SUFFICES ASSUME WritesState(s), s = Old \/ faults < 2
                   PROVE  s = Old /\ Wanted = TRUE
      BY DEF WritesState
    <3>2. host.remote = "unset" /\ files[s]["state"] = "none" /\ host.place # "container"
      BY <3>1 DEF WritesState, PriorInstall
    <3>3. s = Old
      <4>1. SUFFICES ASSUME s = New PROVE FALSE
        BY TwoServices
      <4>2. unit[New].enabled /\ faults < 2
        BY <1>1, <3>1, <4>1, TwoServices DEF Enabled
      <4>3. QED
        BY <3>2, <4>1, <4>2 DEF RemoteInv, NewState
    <3>4. host.state = "none"
      BY <3>2, <3>3 DEF RemoteInv, OldState
    <3>5. QED
      BY <3>2, <3>3, <3>4 DEF Wanted
  <2>6. proc'[Old].at \in Moving \/ proc'[Old].at = "seed" \/ proc'[Old].at \in Seeded
        => s # Old /\ proc'[Old] = proc[Old]
    BY <2>2, StagesApart, TwoServices
  <2>7. host.remote = "unset" => OldState' /\ (faults' < 2 => NewState')
    <3>1. SUFFICES ASSUME host.remote = "unset" PROVE OldState' /\ (faults' < 2 => NewState')
      OBVIOUS
    <3>2. OldState /\ (faults' < 2 => NewState /\ faults < 2)
      BY <2>3, <3>1 DEF RemoteInv
    <3>3. proc'[Old].at \in Moving => host.place = "default"
      BY <2>6, <3>2 DEF OldState
    <3>4. CASE files' = files /\ (WritesState(s) => faults' >= 1)
      <4>1. /\ files[Old]["state"] = "none" /\ proc'[Old].at \in Knowing
            /\ host.place # "container"
            => faults' >= 1
        <5>1. CASE s = Old
          BY <3>1, <3>4, <5>1 DEF WritesState, PriorInstall
        <5>2. CASE s # Old
          BY <2>2, <2>3, <3>2, <5>2, TwoServices DEF OldState, RemoteInv
        <5>3. QED
          BY <5>1, <5>2
      <4>2. OldState'
        BY <1>1, <1>2, <3>2, <3>3, <3>4, <4>1 DEF OldState, StateOf
      <4>3. NewState => NewState'
        BY <1>1, <1>2, <2>6, <3>4 DEF NewState, StateOf
      <4>4. QED
        BY <3>2, <4>2, <4>3
    <3>5. CASE WritesState(s) /\ files' = WithState(s, "on")
      <4>1. /\ files'[s]["state"] = "on"
            /\ \A t \in Services : t # s => files'[t]["state"] = files[t]["state"]
        BY <3>5, StateWritten
      <4>2. CASE s = Old
        <5>1. Wanted = TRUE /\ StateOf(Wanted) = "on"
          BY <2>5, <3>5, <4>2 DEF StateOf
        <5>2. files'[Old]["state"] = StateOf(Wanted) /\ files'[Old]["state"] # "none"
              /\ files'[New]["state"] = files[New]["state"]
          BY <4>1, <4>2, <5>1, TwoServices
        <5>3. OldState'
          BY <1>1, <1>2, <3>3, <5>2 DEF OldState, StateOf
        <5>4. NewState => NewState'
          BY <1>1, <1>2, <2>6, <4>2, <5>2 DEF NewState, StateOf
        <5>5. QED
          BY <3>2, <5>3, <5>4
      <4>3. CASE s = New
        <5>1. ~(faults < 2) /\ ~(faults' < 2)
          BY <2>5, <3>2, <3>5, <4>3, TwoServices
        <5>2. files'[Old]["state"] = files[Old]["state"] /\ proc'[Old] = proc[Old]
          BY <2>2, <4>1, <4>3, TwoServices
        <5>3. faults >= 1 => faults' >= 1
          BY <2>3 DEF RemoteInv
        <5>4. OldState'
          BY <1>1, <1>2, <3>2, <5>2, <5>3 DEF OldState, StateOf
        <5>5. QED
          BY <5>1, <5>4
      <4>4. QED
        BY <4>2, <4>3, TwoServices
    <3>6. QED
      BY <2>3, <3>4, <3>5
  <2>8. /\ proc'[Old].at \in Knowing => proc'[Old].remote = Wanted
        /\ proc'[New].at \in Knowing /\ faults' < 2 => proc'[New].remote = Wanted
    <3>1. faults' < 2 => faults < 2
      BY <2>3 DEF RemoteInv
    <3>2. QED
      BY <2>2, <2>4, <3>1, TwoServices DEF RemoteInv
  <2>9. QED
    BY <1>1, <1>2, <2>3, <2>7, <2>8 DEF RemoteInv
<1>5. QED
  BY <1>3, <1>4

\* The state is among what is copied, and a copy of a right state is right.
LEMMA SidecarsRemote ==
  ASSUME InstallInv, RemoteInv, CopySidecars
  PROVE  RemoteInv'
<1> USE DEF InstallInv
<1>1. UNCHANGED <<host, unit>>
  BY DEF CopySidecars
<1>2. Wanted' = Wanted
  BY <1>1 DEF Wanted
<1>3. /\ proc[Old].at = "sidecars" /\ proc'[Old].at \in {"seed", "main"}
      /\ proc'[Old].remote = proc[Old].remote /\ proc'[New] = proc[New]
  BY GoRemote, TwoServices DEF CopySidecars, Stages
<1>4. faults' \in Nat /\ faults' >= faults
  BY FaultsCounted DEF CopySidecars
<1>5. PICK n \in Int :
        /\ files' = [files EXCEPT ![New] = Copied(n)]
        /\ proc'[Old].at = "seed" => n = Len(Sidecars)
  <2>1. CASE Go(Old, "sidecars", "seed") /\ files' = [files EXCEPT ![New] = Copied(Len(Sidecars))]
    <3>1. Len(Sidecars) \in Int
      BY DEF Sidecars
    <3>2. QED
      BY <2>1, <3>1, Zenon
  <2>2. CASE /\ Go(Old, "sidecars", "main")
             /\ \E n \in 0..Len(Sidecars) - 1 : files' = [files EXCEPT ![New] = Copied(n)]
    <3>1. proc'[Old].at = "main"
      BY <2>2, GoRemote, TwoServices DEF Stages
    <3>2. PICK n \in 0..Len(Sidecars) - 1 : files' = [files EXCEPT ![New] = Copied(n)]
      BY <2>2
    <3>3. n \in Int
      <4>1. Len(Sidecars) \in Int
        BY DEF Sidecars
      <4>2. QED
        BY <3>2, <4>1
    <3>4. QED
      BY <3>1, <3>2, <3>3
  <2>3. QED
    BY <2>1, <2>2 DEF CopySidecars
<1>6. files'[Old]["state"] = files[Old]["state"] /\ files'[New]["state"] = Copied(n)["state"]
  BY <1>5, TwoServices DEF InstallTyped
<1>7. /\ Copied(n)["state"] \in {files[Old]["state"], files[New]["state"]}
      /\ files[New]["state"] # "none" => Copied(n)["state"] # "none"
  BY DEF Copied, Files
<1>8. proc'[Old].at = "seed" /\ files[Old]["state"] # "none" => files'[New]["state"] # "none"
  <2>1. SUFFICES ASSUME proc'[Old].at = "seed", files[Old]["state"] # "none"
                 PROVE  files'[New]["state"] # "none"
    OBVIOUS
  <2>2. /\ Len(Sidecars) \in {2, 3}
        /\ Sidecars[2] = "state"
    BY DEF Sidecars
  <2>3. "state" \in {Sidecars[i] : i \in 1..n}
    <3>1. 2 \in 1..n
      BY <1>5, <2>1, <2>2
    <3>2. QED
      BY <2>2, <3>1
  <2>4. Copied(n)["state"] = files[Old]["state"]
    BY <2>1, <2>3 DEF Copied, Files
  <2>5. QED
    BY <1>6, <2>1, <2>4
<1>9. proc[Old].at \in Moving /\ proc[Old].at \in Knowing /\ proc'[Old].at \notin Seeded
  BY <1>3 DEF Moving, Knowing, Stages, Seeded
<1>10. host.remote = "unset" => OldState' /\ (faults' < 2 => NewState')
  <2>1. SUFFICES ASSUME host.remote = "unset" PROVE OldState' /\ (faults' < 2 => NewState')
    OBVIOUS
  <2>2. OldState /\ faults \in Nat /\ (faults' < 2 => NewState)
    BY <1>4, <2>1 DEF RemoteInv
  <2>3. OldState'
    BY <1>1, <1>2, <1>4, <1>6, <1>9, <2>2 DEF OldState, StateOf
  <2>4. NewState => NewState'
    BY <1>1, <1>2, <1>6, <1>7, <1>8, <1>9, <2>2 DEF NewState, OldState, StateOf
  <2>5. QED
    BY <2>2, <2>3, <2>4
<1>11. QED
  BY <1>1, <1>2, <1>3, <1>4, <1>9, <1>10 DEF RemoteInv

\* Where there was no state to copy, the old agent's is the default of its place, and
\* that is what is written.
LEMMA SeedRemote ==
  ASSUME InstallInv, RemoteInv, SeedState
  PROVE  RemoteInv'
<1> USE DEF InstallInv
<1>1. UNCHANGED <<host, unit>>
  BY DEF SeedState
<1>2. Wanted' = Wanted
  BY <1>1 DEF Wanted
<1>3. /\ proc[Old].at = "seed" /\ proc'[Old].at \in Seeded
      /\ proc'[Old].remote = proc[Old].remote /\ proc'[New] = proc[New]
  BY GoRemote, TwoServices DEF SeedState, Stages, Seeded
<1>4. faults' \in Nat /\ faults' >= faults
  BY FaultsCounted DEF SeedState
<1>5. proc[Old].at \in Moving /\ proc[Old].at \in Knowing /\ proc'[Old].at # "seed"
  BY <1>3, StagesApart
<1>6. host.remote = "unset" => OldState' /\ (faults' < 2 => NewState')
  <2>1. SUFFICES ASSUME host.remote = "unset" PROVE OldState' /\ (faults' < 2 => NewState')
    OBVIOUS
  <2>2. OldState /\ faults \in Nat /\ (faults' < 2 => NewState)
    BY <1>4, <2>1 DEF RemoteInv
  <2>3. files'[Old]["state"] = files[Old]["state"]
    <3>1. CASE UNCHANGED files
      BY <3>1
    <3>2. CASE files' = WithState(New, StateOf(host.remote # "nossh"))
      BY <3>2, StateWritten, TwoServices
    <3>3. QED
      BY <3>1, <3>2 DEF SeedState
  <2>4. OldState'
    BY <1>1, <1>2, <1>4, <1>5, <2>2, <2>3 DEF OldState, StateOf
  <2>5. SUFFICES ASSUME faults' < 2 PROVE NewState'
    BY <2>4
  <2>6. files'[New]["state"] = StateOf(Wanted)
    <3>1. CASE files[New]["state"] # "none"
      <4>1. UNCHANGED files
        BY <3>1 DEF SeedState
      <4>2. QED
        BY <2>2, <2>5, <3>1, <4>1 DEF NewState
    <3>2. CASE files[New]["state"] = "none"
      <4>1. files[Old]["state"] = "none"
        BY <1>3, <2>2, <2>5, <3>2 DEF NewState
      <4>2. host.state = "none" /\ host.place # "container" /\ faults >= 1
        BY <1>5, <2>2, <4>1 DEF OldState
      <4>3. Works /\ files' = WithState(New, StateOf(host.remote # "nossh"))
        BY <2>1, <2>2, <2>5, <3>2, <4>2 DEF SeedState, Fails
      <4>4. StateOf(host.remote # "nossh") = StateOf(Wanted)
        BY <2>1, <4>2 DEF Wanted, StateOf
      <4>5. QED
        BY <4>3, <4>4, StateWritten, TwoServices
    <3>3. QED
      BY <3>1, <3>2
  <2>7. QED
    BY <1>1, <1>2, <1>5, <2>6, StateIsSomething DEF NewState, StateOf
<1>7. QED
  BY <1>1, <1>2, <1>3, <1>4, <1>5, <1>6 DEF RemoteInv

\* An update writes down what its process knows.
LEMMA UpdateRemote ==
  ASSUME InstallInv, RemoteInv, NEW s \in Services, CheckAndUpdate(s)
  PROVE  RemoteInv'
<1> USE DEF InstallInv
<1>1. UNCHANGED <<host, unit>> /\ proc[s].at = "main"
  BY DEF CheckAndUpdate
<1>2. Wanted' = Wanted
  BY <1>1 DEF Wanted
<1>3. /\ faults' \in Nat /\ faults' >= faults
      /\ files' = files \/ files' = WithState(s, StateOf(proc[s].remote))
      /\ UNCHANGED proc \/ proc' = [proc EXCEPT ![s] = Ended(s)]
  <2>1. Works \/ Fails
    BY DEF CheckAndUpdate
  <2>2. QED
    BY <2>1, FaultsCounted DEF CheckAndUpdate
<1>4. /\ proc'[s] = proc[s] \/ proc'[s].at \in {"off", "due"}
      /\ \A t \in Services : t # s => proc'[t] = proc[t]
  BY <1>3, EndedKnowsNothing
<1>5. s = Old \/ faults < 2 => proc[s].remote = Wanted
  BY <1>1, StagesApart, TwoServices DEF RemoteInv
<1>6. /\ \A t \in Services : t # s => files'[t]["state"] = files[t]["state"]
      /\ files'[s]["state"] \in {files[s]["state"], StateOf(proc[s].remote)}
      /\ files[s]["state"] # "none" => files'[s]["state"] # "none"
  <2>1. CASE files' = files
    BY <2>1
  <2>2. CASE files' = WithState(s, StateOf(proc[s].remote))
    BY <2>2, StateWritten, StateIsSomething
  <2>3. QED
    BY <1>3, <2>1, <2>2
<1>7. \A t \in Services :
        /\ proc'[t].at \in Knowing => proc[t].at \in Knowing /\ proc'[t].remote = proc[t].remote
        /\ proc'[t].at \in Moving => proc'[t] = proc[t]
  BY <1>4, StagesApart
<1>8. host.remote = "unset" => OldState' /\ (faults' < 2 => NewState')
  <2>1. SUFFICES ASSUME host.remote = "unset" PROVE OldState' /\ (faults' < 2 => NewState')
    OBVIOUS
  <2>2. OldState /\ faults \in Nat /\ (faults' < 2 => NewState /\ faults < 2)
    BY <1>3, <2>1 DEF RemoteInv
  <2>3. /\ files'[Old]["state"] \in {files[Old]["state"], StateOf(Wanted)}
        /\ files'[Old]["state"] = "none" => files[Old]["state"] = "none"
        /\ faults < 2 => files'[New]["state"] \in {files[New]["state"], StateOf(Wanted)}
        /\ files'[New]["state"] = "none" => files[New]["state"] = "none"
    BY <1>5, <1>6, TwoServices
  <2>4. OldState'
    BY <1>1, <1>2, <1>3, <1>7, <2>2, <2>3, TwoServices DEF OldState, StateOf
  <2>5. proc'[Old].at = "seed" => files'[Old]["state"] = files[Old]["state"] /\ proc'[Old] = proc[Old]
    <3>1. SUFFICES ASSUME proc'[Old].at = "seed"
                   PROVE  files'[Old]["state"] = files[Old]["state"] /\ proc'[Old] = proc[Old]
      OBVIOUS
    <3>2. s # Old
      BY <1>1, <1>4, <3>1
    <3>3. QED
      BY <1>4, <1>6, <3>2, TwoServices
  <2>6. faults < 2 /\ NewState => NewState'
    BY <1>1, <1>2, <1>7, <2>3, <2>5, StagesApart, TwoServices DEF NewState, StateOf
  <2>7. QED
    BY <2>2, <2>4, <2>6
<1>9. QED
  BY <1>1, <1>2, <1>3, <1>7, <1>8, TwoServices DEF RemoteInv

LEMMA RemoteInit ==
  ASSUME Init
  PROVE  RemoteInv
<1>1. host \in Hosts /\ host.state \in {"none", "on", "off"}
  BY InstallationAssumption DEF Init
<1>2. PICK identity \in IF host.token = "saved" THEN {"there"} ELSE {"none", "there"} :
        files = [s \in Services |-> [f \in Files |->
                  IF s = New THEN "none"
                  ELSE IF f = "identity" THEN identity
                  ELSE IF f = "state" THEN host.state
                  ELSE IF host.config = "none" THEN "none" ELSE "there"]]
  BY DEF Init
<1>3. files[Old]["state"] = host.state /\ files[New]["state"] = "none"
  BY <1>2, TwoServices DEF Files
<1>4. /\ proc[Old].at = "due" /\ proc[New].at = "off" /\ faults = 0
      /\ ~unit[New].enabled
  BY OffAndDue, TwoServices DEF Init, Unit
<1>5. host.remote = "unset" => OldState /\ NewState
  BY <1>1, <1>3, <1>4, StagesApart DEF OldState, NewState, StateOf, Wanted
<1>6. QED
  BY <1>4, <1>5, StagesApart DEF RemoteInv

LEMMA RemoteStep ==
  ASSUME InstallInv, RemoteInv, [Next]_vars
  PROVE  RemoteInv'
<1>1. CASE \E s \in Services : LoadConfig(s)
  BY <1>1, LoadRemote
<1>2. CASE \E s \in Services : CheckAndUpdate(s)
  BY <1>2, UpdateRemote
<1>3. CASE Relocate
  BY <1>3, RelocateRemote, SidecarsRemote, SeedRemote DEF Relocate
<1>4. QED
  BY <1>1, <1>2, <1>3, OutsideRemote DEF Next

\* On any host on which at most one step failed, every agent that serves, in the old place
\* or the new, has remote control as the launch, the saved state or the age of
\* the installation had it in the old place.
THEOREM RemoteControlAlwaysKept == Spec => []RemoteControlKept
<1>1. Init => InstallInv /\ RemoteInv
  BY InitInv, RemoteInit
<1>2. InstallInv /\ RemoteInv /\ [Next]_vars => InstallInv' /\ RemoteInv'
  BY StepInv, RemoteStep
<1>3. RemoteInv => RemoteControlKept
  BY StagesApart, TwoServices DEF RemoteInv, RemoteControlKept, Wanted
<1>4. QED
  BY <1>1, <1>2, <1>3, PTL DEF Spec

=============================================================================
