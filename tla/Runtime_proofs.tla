---------------------------- MODULE Runtime_proofs ----------------------------
(***************************************************************************)
(* Theorems about Runtime, for any warning window, any interval of the     *)
(* monitor that is not longer, any lives, and any number of deployments    *)
(* and crashes.                                                            *)
(***************************************************************************)
EXTENDS Runtime, TLAPS

\* A deadline the monitor answers 0 about is further away than the monitor's
\* next run, although int() truncates the time that is left.
LEMMA HealthyIsFarAway ==
  ASSUME now \in Nat, NEW d \in Nat, Evaluate(d) = "healthy"
  PROVE  d > now + Interval
<1>1. Remaining(d) > Window
  <2>1. Remaining(d) \in Int
    BY DEF Remaining
  <2>2. Window \in Nat
    BY RuntimeAssumption
  <2>3. ~(Remaining(d) <= 0) /\ ~(Remaining(d) > 0 /\ Remaining(d) <= Window)
    BY DEF Evaluate
  <2>4. QED BY <2>1, <2>2, <2>3
<1>2. CASE d >= now
  <2>1. (d - now) \div 2 > Window
    BY <1>1, <1>2 DEF Remaining
  <2>2. d - now > 2 * Window
    BY <2>1, RuntimeAssumption
  <2>3. QED BY <2>2, RuntimeAssumption
<1>3. CASE ~(d >= now)
  <2>1. Remaining(d) <= 0
    BY <1>3 DEF Remaining
  <2>2. QED BY <1>1, <2>1, RuntimeAssumption DEF Remaining
<1>4. QED BY <1>2, <1>3

\* Material is deployed with a life longer than the monitor's interval,
\* whole seconds and all.
LEMMA DeployedIsFarAway ==
  ASSUME now \in Nat, NEW l \in Lives
  PROVE  /\ 2 * ((now + l) \div 2) \in Nat
         /\ 2 * ((now + l) \div 2) > now + Interval
<1>1. l \in Nat /\ l > Interval + 1 /\ Interval \in Nat
  BY RuntimeAssumption
<1>2. QED BY <1>1

-----------------------------------------------------------------------------
(***************************************************************************)
(* The inductive invariant: as long as the monitor is content with what is *)
(* deployed, no deadline is reached before it has to run again.            *)
(***************************************************************************)
Content == dir.gen \notin alarmed =>
  /\ dir.cert > inspected + Interval
  /\ dir.crl # Unreadable => dir.crl > inspected + Interval

Punctual == now <= inspected + Interval

IInv == TypeOK /\ Content /\ Punctual

LEMMA InitInv == Init => IInv
<1> SUFFICES ASSUME Init PROVE IInv
  OBVIOUS
<1>1. PICK cert \in {2 * (l \div 2) : l \in Lives}, crl \in {2 * (l \div 2) : l \in Lives} :
        dir = [gen |-> 0, valid |-> TRUE, cert |-> cert, crl |-> crl]
  BY DEF Init
<1>2. /\ cert \in Nat /\ cert > Interval
      /\ crl \in Nat /\ crl > Interval
  <2>1. \A l \in Lives : 2 * (l \div 2) \in Nat /\ 2 * (l \div 2) > Interval
    <3> SUFFICES ASSUME NEW l \in Lives
                 PROVE  2 * (l \div 2) \in Nat /\ 2 * (l \div 2) > Interval
      OBVIOUS
    <3>1. l \in Nat /\ l > Interval + 1 /\ Interval \in Nat
      BY RuntimeAssumption
    <3>2. QED BY <3>1
  <2>2. QED BY <2>1
<1>3. TypeOK
  <2>1. file \in Files /\ inode \in Files /\ dir \in Dirs
    BY <1>1, <1>2, RuntimeAssumption DEF Init, Files, Dirs
  <2>2. /\ served = Nothing /\ unit = "inactive" /\ wanted = FALSE /\ alarmed = {}
        /\ unhealthy = 0 /\ now = 0 /\ inspected = 0 /\ edits = 0 /\ crashes = 0
    BY DEF Init
  <2>3. 0 \in 0 .. MaxEdits /\ 0 \in 0 .. MaxCrashes /\ 0 \in 0 .. MaxTime
        /\ 0 \in 0 .. Retries - 1
    BY RuntimeAssumption DEF Retries
  <2>4. /\ edits \in 0 .. MaxEdits /\ crashes \in 0 .. MaxCrashes /\ now \in 0 .. MaxTime
        /\ inspected \in 0 .. now /\ unhealthy \in 0 .. Retries - 1
    BY <2>2, <2>3
  <2> HIDE DEF Init
  <2>5. QED BY <2>1, <2>2, <2>4 DEF TypeOK
<1>4. Content
  BY <1>1, <1>2, RuntimeAssumption DEF Init, Content
<1>5. Punctual
  BY RuntimeAssumption DEF Init, Punctual
<1>6. QED BY <1>3, <1>4, <1>5 DEF IInv

(***************************************************************************)
(* The monitor and its clock.                                              *)
(***************************************************************************)
LEMMA InspectInv == IInv /\ Inspect => IInv'
<1> SUFFICES ASSUME IInv, Inspect PROVE IInv'
  OBVIOUS
<1>1. TypeOK'
  <2>1. dir.gen \in 0 .. MaxEdits
    BY DEF IInv, TypeOK, Dirs
  <2>2. alarmed' \subseteq 0 .. MaxEdits
    BY <2>1 DEF IInv, TypeOK, Inspect
  <2>3. QED BY <2>2 DEF IInv, TypeOK, Inspect, host, container, Files, Dirs
<1>2. Content'
  <2> SUFFICES ASSUME dir.gen \notin alarmed'
               PROVE  /\ dir.cert > now + Interval
                      /\ dir.crl # Unreadable => dir.crl > now + Interval
    BY DEF Content, Inspect, host
  <2>1. ExitStatus({dir.cert, dir.crl}) = 0
    BY DEF Inspect
  <2>2. \A d \in {dir.cert, dir.crl} : Evaluate(d) = "healthy"
    BY <2>1 DEF ExitStatus
  <2>3. now \in Nat /\ dir.cert \in Nat /\ (dir.crl # Unreadable => dir.crl \in Nat)
    BY RuntimeAssumption DEF IInv, TypeOK, Dirs
  <2>4. QED BY <2>2, <2>3, HealthyIsFarAway
<1>3. Punctual'
  BY RuntimeAssumption DEF IInv, TypeOK, Punctual, Inspect
<1>4. QED BY <1>1, <1>2, <1>3 DEF IInv

LEMMA TickInv == IInv /\ Tick => IInv'
<1> SUFFICES ASSUME IInv, Tick PROVE IInv'
  OBVIOUS
<1>1. TypeOK'
  BY RuntimeAssumption DEF IInv, TypeOK, Tick, host, container, Files, Dirs
<1>2. Content'
  BY DEF IInv, Content, Tick, host
<1>3. Punctual'
  BY RuntimeAssumption DEF IInv, TypeOK, Punctual, Tick
<1>4. QED BY <1>1, <1>2, <1>3 DEF IInv

(***************************************************************************)
(* Deployments.                                                            *)
(***************************************************************************)
LEMMA EditFileInv ==
  ASSUME IInv, NEW f \in Files, Edit(f, dir), inode' \in Files
  PROVE  IInv'
<1>1. edits' \in 0 .. MaxEdits
  BY RuntimeAssumption DEF IInv, TypeOK, Edit
<1>2. TypeOK'
  BY <1>1 DEF IInv, TypeOK, Edit, monitor
<1>3. Content' /\ Punctual'
  BY DEF IInv, Content, Punctual, Edit, monitor
<1>4. QED BY <1>2, <1>3 DEF IInv

LEMMA NextGeneration ==
  ASSUME IInv, NEW f, NEW d, Edit(f, d) PROVE edits + 1 \in 0 .. MaxEdits
BY RuntimeAssumption DEF IInv, TypeOK, Edit

LEMMA RenameFileInv == IInv /\ RenameFile => IInv'
<1> SUFFICES ASSUME IInv, RenameFile PROVE IInv'
  OBVIOUS
<1>1. PICK v \in BOOLEAN : Edit([gen |-> edits + 1, valid |-> v], dir) /\ UNCHANGED inode
  BY DEF RenameFile
<1>2. [gen |-> edits + 1, valid |-> v] \in Files
  BY <1>1, NextGeneration DEF Files
<1>3. inode' \in Files
  BY <1>1 DEF IInv, TypeOK
<1>4. QED BY <1>1, <1>2, <1>3, EditFileInv

LEMMA RewriteFileInv == IInv /\ RewriteFile => IInv'
<1> SUFFICES ASSUME IInv, RewriteFile PROVE IInv'
  OBVIOUS
<1>1. PICK v \in BOOLEAN : LET new == [file EXCEPT !.valid = v] IN
        /\ Edit(new, dir)
        /\ inode' = IF inode.gen = file.gen THEN new ELSE inode
  BY DEF RewriteFile
<1>2. [file EXCEPT !.valid = v] \in Files
  BY DEF IInv, TypeOK, Files
<1>3. inode' \in Files
  BY <1>1, <1>2 DEF IInv, TypeOK
<1>4. QED BY <1>1, <1>2, <1>3, EditFileInv

LEMMA ReplaceDirInv == IInv /\ ReplaceDir => IInv'
<1> SUFFICES ASSUME IInv, ReplaceDir PROVE IInv'
  OBVIOUS
<1>1. PICK v \in BOOLEAN, cert \in Lives, crl \in Lives \union {Unreadable} :
        /\ Edit(file, [gen |-> edits + 1, valid |-> v, cert |-> 2 * ((now + cert) \div 2),
                       crl |-> IF crl = Unreadable THEN crl ELSE 2 * ((now + crl) \div 2)])
        /\ UNCHANGED inode
  BY DEF ReplaceDir
<1> DEFINE c == 2 * ((now + cert) \div 2)
           r == IF crl = Unreadable THEN crl ELSE 2 * ((now + crl) \div 2)
<1>2. now \in Nat /\ inspected \in 0 .. now /\ Interval \in Nat
  BY RuntimeAssumption DEF IInv, TypeOK
<1>3. c \in Nat /\ c > now + Interval
  BY <1>2, DeployedIsFarAway
<1>4. r \in Nat \union {Unreadable} /\ (r # Unreadable => r > now + Interval)
  <2>1. CASE crl = Unreadable
    BY <2>1
  <2>2. CASE crl # Unreadable
    BY <1>2, <2>2, DeployedIsFarAway
  <2>3. QED BY <2>1, <2>2
<1> HIDE DEF c, r
<1>5. /\ dir' = [gen |-> edits + 1, valid |-> v, cert |-> c, crl |-> r]
      /\ file' = file /\ inode' = inode
      /\ UNCHANGED <<served, unit, unhealthy, crashes, wanted, monitor>>
  BY <1>1 DEF Edit, c, r
<1>6. edits' \in 0 .. MaxEdits /\ edits + 1 \in 0 .. MaxEdits
  BY <1>1, RuntimeAssumption DEF IInv, TypeOK, Edit
<1>7. dir' \in Dirs
  BY <1>3, <1>4, <1>5, <1>6 DEF Dirs
<1>8. TypeOK'
  BY <1>5, <1>6, <1>7 DEF IInv, TypeOK, monitor
<1>9. Content' /\ Punctual'
  BY <1>2, <1>3, <1>4, <1>5 DEF IInv, Content, Punctual, monitor
<1>10. QED BY <1>8, <1>9 DEF IInv

(***************************************************************************)
(* The unit and its container: none of its steps touches the monitor or    *)
(* what is deployed.                                                       *)
(***************************************************************************)
LEMMA ContainerInv ==
  ASSUME IInv, UNCHANGED <<host, monitor>>, TypeOK' PROVE IInv'
BY DEF IInv, Content, Punctual, host, monitor

LEMMA LoadTyped ==
  ASSUME TypeOK, NEW f \in Files
  PROVE  Load(f) \in [file : Files, dir : Dirs] /\ Load(f) # Nothing
BY NothingAssumption DEF TypeOK, Load

LEMMA RunContainerTyped ==
  ASSUME TypeOK, RunContainer, unit \in {"inactive", "restarting"}, wanted' \in BOOLEAN
  PROVE  TypeOK'
<1>1. UNCHANGED <<file, dir, edits, crashes, now, inspected, alarmed>>
  BY DEF RunContainer, host, monitor
<1>2. CASE file.valid /\ dir.valid
  BY <1>1, <1>2, LoadTyped DEF TypeOK, RunContainer, Retries
<1>3. CASE ~(file.valid /\ dir.valid)
  BY <1>1, <1>3 DEF TypeOK, RunContainer, Retries, AfterFailure
<1>4. QED BY <1>2, <1>3

LEMMA StartInv == IInv /\ Start => IInv'
<1> SUFFICES ASSUME IInv, Start PROVE IInv'
  OBVIOUS
<1>1. TypeOK'
  BY RunContainerTyped DEF IInv, Start
<1>2. QED BY <1>1, ContainerInv DEF Start, RunContainer

LEMMA RestartInv == IInv /\ Restart => IInv'
<1> SUFFICES ASSUME IInv, Restart PROVE IInv'
  OBVIOUS
<1>1. TypeOK'
  BY RunContainerTyped DEF IInv, TypeOK, Restart
<1>2. QED BY <1>1, ContainerInv DEF Restart, RunContainer

LEMMA ReloadInv == IInv /\ Reload => IInv'
<1> SUFFICES ASSUME IInv, Reload PROVE IInv'
  OBVIOUS
<1>1. TypeOK'
  <2>1. Load(inode) \in [file : Files, dir : Dirs] /\ Load(inode) # Nothing
    BY LoadTyped DEF IInv, TypeOK
  <2>2. QED BY <2>1 DEF IInv, TypeOK, Reload, host, monitor
<1>2. QED BY <1>1, ContainerInv DEF Reload

LEMMA DiesTyped ==
  ASSUME TypeOK, Dies, crashes' \in 0 .. MaxCrashes, UNCHANGED <<host, wanted, monitor>>
  PROVE  TypeOK'
BY DEF TypeOK, Dies, AfterFailure, Retries, host, monitor

LEMMA HealthCheckInv == IInv /\ HealthCheck => IInv'
<1> SUFFICES ASSUME IInv, HealthCheck PROVE IInv'
  OBVIOUS
<1>1. UNCHANGED <<crashes, host, wanted, monitor>>
  BY DEF HealthCheck
<1>2. TypeOK'
  <2>1. CASE Dies
    BY <1>1, <2>1, DiesTyped DEF IInv, TypeOK
  <2>2. CASE unhealthy' \in 0 .. Retries - 1 /\ UNCHANGED <<inode, served, unit>>
    BY <1>1, <2>2 DEF IInv, TypeOK, host, monitor
  <2>3. QED BY <2>1, <2>2 DEF IInv, TypeOK, HealthCheck, Retries
<1>3. QED BY <1>1, <1>2, ContainerInv

LEMMA CrashInv == IInv /\ Crash => IInv'
<1> SUFFICES ASSUME IInv, Crash PROVE IInv'
  OBVIOUS
<1>1. crashes' \in 0 .. MaxCrashes
  BY RuntimeAssumption DEF IInv, TypeOK, Crash
<1>2. TypeOK'
  BY <1>1, DiesTyped DEF IInv, Crash
<1>3. QED BY <1>2, ContainerInv DEF Crash

LEMMA StopInv == IInv /\ Stop => IInv'
<1> SUFFICES ASSUME IInv, Stop PROVE IInv'
  OBVIOUS
<1>1. TypeOK'
  BY DEF IInv, TypeOK, Stop, host, monitor
<1>2. QED BY <1>1, ContainerInv DEF Stop

LEMMA StoppedInv == IInv /\ Stopped => IInv'
<1> SUFFICES ASSUME IInv, Stopped PROVE IInv'
  OBVIOUS
<1>1. TypeOK'
  BY DEF IInv, TypeOK, Stopped, Retries, host, monitor
<1>2. QED BY <1>1, ContainerInv DEF Stopped

LEMMA StutterInv == IInv /\ UNCHANGED vars => IInv'
BY DEF IInv, TypeOK, Content, Punctual, vars, host, container, monitor, Files, Dirs

LEMMA NextInv == IInv /\ [Next]_vars => IInv'
BY InspectInv, TickInv, RenameFileInv, RewriteFileInv, ReplaceDirInv, StartInv, RestartInv,
   ReloadInv, HealthCheckInv, CrashInv, StopInv, StoppedInv, StutterInv DEF Next

LEMMA Invariance == Spec => []IInv
<1>1. QED BY InitInv, NextInv, PTL DEF Spec

-----------------------------------------------------------------------------

\* Every variable keeps its type, and something is served exactly while the
\* service is up.
THEOREM Typed == Spec => []TypeOK
<1>1. IInv => TypeOK
  BY DEF IInv
<1>2. QED BY Invariance, <1>1, PTL

\* evaluate_deadline and the monitor's schedule: no deadline of what is
\* deployed passes before the monitor has answered with another status than 0.
THEOREM ExpiryIsAnnounced == Spec => []NoSilentExpiry
<1>1. IInv => NoSilentExpiry
  <2> SUFFICES ASSUME IInv,
                      now >= dir.cert \/ (dir.crl # Unreadable /\ now >= dir.crl),
                      dir.gen \notin alarmed
               PROVE  FALSE
    BY DEF NoSilentExpiry
  <2>1. now \in Nat /\ inspected \in Nat /\ Interval \in Nat /\ dir.cert \in Nat
        /\ (dir.crl # Unreadable => dir.crl \in Nat)
    BY RuntimeAssumption DEF IInv, TypeOK, Dirs
  <2>2. QED BY <2>1 DEF IInv, Content, Punctual
<1>2. QED BY Invariance, <1>1, PTL

-----------------------------------------------------------------------------
(***************************************************************************)
(* What Recovers rests on, without its fairness: how many steps of systemd *)
(* and of Podman's health check a deployed configuration is away from      *)
(* being served by a container that holds it.                              *)
(***************************************************************************)
Deployed == file.valid /\ dir.valid /\ wanted

Distance ==
  IF unit = "active" /\ inode.valid THEN 0
  ELSE IF unit = "restarting" THEN 1
  ELSE 1 + Retries - unhealthy

Recovering ==
  [][Deployed /\ Deployed' /\ crashes' = crashes
       => /\ Distance' <= Distance
          /\ Restart \/ HealthCheck => Distance' < Distance \/ Distance = 0]_vars

\* An operator who wants the service has it up or on its way up.
WantedIsAlive == wanted => unit \in {"active", "restarting"}

LEMMA WantedStays == Spec => []WantedIsAlive
<1>1. Init => WantedIsAlive
  BY DEF Init, WantedIsAlive
<1>2. WantedIsAlive /\ [Next]_vars => WantedIsAlive'
  <2> SUFFICES ASSUME WantedIsAlive, [Next]_vars PROVE WantedIsAlive'
    OBVIOUS
  <2>1. ASSUME UNCHANGED <<wanted, unit>> PROVE WantedIsAlive'
    BY <2>1 DEF WantedIsAlive
  <2>2. CASE Inspect \/ Tick
    BY <2>1, <2>2 DEF Inspect, Tick, container
  <2>3. CASE RenameFile \/ RewriteFile \/ ReplaceDir
    BY <2>1, <2>3 DEF RenameFile, RewriteFile, ReplaceDir, Edit
  <2>4. CASE Start \/ Restart
    BY <2>4 DEF Start, Restart, RunContainer, AfterFailure, WantedIsAlive
  <2>5. CASE Reload
    BY <2>1, <2>5 DEF Reload
  <2>6. CASE HealthCheck
    BY <2>6 DEF HealthCheck, Dies, AfterFailure, WantedIsAlive
  <2>7. CASE Crash
    BY <2>7 DEF Crash, Dies, AfterFailure, WantedIsAlive
  <2>8. CASE Stop
    BY <2>8 DEF Stop, WantedIsAlive
  <2>9. CASE Stopped
    BY <2>9 DEF Stopped, WantedIsAlive
  <2>10. CASE UNCHANGED vars
    BY <2>1, <2>10 DEF vars, container
  <2>11. QED BY <2>2, <2>3, <2>4, <2>5, <2>6, <2>7, <2>8, <2>9, <2>10 DEF Next
<1>3. QED BY <1>1, <1>2, PTL DEF Spec

\* Nothing that happens to the files takes the container further away.
LEMMA EditsRecover ==
  ASSUME RenameFile \/ RewriteFile \/ ReplaceDir, Deployed, Deployed', WantedIsAlive, IInv
  PROVE  Distance' <= Distance
<1>1. unit' = unit /\ unhealthy' = unhealthy
  BY DEF RenameFile, RewriteFile, ReplaceDir, Edit
<1>2. inode' = inode \/ inode'.valid
  BY DEF RenameFile, RewriteFile, ReplaceDir, Edit, Deployed, IInv, TypeOK, Files
<1>3. unhealthy \in 0 .. 2
  BY DEF IInv, TypeOK, Retries
<1>4. QED BY <1>1, <1>2, <1>3 DEF Distance, Retries

\* The unit's Restart=on-failure and the Containerfile's HEALTHCHECK: while
\* the files are valid and the operator wants the service, no step but a crash
\* takes it further from being up with a configuration it accepts, and each
\* restart and each health check brings it closer, whatever old file it holds.
THEOREM RecoveryDescends == Spec => Recovering
<1> DEFINE Step == Deployed /\ Deployed' /\ crashes' = crashes
              => /\ Distance' <= Distance
                 /\ Restart \/ HealthCheck => Distance' < Distance \/ Distance = 0
<1>1. IInv /\ WantedIsAlive /\ [Next]_vars => [Step]_vars
  <2> SUFFICES ASSUME IInv, WantedIsAlive, Next, Deployed, Deployed', crashes' = crashes
               PROVE  /\ Distance' <= Distance
                      /\ Restart \/ HealthCheck => Distance' < Distance \/ Distance = 0
    OBVIOUS
  <2>1. unhealthy \in 0 .. 2 /\ crashes \in Nat /\ unit \in {"active", "restarting"}
    BY DEF IInv, TypeOK, Retries, Deployed, WantedIsAlive
  <2>2. Distance \in 0 .. 4
    BY <2>1 DEF Distance, Retries
  <2>3. CASE Restart
    <3>1. unit' = "active" /\ inode'.valid
      BY <2>3 DEF Restart, RunContainer, Deployed
    <3>2. Distance' = 0
      BY <3>1 DEF Distance
    <3>3. QED BY <2>2, <3>2
  <2>4. CASE HealthCheck
    <3>1. dir.valid /\ unit = "active"
      BY <2>4 DEF HealthCheck, Deployed
    <3>2. CASE inode.valid
      BY <2>4, <3>1, <3>2 DEF HealthCheck, Distance
    <3>3. CASE ~inode.valid
      <4>1. Distance = 4 - unhealthy
        BY <2>1, <3>1, <3>3 DEF Distance, Retries
      <4>2. CASE Dies
        BY <2>1, <3>1, <4>1, <4>2 DEF Dies, AfterFailure, Distance
      <4>3. CASE unhealthy' = unhealthy + 1 /\ UNCHANGED <<inode, served, unit>>
        <5>1. Distance' = 4 - (unhealthy + 1)
          BY <2>1, <3>1, <3>3, <4>3 DEF Distance, Retries
        <5>2. QED BY <2>1, <4>1, <5>1
      <4>4. QED BY <2>4, <3>3, <4>2, <4>3 DEF HealthCheck
    <3>4. QED BY <3>2, <3>3
  <2>5. CASE RenameFile \/ RewriteFile \/ ReplaceDir
    <3>1. Distance' <= Distance
      BY <2>5, EditsRecover
    <3>2. edits' = edits + 1 /\ edits \in Nat
      BY <2>5 DEF RenameFile, RewriteFile, ReplaceDir, Edit, IInv, TypeOK
    <3>3. ~Restart /\ ~HealthCheck
      BY <3>2 DEF Restart, RunContainer, HealthCheck, host
    <3>4. QED BY <3>1, <3>3
  <2>6. CASE Inspect \/ Tick \/ Reload
    <3>1. Distance' = Distance
      BY <2>6 DEF Inspect, Tick, Reload, container, Distance
    <3>2. QED BY <2>2, <2>3, <2>4, <3>1
  <2>7. ~Start /\ ~Crash /\ ~Stop /\ ~Stopped
    BY <2>1 DEF Start, Crash, Stop, Stopped, Deployed
  <2>8. QED BY <2>3, <2>4, <2>5, <2>6, <2>7 DEF Next
<1>2. QED BY Invariance, WantedStays, <1>1, PTL DEF Spec, Recovering
=============================================================================
