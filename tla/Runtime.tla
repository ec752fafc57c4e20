------------------------------- MODULE Runtime -------------------------------
(***************************************************************************)
(* The deployed container, as docs/examples/systemd/nginx-ubi9.container   *)
(* and the Containerfile's HEALTHCHECK run it, and the monitor that runs   *)
(* scripts/tls_material.py over the certificate and the revocation list    *)
(* mounted into it.                                                        *)
(*                                                                         *)
(* nginx.conf is mounted as a single file and conf.d, with which the TLS   *)
(* material is counted here, as a directory.  A mounted file stays the     *)
(* file it was when the container was made, whatever takes its name later. *)
(* NGINX, Podman and systemd are modelled by what these directives and the *)
(* documents rely on.  Time is in half seconds; a deadline is a whole      *)
(* second.                                                                 *)
(***************************************************************************)
EXTENDS Integers

CONSTANTS
  Lives,       \* what is left to a certificate or list when it is deployed
  Unreadable,  \* one that openssl cannot read
  Window,      \* --warning-hours, in seconds
  Interval,    \* the monitor runs at least this often
  MaxTime, MaxEdits, MaxCrashes,  \* bounds
  Nothing      \* nothing is served

Retries == 3  \* Containerfile, HEALTHCHECK

\* What the monitor's promise rests on: it runs more often than the warning
\* window is long, and nothing is deployed that expires before it runs again.
ASSUME RuntimeAssumption ==
  /\ Window \in Nat \ {0} /\ Interval \in 1 .. 2 * Window
  /\ Lives \subseteq Nat /\ \A l \in Lives : l > Interval + 1
  /\ MaxTime \in Nat /\ MaxEdits \in Nat /\ MaxCrashes \in Nat
  /\ Unreadable \notin Int

\* A generation of nginx.conf, and of conf.d and the TLS material.
Files == [gen : 0 .. MaxEdits, valid : BOOLEAN]
Dirs == [gen : 0 .. MaxEdits, valid : BOOLEAN, cert : Nat, crl : Nat \union {Unreadable}]

ASSUME NothingAssumption == Nothing \notin [file : Files, dir : Dirs]

VARIABLES
  file,       \* nginx.conf on the host: its generation and whether it is valid
  dir,        \* conf.d and TLS material: generation, valid, cert and crl
  inode,      \* the nginx.conf the container has mounted
  served,     \* what the workers have loaded, file and dir, or Nothing
  unit,       \* the service
  wanted,     \* the operator's last word: start or stop
  unhealthy,  \* consecutive failed health checks
  now, inspected,  \* time, and when the monitor ran last
  alarmed,    \* generations of dir about which the monitor did not answer 0
  edits, crashes

host == <<file, dir, edits>>
container == <<inode, served, unit, unhealthy, crashes>>
monitor == <<now, inspected, alarmed>>
vars == <<host, container, wanted, monitor>>

(***************************************************************************)
(* tls_material.py.                                                        *)
(***************************************************************************)

\* int() of the seconds left truncates towards zero.
Remaining(deadline) ==
  IF deadline >= now THEN (deadline - now) \div 2 ELSE -((now - deadline) \div 2)

\* An answer that only knows what has expired.
EvaluateLate(deadline) == IF Remaining(deadline) <= 0 THEN "expired" ELSE "healthy"

\* evaluate_deadline.
Evaluate(deadline) ==
  CASE Remaining(deadline) <= 0 -> "expired"
    [] Remaining(deadline) > 0 /\ Remaining(deadline) <= Window -> "warning"
    [] OTHER -> "healthy"

\* An exit status that any healthy item satisfies.
ExitStatusAny(deadlines) ==
  IF Unreadable \in deadlines THEN 2
  ELSE IF \E d \in deadlines : Evaluate(d) = "healthy" THEN 0 ELSE 1

\* The exit status of main.
ExitStatus(deadlines) ==
  IF Unreadable \in deadlines THEN 2
  ELSE IF \A d \in deadlines : Evaluate(d) = "healthy" THEN 0 ELSE 1

Inspect ==
  /\ inspected' = now
  /\ alarmed' = IF ExitStatus({dir.cert, dir.crl}) = 0 THEN alarmed ELSE alarmed \union {dir.gen}
  /\ UNCHANGED <<host, container, wanted, now>>

Tick ==
  /\ now < MaxTime /\ now < inspected + Interval
  /\ now' = now + 1
  /\ UNCHANGED <<host, container, wanted, inspected, alarmed>>

(***************************************************************************)
(* Deployments on the host.                                                *)
(***************************************************************************)
Edit(f, d) ==
  /\ edits < MaxEdits /\ edits' = edits + 1
  /\ file' = f /\ dir' = d
  /\ UNCHANGED <<served, unit, unhealthy, crashes, wanted, monitor>>

\* A new file takes the name; the container keeps the old one.
RenameFile ==
  \E valid \in BOOLEAN :
    Edit([gen |-> edits + 1, valid |-> valid], dir) /\ UNCHANGED inode

\* The same file is written again; the container sees it if it is still the one
\* it has mounted.
RewriteFile ==
  \E valid \in BOOLEAN : LET new == [file EXCEPT !.valid = valid] IN
    /\ Edit(new, dir)
    /\ inode' = IF inode.gen = file.gen THEN new ELSE inode

\* NGINX does not load what openssl cannot read.
ReplaceDir ==
  \E valid \in BOOLEAN, cert \in Lives, crl \in Lives \union {Unreadable} :
    /\ crl = Unreadable => ~valid
    /\ Edit(file, [gen |-> edits + 1, valid |-> valid, cert |-> 2 * ((now + cert) \div 2),
                   crl |-> IF crl = Unreadable THEN crl ELSE 2 * ((now + crl) \div 2)])
    /\ UNCHANGED inode

(***************************************************************************)
(* The unit and its container.                                             *)
(***************************************************************************)
Load(f) == [file |-> f, dir |-> dir]

\* Without Restart=on-failure.
AfterFailureDown == "inactive"

\* Restart=on-failure: after an exit that is not clean.
AfterFailure == "restarting"

\* A container is made and mounts the files of this moment; an NGINX that
\* refuses them exits at once.
RunContainer ==
  /\ inode' = file /\ unhealthy' = 0
  /\ IF file.valid /\ dir.valid THEN unit' = "active" /\ served' = Load(file)
     ELSE unit' = AfterFailure /\ served' = Nothing
  /\ UNCHANGED <<host, crashes, monitor>>

Start == unit = "inactive" /\ RunContainer /\ wanted' = TRUE

Restart == unit = "restarting" /\ RunContainer /\ UNCHANGED wanted

\* A reload that drops what is served when it refuses what it finds.
ReloadDrops ==
  /\ unit = "active"
  /\ served' = IF inode.valid /\ dir.valid THEN Load(inode) ELSE Nothing
  /\ UNCHANGED <<inode, unit, unhealthy, crashes, host, wanted, monitor>>

\* ExecReload: NGINX keeps what it has when it refuses what it finds.
Reload ==
  /\ unit = "active"
  /\ served' = IF inode.valid /\ dir.valid THEN Load(inode) ELSE served
  /\ UNCHANGED <<inode, unit, unhealthy, crashes, host, wanted, monitor>>

\* What dies is restarted, but for what systemd is stopping anyway.
Dies ==
  /\ unit' = IF unit = "stopping" THEN "inactive" ELSE AfterFailure
  /\ served' = Nothing /\ unhealthy' = 0
  /\ UNCHANGED inode

\* nginx -t reads the files, not what is served; HealthOnFailure=kill.
HealthCheck ==
  /\ unit = "active"
  /\ \/ /\ inode.valid /\ dir.valid
        /\ unhealthy' = 0 /\ UNCHANGED <<inode, served, unit>>
     \/ /\ ~(inode.valid /\ dir.valid) /\ unhealthy + 1 < Retries
        /\ unhealthy' = unhealthy + 1 /\ UNCHANGED <<inode, served, unit>>
     \/ /\ ~(inode.valid /\ dir.valid) /\ unhealthy + 1 = Retries
        /\ Dies
  /\ UNCHANGED <<crashes, host, wanted, monitor>>

Crash ==
  /\ unit \in {"active", "stopping"} /\ crashes < MaxCrashes
  /\ crashes' = crashes + 1 /\ Dies
  /\ UNCHANGED <<host, wanted, monitor>>

\* SIGQUIT; a pending restart is cancelled.
Stop ==
  /\ unit \in {"active", "restarting"} /\ wanted' = FALSE
  /\ unit' = IF unit = "active" THEN "stopping" ELSE "inactive"
  /\ UNCHANGED <<inode, served, unhealthy, crashes, host, monitor>>

\* The workers have drained, or StopTimeout has passed and they are killed.
Stopped ==
  /\ unit = "stopping"
  /\ unit' = "inactive" /\ served' = Nothing /\ unhealthy' = 0
  /\ UNCHANGED <<inode, crashes, host, wanted, monitor>>

Init ==
  /\ file = [gen |-> 0, valid |-> TRUE]
  /\ \E cert, crl \in {2 * (l \div 2) : l \in Lives} :
       dir = [gen |-> 0, valid |-> TRUE, cert |-> cert, crl |-> crl]
  /\ inode = file /\ served = Nothing /\ unit = "inactive" /\ wanted = FALSE
  /\ unhealthy = 0 /\ now = 0 /\ inspected = 0 /\ alarmed = {}
  /\ edits = 0 /\ crashes = 0

Next ==
  \/ Inspect \/ Tick
  \/ RenameFile \/ RewriteFile \/ ReplaceDir
  \/ Start \/ Restart \/ Reload \/ HealthCheck \/ Crash \/ Stop \/ Stopped

Spec == Init /\ [][Next]_vars

(***************************************************************************)
(* systemd restarts and stops, and Podman's timer checks, in bounded time. *)
(* Nobody has to deploy, start, stop or reload.                            *)
(***************************************************************************)
FairSpec == Spec /\ WF_vars(Restart) /\ WF_vars(HealthCheck) /\ WF_vars(Stopped)

-----------------------------------------------------------------------------

\* Type invariant: something is served exactly while the service is up.
TypeOK ==
  /\ file \in Files /\ dir \in Dirs /\ inode \in Files
  /\ served \in [file : Files, dir : Dirs] \union {Nothing}
  /\ unit \in {"inactive", "restarting", "active", "stopping"}
  /\ served # Nothing <=> unit \in {"active", "stopping"}
  /\ wanted \in BOOLEAN /\ edits \in 0 .. MaxEdits /\ crashes \in 0 .. MaxCrashes
  /\ unhealthy \in 0 .. Retries - 1 /\ alarmed \subseteq 0 .. MaxEdits
  /\ now \in 0 .. MaxTime /\ inspected \in 0 .. now

\* Nothing expires in service unannounced: when a certificate or a revocation
\* list that is still deployed is served past its deadline, the monitor has
\* answered with another status than 0 about it, though it truncates the time
\* left and runs only now and then.  It reads the files: what a later deployment
\* replaced without a reload is served beyond its sight.
NoSilentExpiry ==
  served # Nothing /\ served.dir.gen = dir.gen
    /\ (now >= dir.cert \/ (dir.crl # Unreadable /\ now >= dir.crl))
  => dir.gen \in alarmed

\* When the deployed files are valid from some time on and nobody stops the
\* service, it is up from some time on, although it may hold the old file that
\* was invalid when another took its name, and may have died any number of
\* times by then.
Recovers == <>[](file.valid /\ dir.valid /\ wanted) => <>[](unit = "active")
=============================================================================
