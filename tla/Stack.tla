------------------------------- MODULE Stack -------------------------------
(***************************************************************************)
(* The local stack (deploy/stack/docker-compose.yml) over the migration    *)
(* runner: `docker compose up` runs the container init, which migrates and *)
(* then creates the workspace, and starts the services once it has         *)
(* completed.  Services that die are restarted, init is not; a service     *)
(* that finds no workspace exits at once.                                  *)
(*                                                                         *)
(* Init is one of the Migrators; the others are calls of `go2 migrate` in  *)
(* other containers.  The database itself, the health checks that delay    *)
(* what is modelled here, and a change of .env between two `up` are left   *)
(* out.                                                                    *)
(***************************************************************************)
EXTENDS Migrations

CONSTANTS
  InitContainer,  \* the container that runs once per `up`
  Services,       \* server and worker
  MaxUps,         \* bound: calls of `docker compose up`
  MaxDeletes      \* bound: calls of `go2 tenant delete`

ASSUME ImageAssumption == {} \notin Checkouts
ASSUME InitAssumption == InitContainer \in Migrators
ASSUME UpsAssumption == MaxUps \in Nat /\ MaxDeletes \in Nat

VARIABLES
  image,      \* the checkout the last `up` built, or NoImage before the first
  init,       \* the init container: none, migrate, tenant, completed, failed
  service,    \* the checkout the container of each service was made from, or NoImage
  alive,      \* the services that are running
  workspace,  \* there is a tenant with the slug GO2_TENANT
  widowed,    \* the running services whose workspace was deleted under them
  deletes,    \* calls of `go2 tenant delete` so far
  ups         \* calls of `up` so far

kvars == <<image, init, service, alive, workspace, widowed, deletes, ups>>
allvars == <<mvars, kvars>>

NoImage == {}

KInit ==
  /\ MInit
  /\ image = NoImage /\ init = "none"
  /\ service = [s \in Services |-> NoImage] /\ alive = {}
  /\ workspace = FALSE /\ widowed = {} /\ deletes = 0 /\ ups = 0

-----------------------------------------------------------------------------

\* `docker compose up -d --build`: init is created again and started.  The
\* services that were made from another image are stopped and removed first;
\* they are made again, as new ones are, once init has completed.
Up(files) ==
  /\ init \in {"none", "completed", "failed"} /\ ups < MaxUps
  /\ Begin(InitContainer, files)
  /\ image' = files /\ init' = "migrate" /\ ups' = ups + 1
  /\ service' = [s \in Services |-> IF service[s] = files THEN files ELSE NoImage]
  /\ alive' = {s \in alive : service[s] = files}
  /\ widowed' = {s \in widowed : service[s] = files}
  /\ UNCHANGED <<workspace, deletes>>

\* `go2 migrate && ...`
Migrated ==
  /\ init = "migrate" /\ Is(InitContainer, "ended")
  /\ init' = IF run[InitContainer].ok THEN "tenant" ELSE "failed"
  /\ UNCHANGED <<mvars, image, service, alive, workspace, widowed, deletes, ups>>

\* `go2 tenant create "$GO2_TENANT"`: it is created, or there already.
CreateTenant ==
  /\ init = "tenant"
  /\ workspace' = TRUE /\ init' = "completed"
  /\ UNCHANGED <<mvars, image, service, alive, widowed, deletes, ups>>

\* `go2 tenant create` by hand, of a workspace that is not there.
CreateByHand ==
  /\ ~workspace /\ recorded # {}
  /\ workspace' = TRUE
  /\ UNCHANGED <<mvars, image, init, service, alive, widowed, deletes, ups>>

\* The same, when the container dies before that.  restart: "no".
InitDies ==
  /\ init = "tenant" /\ kills < MaxKills
  /\ kills' = kills + 1
  /\ init' = "failed"
  /\ UNCHANGED <<table, recorded, schema, run, runs>>
  /\ UNCHANGED <<image, service, alive, workspace, widowed, deletes, ups>>

\* The services that run once s has been started: serve and worker look for
\* the workspace first, and exit when it is not there.
Started(s) == IF workspace THEN alive \cup {s} ELSE alive

\* A slip: depends_on without condition: service_completed_successfully.
StartWithInit(s) ==
  /\ init # "none" /\ service[s] = NoImage
  /\ service' = [service EXCEPT ![s] = image] /\ alive' = Started(s)
  /\ UNCHANGED <<mvars, image, init, workspace, widowed, deletes, ups>>

\* depends_on: init has exited with 0.
Start(s) ==
  /\ init = "completed" /\ service[s] = NoImage
  /\ service' = [service EXCEPT ![s] = image] /\ alive' = Started(s)
  /\ UNCHANGED <<mvars, image, init, workspace, widowed, deletes, ups>>

Exit(s) ==
  /\ s \in alive /\ kills < MaxKills
  /\ kills' = kills + 1
  /\ alive' = alive \ {s} /\ widowed' = widowed \ {s}
  /\ UNCHANGED <<table, recorded, schema, run, runs>>
  /\ UNCHANGED <<image, init, service, workspace, deletes, ups>>

\* A slip: restart: "no", as init has.
RestartNo(s) == FALSE

\* restart: unless-stopped.  The container starts as it was made, whatever
\* became of init since.  Without a workspace it exits and is restarted, over
\* and over, which changes nothing here.
Restart(s) ==
  /\ service[s] # NoImage /\ s \notin alive /\ workspace
  /\ alive' = alive \cup {s}
  /\ UNCHANGED <<mvars, image, init, service, workspace, widowed, deletes, ups>>

\* `go2 tenant delete` of this workspace.
DeleteTenant ==
  /\ workspace /\ deletes < MaxDeletes
  /\ workspace' = FALSE /\ widowed' = alive /\ deletes' = deletes + 1
  /\ UNCHANGED <<mvars, image, init, service, alive, ups>>

\* `go2 migrate` in any other container.
OtherMigrate ==
  /\ \E m \in Migrators \ {InitContainer}, files \in Checkouts : Begin(m, files)
  /\ UNCHANGED kvars

Statement(m) == Proceed(m) /\ UNCHANGED kvars
Killed(m)    == Die(m) /\ UNCHANGED kvars

Compose == Migrated \/ CreateTenant \/ \E s \in Services : Start(s) \/ Restart(s)

KNext ==
  \/ \E files \in Checkouts : Up(files)
  \/ Compose \/ InitDies \/ DeleteTenant \/ CreateByHand \/ OtherMigrate
  \/ \E s \in Services : Exit(s)
  \/ \E m \in Migrators : Statement(m) \/ Killed(m)

KSpec == KInit /\ [][KNext]_allvars

\* A call of migrate that lives goes on, and so does docker.
KFairSpec == KSpec /\ WF_allvars(Compose) /\ \A m \in Migrators : WF_allvars(Statement(m))

-----------------------------------------------------------------------------
(* Properties. *)

KTypeOK ==
  /\ MTypeOK
  /\ image \in Checkouts \cup {NoImage}
  /\ init \in {"none", "migrate", "tenant", "completed", "failed"}
  /\ service \in [Services -> Checkouts \cup {NoImage}] /\ alive \subseteq Services
  /\ workspace \in BOOLEAN /\ widowed \subseteq alive
  /\ deletes \in 0..MaxDeletes /\ ups \in 0..MaxUps

\* "the server never starts against an unmigrated database or a workspace
\* that does not exist": a running service finds every migration of its own
\* image, and a workspace unless that was deleted while this very process
\* ran, whatever failed, was restarted or was upgraded meanwhile.
ReadyWhenUp ==
  \A s \in alive : service[s] \subseteq recorded /\ (workspace \/ s \in widowed)

AllUp == alive = Services /\ \A s \in Services : service[s] = image

\* `up` brings the stack up: its services run the image it built, unless
\* init failed, which takes a call that died or another call of migrate, or
\* the workspace that init made was deleted before they looked for it.  Then
\* they exit and are restarted in vain; but they come up once it is there
\* again, without another `up`.
StackComesUp ==
  /\ init = "migrate" ~> \/ AllUp
                         \/ init = "failed" /\ (kills > 0 \/ runs > ups)
                         \/ init = "completed" /\ ~workspace
  /\ init = "completed" /\ workspace ~> AllUp \/ ~workspace \/ init = "migrate"
=============================================================================
