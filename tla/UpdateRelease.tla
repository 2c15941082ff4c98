---------------------------- MODULE UpdateRelease ----------------------------
(* The updater of a release: an update or a rollback replaces the project  *)
(* in place, part by part, with one complete backup beside it, while the   *)
(* runtime lock keeps the service out.  Any step may fail, and a killed    *)
(* updater leaves what it has done.  A part that is missing or only half   *)
(* copied is Broken.  An unfinished backup is read by nobody: it is not in *)
(* the model.                                                              *)
EXTENDS Integers, Sequences, Functions

CONSTANTS None,
          Directories,     \* REPLACE_DIRECTORIES, in their order
          MaxVersion, MaxData, MaxRuns

ASSUME UpdateAssumption ==
    MaxVersion \in Nat \ {0} /\ MaxData \in Nat \ {0} /\ MaxRuns \in Nat

(* REPLACE_DIRECTORIES is ("frontend", "scripts", "src").                  *)
ASSUME DirectoriesAssumption ==
    /\ Directories \in Seq({"frontend", "scripts", "src"})
    /\ Directories # << >> /\ Directories[1] = "frontend"
    /\ \A i, j \in DOMAIN Directories : Directories[i] = Directories[j] => i = j

VARIABLES project,         \* the parts of the installation
          backups,         \* the directory .update-backups
          updater,         \* the process that updates or rolls back
          service,         \* whether the service runs
          runs,            \* history: updaters started so far
          cut,             \* history: an updater did not end its work
          misled           \* history: a project was kept that had lost its data,
                           \* or one restored that was not whole

vars == <<project, backups, updater, service, runs, cut, misled>>

Broken == 0
Managed == Range(Directories) \union {"manifest", "lock", "web"}
Parts == Managed \union {"venv", "data"}

OfVersion(copy, v) == \A p \in Managed : copy[p] = v

(* All files of one release and the data; every update makes a new venv.   *)
Whole(copy) ==
    copy.data # Broken /\ \E v \in 1..MaxVersion : OfVersion(copy, v)

Copies == [Parts -> 0..IF MaxVersion < MaxData THEN MaxData ELSE MaxVersion]

Backups ==
    [latest : {None} \union Copies, previous : {None} \union Copies,
     source : {None} \union Copies, pending : SUBSET Copies]

Writes == {"deploy", "restore", "undo"}
Ends == {"succeeded", "failed", "stuck"}
Updaters ==
    [kind : {"update", "rollback"}, version : 0..MaxVersion,
     at : Writes \union Ends \union
          {"backup", "drop", "retire", "promote", "clean", "rotate", "sweep"},
     remove : SUBSET Parts, from : Copies, done : Nat,
     start : Copies, latest : {None} \union Copies]

ASSUME NoneIsNothing == None \notin Copies \union Updaters

-----------------------------------------------------------------------------
(* What is done to the project: parts are removed in any order, then the   *)
(* steps of a plan are taken.  The lock module is only ever replaced.      *)
Set(p, to) == [part |-> p, to |-> to]

Swaps == 2 * Len(Directories)

DeployStep(v, i) ==
    IF i <= Swaps
    THEN Set(Directories[(i + 1) \div 2], IF i % 2 = 1 THEN Broken ELSE v)
    ELSE <<Set("manifest", Broken), Set("web", Broken),
           Set("manifest", v), Set("lock", v), Set("web", v),
           Set("venv", Broken), Set("venv", v)>>[i - Swaps]

(* The names in their order; what the copy has not got stays missing.      *)
ByName == <<"manifest", "data", "frontend", "lock">> \o Tail(Directories)
              \o <<"venv", "web">>

RestoreStep(copy, i) == Set(ByName[i], copy[ByName[i]])

StepOf(u) == IF u.at = "deploy" THEN DeployStep(u.version, u.done + 1)
             ELSE RestoreStep(u.from, u.done + 1)

Steps(u) == IF u.at = "deploy" THEN Swaps + 7 ELSE Len(ByName)

AllRemoved == Parts
Removed == Parts \ {"lock"}

Restoring(u, at, copy) ==
    [u EXCEPT !.at = at, !.remove = Removed, !.from = copy, !.done = 0]

-----------------------------------------------------------------------------
Init ==
    /\ project = [p \in Parts |-> 1]
    /\ backups = [latest |-> None, previous |-> None, source |-> None, pending |-> {}]
    /\ updater = None /\ service = FALSE
    /\ runs = 0 /\ cut = FALSE /\ misled = FALSE

history == <<runs, cut, misled>>

(* The lock is free; the updater itself can be imported.                   *)
MayRun == /\ updater = None /\ ~service /\ runs < MaxRuns
          /\ project["scripts"] # Broken /\ project.lock # Broken

Begun(kind, version) ==
    [kind |-> kind, at |-> "backup", version |-> version,
     remove |-> {}, from |-> project, done |-> 0,
     start |-> project, latest |-> backups.latest]

FilesPresent == \A p \in Managed : project[p] # Broken

(* _ensure_safe_installation: every file of the manifest is there, and     *)
(* VERSION, web.py and the frontend are of its version.                    *)
SafeInstallation ==
    /\ \A p \in Managed : project[p] # Broken
    /\ project.manifest = project.web /\ project.manifest = project["frontend"]

BeginUpdate(version) ==
    /\ MayRun /\ SafeInstallation /\ version > project.manifest
    /\ updater' = Begun("update", version)
    /\ runs' = runs + 1
    /\ misled' = (misled \/ project.data = Broken)
    /\ UNCHANGED <<project, backups, service, cut>>

BeginRollback ==
    /\ MayRun /\ backups.latest # None
    /\ updater' = Begun("rollback", 0)
    /\ runs' = runs + 1
    /\ misled' = (misled \/ ~Whole(backups.latest))
    /\ UNCHANGED <<project, backups, service, cut>>

At(at) == updater # None /\ updater.at = at
Now(at) == updater' = [updater EXCEPT !.at = at]

(* _create_pending_backup copies the project.                              *)
BackUp ==
    /\ At("backup")
    /\ backups' = [backups EXCEPT !.pending = @ \union {project}]
    /\ Now(IF updater.kind = "update" THEN "drop" ELSE "clean")
    /\ UNCHANGED <<project, service, history>>

(* _promote_latest_backup, three changes of the directory.                 *)
DropPrevious ==
    /\ At("drop")
    /\ backups' = [backups EXCEPT !.previous = None]
    /\ Now("retire")
    /\ UNCHANGED <<project, service, history>>

Retire ==
    /\ At("retire")
    /\ backups' = IF backups.latest = None THEN backups
                  ELSE [backups EXCEPT !.previous = backups.latest, !.latest = None]
    /\ Now("promote")
    /\ UNCHANGED <<project, service, history>>

Promote ==
    /\ At("promote")
    /\ backups' = [backups EXCEPT !.latest = updater.start,
                                  !.pending = @ \ {updater.start}]
    /\ Now(IF updater.kind = "update" THEN "clean" ELSE "sweep")
    /\ UNCHANGED <<project, service, history>>

(* _remove_other_backups: of an update but the latest, of a rollback also  *)
(* but the one it has just made.                                           *)
AfterClean(u) ==
    IF u.kind = "update"
    THEN [u EXCEPT !.at = "deploy"]
    ELSE Restoring(u, "restore", backups.latest)

Cleaned ==
    [backups EXCEPT !.previous = None, !.source = None,
                    !.pending = IF updater.kind = "update" THEN {} ELSE {updater.start}]

Clean ==
    /\ At("clean")
    /\ backups' = Cleaned
    /\ updater' = AfterClean(updater)
    /\ UNCHANGED <<project, service, history>>

(* The rotation of a rollback that has restored the project.               *)
Rotate ==
    /\ At("rotate")
    /\ backups' = [backups EXCEPT !.source = backups.latest, !.latest = None]
    /\ Now("promote")
    /\ UNCHANGED <<project, service, history>>

(* What cannot be removed after the rollback is done is left with a warning. *)
Sweep ==
    /\ At("sweep")
    /\ backups' \in {backups, [backups EXCEPT !.source = None]}
    /\ Now("succeeded")
    /\ UNCHANGED <<project, service, history>>

-----------------------------------------------------------------------------
Writing == At("deploy") \/ At("restore") \/ At("undo")

RemovePart(p) ==
    /\ Writing /\ p \in updater.remove
    /\ project' = [project EXCEPT ![p] = Broken]
    /\ updater' = [updater EXCEPT !.remove = @ \ {p}]
    /\ UNCHANGED <<backups, service, history>>

Put ==
    LET step == StepOf(updater) IN
    /\ Writing /\ updater.remove = {} /\ updater.done < Steps(updater)
    /\ project' = [project EXCEPT ![step.part] = step.to]
    /\ updater' = [updater EXCEPT !.done = @ + 1]
    /\ UNCHANGED <<backups, service, history>>

Written == Writing /\ updater.remove = {} /\ updater.done = Steps(updater)

Deployed ==
    /\ Written /\ At("deploy")
    /\ Now("succeeded")
    /\ UNCHANGED <<project, backups, service, history>>

Restored ==
    /\ Written /\ At("restore")
    /\ Now(IF updater.kind = "update" THEN "failed" ELSE "rotate")
    /\ UNCHANGED <<project, backups, service, history>>

(* The safety backup of a rollback that failed is removed when the project *)
(* is again what it holds.                                                 *)
Undone ==
    /\ Written /\ At("undo")
    /\ backups' \in {backups, [backups EXCEPT !.pending = @ \ {updater.start}]}
    /\ Now("failed")
    /\ UNCHANGED <<project, service, history>>

-----------------------------------------------------------------------------
(* An exception; an interrupt by the keyboard is caught like one while the *)
(* backup is made and while the project is written, else it kills.         *)
BackUpFails ==
    /\ At("backup")
    /\ Now("failed")
    /\ UNCHANGED <<project, backups, service, history>>

(* What cannot be renamed back stays beside the place of the latest.       *)
PutBack(place) ==
    IF backups[place] # None /\ backups.latest = None
    THEN {backups, [backups EXCEPT !.latest = backups[place], ![place] = None]}
    ELSE {backups}

WithoutPending(b) == [b EXCEPT !.pending = @ \ {updater.start}]

PromotionFails ==
    /\ updater # None /\ updater.kind = "update"
    /\ At("drop") \/ At("retire") \/ At("promote")
    /\ \E b \in IF At("promote") THEN PutBack("previous")
               ELSE IF At("drop") THEN {backups, [backups EXCEPT !.previous = None]}
               ELSE {backups} :
          backups' \in {b, WithoutPending(b)}
    /\ Now("failed")
    /\ UNCHANGED <<project, service, history>>

(* Some old backups are removed, another cannot be.                        *)
CleanFails ==
    /\ At("clean")
    /\ \E kept \in SUBSET (backups.pending \ {updater.start}),
          previous \in {None, backups.previous}, source \in {None, backups.source},
          own \in SUBSET (backups.pending \intersect {updater.start}) :
          backups' = [backups EXCEPT !.previous = previous, !.source = source,
                                     !.pending = kept \union own]
    /\ Now("failed")
    /\ UNCHANGED <<project, service, history>>

RestoreWithoutRotating(u) == [u EXCEPT !.at = "failed"]

AfterFailedRotation(u) == Restoring(u, "undo", u.start)

RotationFails ==
    /\ updater # None /\ updater.kind = "rollback"
    /\ \/ At("rotate") /\ backups' = backups /\ updater' = AfterFailedRotation(updater)
       \/ /\ At("promote")
          /\ \E b \in PutBack("source") :
                /\ backups' = b
                /\ updater' = IF b.latest = None THEN [updater EXCEPT !.at = "stuck"]
                              ELSE AfterFailedRotation(updater)
    /\ UNCHANGED <<project, service, history>>

AfterFailedWrite(u) ==
    IF u.at = "deploy" THEN Restoring(u, "restore", u.start)
    ELSE IF u.at = "restore" /\ u.kind = "rollback"
    THEN Restoring(u, "undo", u.start)
    ELSE [u EXCEPT !.at = "stuck"]

WriteFails ==
    /\ Writing
    /\ updater' = AfterFailedWrite(updater)
    /\ UNCHANGED <<project, backups, service, history>>

-----------------------------------------------------------------------------
Ended == At("succeeded") \/ At("failed") \/ At("stuck")

(* The process returns and its lock is free.                               *)
Exit ==
    /\ Ended
    /\ updater' = None
    /\ cut' = (~Whole(project) /\ (cut \/ At("stuck")))
    /\ UNCHANGED <<project, backups, service, runs, misled>>

Kill ==
    /\ updater # None /\ ~Ended
    /\ updater' = None
    /\ cut' = TRUE
    /\ UNCHANGED <<project, backups, service, runs, misled>>

(* The service takes the lock, and starts if the markers agree and what it *)
(* imports is there.                                                       *)
StartUnlocked ==
    /\ ~service
    /\ \A p \in {"manifest", "web", "lock", "src", "venv"} \intersect Parts :
          project[p] # Broken
    /\ service' = TRUE
    /\ UNCHANGED <<project, backups, updater, history>>

StartService ==
    /\ ~service /\ updater = None
    /\ \A p \in {"manifest", "web", "lock", "src", "venv"} \intersect Parts :
          project[p] # Broken
    /\ service' = TRUE
    /\ UNCHANGED <<project, backups, updater, history>>

WriteData ==
    /\ service /\ project.data \in 1..(MaxData - 1)
    /\ project' = [project EXCEPT !.data = @ + 1]
    /\ UNCHANGED <<backups, updater, service, history>>

StopService ==
    /\ service /\ service' = FALSE
    /\ UNCHANGED <<project, backups, updater, history>>

Next ==
    \/ \E v \in 1..MaxVersion : BeginUpdate(v)
    \/ BeginRollback
    \/ BackUp \/ DropPrevious \/ Retire \/ Promote \/ Clean \/ Rotate \/ Sweep
    \/ \E p \in Parts : RemovePart(p)
    \/ Put \/ Deployed \/ Restored \/ Undone
    \/ BackUpFails \/ PromotionFails \/ CleanFails \/ RotationFails \/ WriteFails
    \/ Exit \/ Kill
    \/ StartService \/ WriteData \/ StopService

Spec == Init /\ [][Next]_vars

-----------------------------------------------------------------------------
Waiting == {"backup", "drop", "retire", "clean"}

(* Types; the project is untouched until its backup is in place, and the   *)
(* module of the runtime lock is there at every instant, for the service   *)
(* and the updater import it before they do anything else.                 *)
TypeOK ==
    /\ project \in Copies /\ project.lock # Broken
    /\ backups \in Backups
    /\ updater \in {None} \union Updaters
    /\ updater # None /\ updater.at \in Waiting => project = updater.start
    /\ service \in BOOLEAN /\ cut \in BOOLEAN /\ misled \in BOOLEAN /\ runs \in Nat

(* "The updater keeps the last complete backup to roll back to"            *)
(* (README.md:169): wherever an updater fails or is killed, and however    *)
(* often it is started again, a whole release with its data is left, in    *)
(* place or among the backups.  But an update does not look at the data,   *)
(* of which a killed one may have removed some, and a rollback restores    *)
(* what it finds, also the broken project that another rollback kept: who  *)
(* has started such a one is not protected.                                *)
OneWhole ==
    \/ misled
    \/ Whole(project)
    \/ \E place \in {"latest", "previous", "source"} :
          backups[place] # None /\ Whole(backups[place])
    \/ \E copy \in backups.pending : Whole(copy)

(* An updater that returns has done all or nothing: the update is complete *)
(* and keeps the data, or a rollback has exchanged project and backup, so  *)
(* that another one undoes it (README.md:179); or all is as it was.  One   *)
(* that could not repair its failure leaves what it had started from.      *)
AllOrNothing ==
    /\ At("succeeded") =>
          /\ backups.latest = updater.start
          /\ IF updater.kind = "rollback" THEN project = updater.latest
             ELSE /\ OfVersion(project, updater.version)
                  /\ project.venv = updater.version
                  /\ project.data = updater.start.data
    /\ At("failed") =>
          /\ project = updater.start
          /\ \/ backups.latest = updater.latest
             \/ updater.kind = "update" /\ backups.latest = updater.start
             \/ updater.kind = "update" /\ backups.previous = updater.latest
    /\ At("stuck") => updater.start \in backups.pending \union {backups.latest}

(* The service never runs on the files of two releases, nor on a part of   *)
(* one, but after an updater that was killed or could not repair what it   *)
(* had begun, until one makes the release whole; or where a rollback       *)
(* brought back such a project.                                            *)
ServiceWhole == service => cut \/ misled \/ Whole(project)
=============================================================================
