--------------------------- MODULE RuntimeUpdate ---------------------------
(***************************************************************************)
(* The runtime the launcher keeps beside its frozen .exe: releases are     *)
(* published as a manifest of digests, a check downloads what differs from *)
(* the manifest applied last, version.json records the manifest, and the   *)
(* mod is copied from the runtime into the game's Mods folder.             *)
(*                                                                         *)
(* cmd_dev removes the mod's folder and copies its sources file by file.   *)
(* Every press of the button and the check run it in threads of their own, *)
(* all in the same folder.  The copy of one file is one step: Windows does *)
(* not let an open file be replaced or removed.                            *)
(*                                                                         *)
(* A release is a function from files to digests, Absent where the         *)
(* manifest does not list the file; its version is its number.  The .exe   *)
(* holds release 1.  One launcher runs at a time, and the Mods folder is   *)
(* known.                                                                  *)
(***************************************************************************)
EXTENDS Naturals, Sequences

CONSTANTS File,
          Builder,      \* client_mod/build_script_mod.py
          ScriptFile,   \* files under client_mod/scripts/
          SharedFile,   \* files under protocol/, which the mod contains too
          Digest, Absent,
          Installer,    \* threads of installMod
          Checker,      \* the thread of _check_updates
          MaxAge,       \* bound: releases a cached manifest is behind
          MaxRelease,   \* bound: releases published
          MaxTrouble    \* bound: failures, crashes and restarts

ASSUME UpdateConstants ==
  /\ Absent \notin Digest
  /\ ScriptFile \subseteq File /\ SharedFile \subseteq File /\ Checker \notin Installer
  /\ Builder \in File \ (ScriptFile \cup SharedFile)
  /\ MaxAge \in Nat /\ MaxRelease \in Nat \ {0} /\ MaxTrouble \in Nat

VARIABLES
  \* the repository
  published,   \* the manifests, in their order
  \* the disk
  disk,        \* the files under CODE_ROOT
  version,     \* the release version.json records, 0 when it cannot be read
  mod,         \* the files of the mod in the Mods folder
  \* the session of the launcher
  running,     \* a launcher runs
  fromRuntime, \* build_script_mod was imported from the runtime
  check,       \* the thread of _check_updates, and _update_busy
  changed,     \* summary["changed"]
  copier,      \* the threads in cmd_dev
  \* history
  troubles,    \* failures, crashes and restarts so far
  written,     \* files the check under way has written
  torn,        \* files a check wrote that was never recorded
  behind       \* files of the mod no install has followed, see ModFollows

diskVars == <<published, disk, version, mod>>
sessionVars == <<running, fromRuntime, check, changed, copier>>
updateHistory == <<troubles, written, torn, behind>>
updateVars == <<diskVars, sessionVars, updateHistory>>

Manifest == [File -> Digest \cup {Absent}]
Feeds == ScriptFile \cup SharedFile   \* SCRIPTS_DIR and PROTOCOL_DIR of the build
Nothing == [f \in File |-> Absent]
NoMod == [f \in Feeds |-> Absent]
Bundle == published[1]

Thread == Installer \cup {Checker}

IdleCheck == [pc |-> "idle", target |-> 0, left |-> {}, failed |-> FALSE]
IdleCopier == [pc |-> "idle", left |-> {}]

Checks ==
  [pc : {"idle", "download", "record", "reinstall", "dead"}, target : 0..MaxRelease,
   left : SUBSET File, failed : BOOLEAN]

\* left: the files the mod does not have from the runtime yet.
Copiers == [pc : {"idle", "audit", "wipe", "copy"}, left : SUBSET Feeds]

UpdateTypeOK ==
  /\ published \in Seq(Manifest) /\ Len(published) \in 1..MaxRelease
  /\ disk \in Manifest /\ version \in 0..Len(published)
  /\ mod \in [Feeds -> Digest \cup {Absent}]
  /\ running \in BOOLEAN /\ fromRuntime \in BOOLEAN
  /\ check \in Checks /\ check.target <= Len(published) /\ changed \subseteq File
  /\ copier \in [Thread -> Copiers]
  /\ troubles \in 0..MaxTrouble
  /\ written \subseteq File /\ torn \subseteq File /\ behind \subseteq Feeds

UpdateInit ==
  /\ published \in {<<m>> : m \in [File -> Digest]}
  /\ disk = Nothing /\ version = 0 /\ mod = NoMod
  /\ running = FALSE /\ fromRuntime = FALSE
  /\ check = IdleCheck /\ changed = {} /\ copier = [th \in Thread |-> IdleCopier]
  /\ troubles = 0 /\ written = {} /\ torn = {} /\ behind = Feeds

-----------------------------------------------------------------------------
\* Mutant of PlanUpdate: what the manifest does not change is taken as there.
PlanUpdateAgainstLast(v) ==
  {f \in File : published[v][f] # Absent /\ (v = 1 \/ published[v - 1][f] # published[v][f])}

\* plan_update: what the manifest lists and the recorded one has otherwise.
PlanUpdate(v) ==
  {f \in File : published[v][f] # Absent /\ (version = 0 \/ published[version][f] # published[v][f])}

\* Mutant of ChangedModFiles: the first release only.
ChangedModFilesAtFirst(files) == files = File

\* changed_mod_files.
ChangedModFiles(files) == files \cap (ScriptFile \cup {Builder}) # {}

\* PROJECT_ROOT of build_script_mod: the tree the builder was imported from.
SourceTree == IF fromRuntime THEN disk ELSE Bundle

Trouble == troubles < MaxTrouble /\ troubles' = troubles + 1

\* make_manifest and a push.
Publish ==
  /\ Len(published) < MaxRelease
  /\ \E m \in Manifest : published' = Append(published, m)
  /\ UNCHANGED <<disk, version, mod, sessionVars, updateHistory>>

-----------------------------------------------------------------------------
\* The session.

\* main(): mount_runtime, then the modules imported once.
Start ==
  /\ ~running
  /\ running' = TRUE /\ fromRuntime' = (disk[Builder] # Absent)
  /\ UNCHANGED <<diskVars, check, changed, copier, updateHistory>>

\* version.json at the end of a thread that may be writing it.
VersionLeft == IF check.pc = "record" THEN {version, 0} ELSE {version}

\* The launcher ends, by itself or not; its threads are daemons.
Quit ==
  /\ running /\ Trouble
  /\ running' = FALSE /\ fromRuntime' = FALSE
  /\ check' = IdleCheck /\ changed' = {} /\ copier' = [th \in Thread |-> IdleCopier]
  /\ version' \in VersionLeft
  /\ written' = {} /\ torn' = torn \cup written
  /\ behind' = behind \cup (Feeds \cap written) \cup UNION {copier[th].left : th \in Thread}
  /\ UNCHANGED <<published, disk, mod>>

-----------------------------------------------------------------------------
\* cmd_dev, in the threads of the button and in the one of the check.

copyVars == <<published, disk, version, running, fromRuntime, changed, written, torn>>

At(th, pc) == copier[th].pc = pc

To(th, pc, left) == copier' = [copier EXCEPT ![th] = [pc |-> pc, left |-> left]]

\* The thread is through with cmd_dev; _update_busy is cleared.
Return(th) ==
  /\ copier' = [copier EXCEPT ![th] = IdleCopier]
  /\ check' = IF th = Checker THEN IdleCheck ELSE check

\* The button is never disabled.
InstallMod(th) ==
  /\ running /\ th \in Installer /\ At(th, "idle")
  /\ To(th, "audit", {})
  /\ UNCHANGED <<copyVars, mod, check, troubles, behind>>

Audited(th) ==
  /\ At(th, "audit") /\ To(th, "wipe", Feeds)
  /\ UNCHANGED <<copyVars, mod, check, troubles, behind>>

\* rmtree, file by file; it fails if it ends and the folder is not empty.
Wipe(th) ==
  /\ At(th, "wipe")
  /\ \E f \in Feeds : mod[f] # Absent /\ mod' = [mod EXCEPT ![f] = Absent]
  /\ UNCHANGED <<copyVars, copier, check, troubles, behind>>

Wiped(th) ==
  /\ At(th, "wipe") /\ mod = NoMod
  /\ To(th, "copy", Feeds)
  /\ UNCHANGED <<copyVars, mod, check, troubles, behind>>

\* The scripts before the protocol.
NextFiles(th) ==
  LET scripts == copier[th].left \cap ScriptFile
  IN IF scripts # {} THEN scripts ELSE copier[th].left

\* A file the source tree does not have is not listed.  A copy from the bundle
\* leaves the mod at the release of the .exe.
Copy(th) ==
  /\ At(th, "copy")
  /\ \E f \in NextFiles(th) :
       /\ mod' = IF SourceTree[f] = Absent THEN mod ELSE [mod EXCEPT ![f] = SourceTree[f]]
       /\ behind' = IF fromRuntime THEN behind \ {f} ELSE behind \cup {f}
       /\ To(th, "copy", copier[th].left \ {f})
  /\ UNCHANGED <<copyVars, check, troubles>>

\* "Mod installed", or the end of the check.
Installed(th) ==
  /\ At(th, "copy") /\ copier[th].left = {}
  /\ Return(th)
  /\ UNCHANGED <<copyVars, mod, troubles, behind>>

Working(th) == At(th, "wipe") \/ (At(th, "copy") /\ copier[th].left # {})

\* A file another thread is writing cannot be removed, a folder it puts files
\* into is not empty, and one it removes cannot be written into.
Collides(th) == Working(th) /\ \E other \in Thread \ {th} : Working(other)

\* Threads get in each other's way, or the game holds a file open.
InstallFails(th) ==
  /\ ~At(th, "idle")
  /\ Trouble \/ (Collides(th) /\ UNCHANGED troubles)
  /\ Return(th)
  /\ behind' = behind \cup copier[th].left
  /\ UNCHANGED <<copyVars, mod>>

\* The audit of the sources exits, which no handler catches: _update_busy stays
\* set.
AuditExits ==
  /\ At(Checker, "audit") /\ Trouble
  /\ To(Checker, "idle", {})
  /\ check' = [IdleCheck EXCEPT !.pc = "dead"]
  /\ behind' = behind \cup copier[Checker].left
  /\ UNCHANGED <<copyVars, mod>>

-----------------------------------------------------------------------------
\* The thread of _check_updates.

\* The manifest of the API, or an older one from the raw CDN's cache.
Served(v) == v \in DOMAIN published /\ v + MaxAge >= Len(published)

CheckOffline ==
  /\ running /\ check.pc = "idle" /\ Trouble
  /\ changed' = {}
  /\ UNCHANGED <<diskVars, running, fromRuntime, check, copier, written, torn, behind>>

CheckCurrent ==
  /\ running /\ check.pc = "idle"
  /\ Served(version) /\ PlanUpdate(version) = {}
  /\ changed' = {}
  /\ UNCHANGED <<diskVars, running, fromRuntime, check, copier, updateHistory>>

CheckPlans ==
  /\ running /\ check.pc = "idle"
  /\ \E v \in DOMAIN published :
       /\ Served(v) /\ v # version
       /\ changed' = PlanUpdate(v)
       /\ check' = [pc |-> IF PlanUpdate(v) = {} THEN "record" ELSE "download", target |-> v,
                    left |-> PlanUpdate(v), failed |-> FALSE]
  /\ UNCHANGED <<diskVars, running, fromRuntime, copier, updateHistory>>

\* apply_changes, file by file.
After(left, failed) ==
  check' = [check EXCEPT !.left = left, !.failed = failed,
                         !.pc = IF left = {} /\ ~failed THEN "record" ELSE "download"]

Fetched ==
  /\ check.pc = "download"
  /\ \E f \in check.left :
       /\ disk' = [disk EXCEPT ![f] = published[check.target][f]]
       /\ written' = written \cup {f}
       /\ After(check.left \ {f}, check.failed)
  /\ UNCHANGED <<published, version, mod, running, fromRuntime, changed, copier, troubles,
                 torn, behind>>

\* No verified copy of the file, neither pinned nor on the branch.
Missed ==
  /\ check.pc = "download" /\ Trouble
  /\ \E f \in check.left : After(check.left \ {f}, TRUE)
  /\ UNCHANGED <<diskVars, running, fromRuntime, changed, copier, written, torn, behind>>

GiveUp ==
  /\ check.pc = "download" /\ check.left = {}
  /\ check' = IdleCheck
  /\ written' = {} /\ torn' = torn \cup written
  /\ behind' = behind \cup (written \cap Feeds)
  /\ UNCHANGED <<diskVars, running, fromRuntime, changed, copier, troubles>>

\* A file cannot be written: nothing catches it, _update_busy stays set.
ThreadDies ==
  /\ check.pc \in {"download", "record"} /\ Trouble
  /\ check' = [IdleCheck EXCEPT !.pc = "dead"]
  /\ version' \in VersionLeft
  /\ written' = {} /\ torn' = torn \cup written
  /\ behind' = behind \cup (written \cap Feeds)
  /\ UNCHANGED <<published, disk, mod, running, fromRuntime, changed, copier>>

\* write_local_manifest, and whether the mod has to follow.
Record ==
  /\ check.pc = "record"
  /\ version' = check.target
  /\ written' = {} /\ torn' = torn \ written
  /\ IF ChangedModFiles(changed)
     THEN /\ check' = [check EXCEPT !.pc = "reinstall"]
          /\ To(Checker, "audit", changed \cap Feeds)
          /\ UNCHANGED behind
     ELSE /\ check' = IdleCheck
          /\ behind' = behind \cup (changed \cap SharedFile)
          /\ UNCHANGED copier
  /\ UNCHANGED <<published, disk, mod, running, fromRuntime, changed, troubles>>

UpdateNext ==
  \/ Publish \/ Start \/ Quit
  \/ \E th \in Thread :
       \/ InstallMod(th) \/ Audited(th) \/ Wipe(th) \/ Wiped(th)
       \/ Copy(th) \/ Installed(th) \/ InstallFails(th)
  \/ AuditExits
  \/ CheckOffline \/ CheckCurrent \/ CheckPlans \/ Fetched \/ Missed \/ GiveUp \/ ThreadDies
  \/ Record

UpdateSpec == UpdateInit /\ [][UpdateNext]_updateVars

-----------------------------------------------------------------------------
\* The files of the recorded manifest are on disk as it says, except those a
\* check wrote that did not come to record its own: version.json is what the
\* next check compares the new manifest with (updater.plan_update).
RecordIsOnDisk ==
  version # 0 =>
    \A f \in File \ (torn \cup written) :
      published[version][f] # Absent => disk[f] = published[version][f]

\* Files a thread of an install has yet to copy, or the check under way wrote.
Pending == written \cup UNION {copier[th].left : th \in Thread}

\* A mod file that no failed, missing or skipped install explains, and that no
\* thread has yet to copy, is the runtime's, whatever installs and checks
\* overlap: after an update the game and the launcher run the same code.
ModFollows == \A f \in Feeds \ (behind \cup Pending) : mod[f] = disk[f]
=============================================================================
