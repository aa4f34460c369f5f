------------------------------ MODULE SkillStore ------------------------------
(***************************************************************************)
(* The skill store CLI, backend/cli: install and upgrade of skills with the  *)
(* lock file that lists them, and the upgrade of the CLI itself that every   *)
(* start of it tries first.                                                  *)
(*                                                                         *)
(* One process at a time (the lock file is not locked); it may fail or be    *)
(* killed between any two writes.  A write truncates the file first.         *)
(***************************************************************************)
EXTENDS Naturals, Sequences

CONSTANTS
    Skills,
    MaxRelease   \* bound on the versions of a skill, and of the CLI

ASSUME SkillStoreAssumption == Skills # {} /\ MaxRelease \in Nat \ {0}

VARIABLES
    published,  \* the version of the skills in the registry
    release,    \* the version of the CLI in the registry
    skillDir,   \* skillDir[s]: what the directory of skill s holds
    lockFile,   \* the lock file: which skills it lists, in which version
    cliHome,    \* the files of the CLI: their versions, 0 for a torn or missing one
    cli,        \* the process
    downgraded  \* history: skills installed last from a package older than an entry of theirs

storeFiles == <<skillDir, lockFile, downgraded>>
skillStoreVars == <<published, release, skillDir, lockFile, cliHome, cli, downgraded>>

-----------------------------------------------------------------------------

Versions == 1..MaxRelease

\* part: a directory that is empty or not wholly extracted; config: it has a
\* config.json, with the update URL.
Folders == [holds: {"nothing", "part", "skill"}, ver: 0..MaxRelease, config: BOOLEAN]
NoFolder == [holds |-> "nothing", ver |-> 0, config |-> FALSE]
EmptyFolder == [holds |-> "part", ver |-> 0, config |-> FALSE]

\* ver = 0: a version that is not known.
LockFiles == [Skills -> [listed: BOOLEAN, ver: 0..MaxRelease]]
EmptyLock == [s \in Skills |-> [listed |-> FALSE, ver |-> 0]]
Entry(v) == [listed |-> TRUE, ver |-> v]

\* Mutated form: the version is written before the files it is the version of.
CopyOrder_VersionFirst == <<"backup", "version", "script", "module">>

\* The files of the CLI that an upgrade writes, in this order; the metadata, written
\* before the version, only has defaults to lose.
CopyOrder == <<"backup", "script", "module", "version">>

CliFiles == {"backup", "script", "module", "version"}
CliStates == {"off", "checking", "copying", "ready", "installing", "upgrading",
              "replacing", "restoring", "saving", "writing"}

\* running: the version the process has read at its start; open: it has truncated
\* the file of this step; lock: what it will save; todo: skills it has to look at;
\* skill, ver: the one it is replacing, by which version.
CliRecords == [pc: CliStates, running: 0..MaxRelease, step: 1..4, open: BOOLEAN,
               lock: LockFiles, todo: SUBSET Skills, skill: Skills, ver: 0..MaxRelease]
OffCli == [pc |-> "off", running |-> 0, step |-> 1, open |-> FALSE, lock |-> EmptyLock,
           todo |-> {}, skill |-> CHOOSE s \in Skills : TRUE, ver |-> 0]

SkillStoreTypeOK ==
    /\ published \in Versions /\ release \in Versions
    /\ skillDir \in [Skills -> Folders]
    /\ lockFile \in LockFiles
    /\ cliHome \in [CliFiles -> 0..MaxRelease]
    /\ cli \in CliRecords
    /\ downgraded \subseteq Skills

SkillStoreInit ==
    /\ published = 1 /\ release = 1
    /\ skillDir = [s \in Skills |-> NoFolder]
    /\ lockFile = EmptyLock
    /\ cliHome = [f \in CliFiles |-> IF f = "backup" THEN 0 ELSE 1]
    /\ cli = OffCli
    /\ downgraded = {}

\* version_is_newer, of numeric versions; one that is not known is older than all.
IsNewer(v, w) == v > w

-----------------------------------------------------------------------------
(* run_self_upgrade_flow, at the start of the process.                       *)

\* The script can be read and imports its module.  A torn version file stands for a
\* version that is older than any release.
StartCli ==
    /\ cli.pc = "off" /\ cliHome["script"] # 0 /\ cliHome["module"] # 0
    /\ cli' = [OffCli EXCEPT !.pc = "checking", !.running = cliHome["version"]]
    /\ UNCHANGED <<published, release, storeFiles, cliHome>>

\* The manifest, the package, its checksum and its content are good ...
BeginSelfUpgrade ==
    /\ cli.pc = "checking" /\ IsNewer(release, cli.running)
    /\ cli' = [OffCli EXCEPT !.pc = "copying", !.ver = release]
    /\ UNCHANGED <<published, release, storeFiles, cliHome>>

\* ... or the start goes on without: nothing newer, a timeout, a bad package.
SkipSelfUpgrade ==
    /\ cli.pc = "checking"
    /\ cli' = [OffCli EXCEPT !.pc = "ready"]
    /\ UNCHANGED <<published, release, storeFiles, cliHome>>

\* copyfile truncates the target ...
BeginCopy ==
    /\ cli.pc = "copying" /\ ~cli.open
    /\ cli' = [cli EXCEPT !.open = TRUE]
    /\ cliHome' = [cliHome EXCEPT ![CopyOrder[cli.step]] = 0]
    /\ UNCHANGED <<published, release, storeFiles>>

NextCopy == IF cli.step = 4 THEN [OffCli EXCEPT !.pc = "ready"]
            ELSE [cli EXCEPT !.step = @ + 1, !.open = FALSE]

\* ... and fills it: the backup from the script, the others from the package.  After
\* the last the process executes itself again, and does not check again.
EndCopy ==
    /\ cli.pc = "copying" /\ cli.open
    /\ cliHome' = [cliHome EXCEPT ![CopyOrder[cli.step]] =
                      IF CopyOrder[cli.step] = "backup" THEN cliHome["script"] ELSE cli.ver]
    /\ cli' = NextCopy
    /\ UNCHANGED <<published, release, storeFiles>>

\* A package may be without the module.
SkipModule ==
    /\ cli.pc = "copying" /\ ~cli.open /\ CopyOrder[cli.step] = "module"
    /\ cli' = NextCopy
    /\ UNCHANGED <<published, release, storeFiles, cliHome>>

\* A file cannot be written: the start goes on with the code in memory.
CopyFails ==
    /\ cli.pc = "copying"
    /\ cli' = [OffCli EXCEPT !.pc = "ready"]
    /\ UNCHANGED <<published, release, storeFiles, cliHome>>

-----------------------------------------------------------------------------
(* install.                                                                  *)

\* The index lists a version, or none, or, when it does not list the skill, the first
\* result of the search is taken, which may be another skill; the old directory goes
\* before the download, with --force, or there was none.
BeginInstall(s) ==
    /\ cli.pc = "ready"
    /\ \E listed \in 0..MaxRelease :
          cli' = [cli EXCEPT !.pc = "installing", !.skill = s, !.ver = listed]
    /\ skillDir' = [skillDir EXCEPT ![s] = EmptyFolder]
    /\ UNCHANGED <<published, release, lockFile, downgraded, cliHome>>

\* Mutated form: the entry names what the registry has when it is written.
Recorded_Newest(s, v) == Entry(published)

\* The entry of the lock file for skill s, installed as version v.
Recorded(s, v) == Entry(v)

\* The files of a package come one after the other.
ExtractPart ==
    /\ cli.pc \in {"installing", "replacing"}
    /\ skillDir' = [skillDir EXCEPT ![cli.skill].config = TRUE]
    /\ UNCHANGED <<published, release, lockFile, downgraded, cliHome, cli>>

\* The primary source serves the newest version, whatever the index lists, and the
\* other one what it lists; the lock file is read only now.
Installed ==
    /\ cli.pc = "installing"
    /\ \E config \in BOOLEAN, v \in {published} \cup ({cli.ver} \cap 1..published) :
          /\ skillDir' = [skillDir EXCEPT ![cli.skill] = [holds |-> "skill", ver |-> v, config |-> config]]
          /\ downgraded' = IF v < lockFile[cli.skill].ver \/ v < cli.ver THEN downgraded \cup {cli.skill}
                           ELSE downgraded \ {cli.skill}
    /\ cli' = [OffCli EXCEPT !.pc = "saving", !.lock = [lockFile EXCEPT ![cli.skill] =
                                                           Recorded(cli.skill, cli.ver)]]
    /\ UNCHANGED <<published, release, lockFile, cliHome>>

-----------------------------------------------------------------------------
(* upgrade, of one skill or of those in the lock file, which is read once.   *)

BeginUpgrade ==
    /\ cli.pc = "ready"
    /\ \E todo \in {{s} : s \in Skills} \cup {{s \in Skills : lockFile[s].listed}} :
          todo # {} /\ cli' = [cli EXCEPT !.pc = "upgrading", !.lock = lockFile, !.todo = todo]
    /\ UNCHANGED <<published, release, storeFiles, cliHome>>

\* No directory, no config, a bad one, a manifest that cannot be had, up to date.
SkipSkill(s) ==
    /\ cli.pc = "upgrading" /\ s \in cli.todo
    /\ cli' = [cli EXCEPT !.todo = @ \ {s}]
    /\ UNCHANGED <<published, release, storeFiles, cliHome>>

\* _read_installed_skill_version: of the lock file, or of the skill's own metadata.
InstalledVersions(s) == IF cli.lock[s].ver # 0 THEN {cli.lock[s].ver} ELSE {0, skillDir[s].ver}

\* The manifest has a newer version: the directory goes before the download.
BeginReplace(s) ==
    /\ cli.pc = "upgrading" /\ s \in cli.todo
    /\ skillDir[s].config
    /\ \E v \in InstalledVersions(s) : IsNewer(published, v)
    /\ cli' = [cli EXCEPT !.pc = "replacing", !.skill = s, !.ver = published, !.todo = @ \ {s}]
    /\ skillDir' = [skillDir EXCEPT ![s] = EmptyFolder]
    /\ UNCHANGED <<published, release, lockFile, downgraded, cliHome>>

\* The package of the manifest is extracted, ...
Replaced ==
    /\ cli.pc = "replacing"
    /\ \E config \in BOOLEAN : skillDir' = [skillDir EXCEPT ![cli.skill] =
                                  [holds |-> "skill", ver |-> cli.ver, config |-> config]]
    /\ downgraded' = downgraded \ {cli.skill}
    /\ cli' = [cli EXCEPT !.pc = "restoring"]
    /\ UNCHANGED <<published, release, lockFile, cliHome>>

\* ... or cannot be had, has another checksum, is no archive, cannot be written: the
\* skill is gone, or is without its entry, and the others are upgraded.
ReplaceFails ==
    /\ cli.pc \in {"replacing", "restoring"}
    /\ cli' = [cli EXCEPT !.pc = "upgrading"]
    /\ UNCHANGED <<published, release, storeFiles, cliHome>>

\* The config is put back when the package has none; the entry is noted.
RestoreConfig ==
    /\ cli.pc = "restoring"
    /\ skillDir' = [skillDir EXCEPT ![cli.skill].config = TRUE]
    /\ cli' = [cli EXCEPT !.pc = "upgrading", !.lock[cli.skill] = Recorded(cli.skill, cli.ver)]
    /\ UNCHANGED <<published, release, lockFile, downgraded, cliHome>>

FinishUpgrade ==
    /\ cli.pc = "upgrading" /\ cli.todo = {}
    /\ cli' = [OffCli EXCEPT !.pc = "saving", !.lock = cli.lock]
    /\ UNCHANGED <<published, release, storeFiles, cliHome>>

-----------------------------------------------------------------------------

\* save_lockfile truncates the file, which reads as no skills, ...
TruncateLock ==
    /\ cli.pc = "saving"
    /\ lockFile' = EmptyLock
    /\ cli' = [cli EXCEPT !.pc = "writing"]
    /\ UNCHANGED <<published, release, skillDir, downgraded, cliHome>>

\* ... and writes it: the command is done.
WriteLock ==
    /\ cli.pc = "writing"
    /\ lockFile' = cli.lock
    /\ cli' = OffCli
    /\ UNCHANGED <<published, release, skillDir, downgraded, cliHome>>

\* The command ends before it has written what it should: it found nothing to do, a
\* download failed, or the process was killed.
AbandonCli ==
    /\ cli.pc # "off"
    /\ cli' = OffCli
    /\ UNCHANGED <<published, release, storeFiles, cliHome>>

\* The registry goes on.
PublishSkills ==
    /\ published < MaxRelease
    /\ published' = published + 1
    /\ UNCHANGED <<release, storeFiles, cliHome, cli>>

ReleaseCli ==
    /\ release < MaxRelease
    /\ release' = release + 1
    /\ UNCHANGED <<published, storeFiles, cliHome, cli>>

-----------------------------------------------------------------------------

SkillStoreNext ==
    \/ StartCli \/ BeginSelfUpgrade \/ SkipSelfUpgrade
    \/ BeginCopy \/ EndCopy \/ SkipModule \/ CopyFails
    \/ \E s \in Skills : BeginInstall(s) \/ SkipSkill(s) \/ BeginReplace(s)
    \/ ExtractPart \/ Installed \/ BeginUpgrade \/ Replaced \/ ReplaceFails \/ RestoreConfig \/ FinishUpgrade
    \/ TruncateLock \/ WriteLock \/ AbandonCli \/ PublishSkills \/ ReleaseCli

SkillStoreSpec == SkillStoreInit /\ [][SkillStoreNext]_skillStoreVars

-----------------------------------------------------------------------------
(* Properties.                                                               *)

\* However often the process fails or is killed, while it upgrades itself or not, the
\* lock file names no version that is newer than the skill it is about, so no
\* upgrade is skipped for good - unless the skill was overwritten with an older one, or
\* recorded with the version of another, by an install from the second source or the
\* search.
LockIsNotAhead ==
    \A s \in Skills \ downgraded : lockFile[s].listed /\ skillDir[s].holds = "skill"
                      => lockFile[s].ver <= skillDir[s].ver

\* A self-upgrade that is cut short anywhere leaves a script, or its backup, in one
\* piece; and a script that starts finds that it is to be upgraded until all of the
\* upgrade is written.
SelfUpgradeIsRetried ==
    /\ cliHome["script"] # 0 \/ cliHome["backup"] # 0
    /\ cliHome["script"] # 0 => cliHome["version"] <= cliHome["script"]
=============================================================================
