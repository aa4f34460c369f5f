-------------------------- MODULE SkillStore_proofs --------------------------
(***************************************************************************)
(* Proofs about SkillStore for every set of skills and every bound on the  *)
(* versions.                                                               *)
(***************************************************************************)
EXTENDS SkillStore, TLAPS

-----------------------------------------------------------------------------
(* Types.                                                                  *)

LEMMA StoreConstantTypes ==
    /\ MaxRelease \in Nat \ {0} /\ Versions \subseteq 1..MaxRelease /\ 1 \in Versions
    /\ NoFolder \in Folders /\ EmptyFolder \in Folders
    /\ EmptyLock \in LockFiles
    /\ \A v \in 0..MaxRelease : Entry(v) \in [listed: BOOLEAN, ver: 0..MaxRelease]
    /\ OffCli \in CliRecords
<1>1. MaxRelease \in Nat \ {0} /\ Versions = 1..MaxRelease /\ 1 \in Versions
  BY SkillStoreAssumption DEF Versions
<1>2. NoFolder \in Folders /\ EmptyFolder \in Folders
  BY <1>1 DEF NoFolder, EmptyFolder, Folders
<1>3. \A v \in 0..MaxRelease : Entry(v) \in [listed: BOOLEAN, ver: 0..MaxRelease]
  BY <1>1 DEF Entry
<1>4. EmptyLock \in LockFiles
  BY <1>1 DEF EmptyLock, LockFiles
<1>5. (CHOOSE s \in Skills : TRUE) \in Skills
  BY SkillStoreAssumption
<1>6. OffCli \in CliRecords
  BY <1>1, <1>4, <1>5 DEF OffCli, CliRecords, CliStates
<1>7. QED
  BY <1>1, <1>2, <1>3, <1>4, <1>6

\* The files an upgrade of the CLI writes.
LEMMA CopyOrderFiles ==
    /\ CopyOrder[1] = "backup" /\ CopyOrder[2] = "script"
    /\ CopyOrder[3] = "module" /\ CopyOrder[4] = "version"
    /\ \A i \in 1..4 : CopyOrder[i] \in CliFiles
<1>1. /\ CopyOrder[1] = "backup" /\ CopyOrder[2] = "script"
      /\ CopyOrder[3] = "module" /\ CopyOrder[4] = "version"
  BY DEF CopyOrder
<1>2. \A i \in 1..4 : i = 1 \/ i = 2 \/ i = 3 \/ i = 4
  OBVIOUS
<1>3. QED
  BY <1>1, <1>2 DEF CliFiles

\* The process after a step of it.
LEMMA CliTypes ==
    ASSUME NEW x \in CliRecords
    PROVE  /\ \A p \in CliStates : [x EXCEPT !.pc = p] \in CliRecords
           /\ [x EXCEPT !.open = TRUE] \in CliRecords
           /\ x.step # 4 => [x EXCEPT !.step = @ + 1, !.open = FALSE] \in CliRecords
           /\ \A s : [x EXCEPT !.todo = @ \ {s}] \in CliRecords
           /\ \A p \in CliStates, v \in 0..MaxRelease :
                 /\ [x EXCEPT !.pc = p, !.running = v] \in CliRecords
                 /\ [x EXCEPT !.pc = p, !.ver = v] \in CliRecords
           /\ \A p \in CliStates, s \in Skills, v \in 0..MaxRelease, T \in SUBSET Skills :
                 /\ [x EXCEPT !.pc = p, !.skill = s, !.ver = v] \in CliRecords
                 /\ [x EXCEPT !.pc = p, !.skill = s, !.ver = v, !.todo = @ \ T] \in CliRecords
           /\ \A p \in CliStates, l \in LockFiles, T \in SUBSET Skills :
                 /\ [x EXCEPT !.pc = p, !.lock = l] \in CliRecords
                 /\ [x EXCEPT !.pc = p, !.lock = l, !.todo = T] \in CliRecords
<1>1. \A p \in CliStates : [x EXCEPT !.pc = p] \in CliRecords
  BY DEF CliRecords
<1>2. [x EXCEPT !.open = TRUE] \in CliRecords
  BY DEF CliRecords
<1>3. x.step # 4 => [x EXCEPT !.step = @ + 1, !.open = FALSE] \in CliRecords
  <2>1. x.step \in 1..4 /\ x.step # 4 => x.step + 1 \in 1..4
    BY DEF CliRecords
  <2>2. QED
    BY <2>1 DEF CliRecords
<1>4. \A s : [x EXCEPT !.todo = @ \ {s}] \in CliRecords
  BY DEF CliRecords
<1>5. ASSUME NEW p \in CliStates, NEW v \in 0..MaxRelease
      PROVE  /\ [x EXCEPT !.pc = p, !.running = v] \in CliRecords
             /\ [x EXCEPT !.pc = p, !.ver = v] \in CliRecords
  BY DEF CliRecords
<1>6. ASSUME NEW p \in CliStates, NEW s \in Skills, NEW v \in 0..MaxRelease, NEW T \in SUBSET Skills
      PROVE  [x EXCEPT !.pc = p, !.skill = s, !.ver = v] \in CliRecords
  BY DEF CliRecords
<1>7. ASSUME NEW p \in CliStates, NEW s \in Skills, NEW v \in 0..MaxRelease, NEW T \in SUBSET Skills
      PROVE  [x EXCEPT !.pc = p, !.skill = s, !.ver = v, !.todo = @ \ T] \in CliRecords
  BY DEF CliRecords
<1>8. ASSUME NEW p \in CliStates, NEW l \in LockFiles, NEW T \in SUBSET Skills
      PROVE  /\ [x EXCEPT !.pc = p, !.lock = l] \in CliRecords
             /\ [x EXCEPT !.pc = p, !.lock = l, !.todo = T] \in CliRecords
  BY DEF CliRecords
<1>9. QED
  BY <1>1, <1>2, <1>3, <1>4, <1>5, <1>6, <1>7, <1>8

\* What a new entry makes of a lock file.
LEMMA LockWith ==
    ASSUME NEW l \in LockFiles, NEW s \in Skills, NEW v \in 0..MaxRelease
    PROVE  [l EXCEPT ![s] = Recorded(s, v)] \in LockFiles
BY StoreConstantTypes DEF Recorded, LockFiles

\* Every step of the process, of the registry too, keeps the types.
LEMMA StoreTypeStep ==
    ASSUME SkillStoreTypeOK, [SkillStoreNext]_skillStoreVars
    PROVE  SkillStoreTypeOK'
<1> USE DEF SkillStoreTypeOK, storeFiles
<1>1. cli \in CliRecords /\ cli.pc \in CliStates /\ cli.step \in 1..4 /\ cli.skill \in Skills
      /\ cli.lock \in LockFiles /\ cli.ver \in 0..MaxRelease /\ cli.todo \in SUBSET Skills
  BY DEF CliRecords
<1>2. CASE StartCli \/ BeginSelfUpgrade \/ SkipSelfUpgrade
  <2>1. cliHome["version"] \in 0..MaxRelease /\ release \in 0..MaxRelease
    BY StoreConstantTypes DEF CliFiles, Versions
  <2>2. cli' \in CliRecords
    <3>1. "checking" \in CliStates /\ "copying" \in CliStates /\ "ready" \in CliStates
      BY DEF CliStates
    <3>2. OffCli \in CliRecords
      BY StoreConstantTypes
    <3>3. CASE StartCli
      BY <2>1, <3>1, <3>2, <3>3, CliTypes DEF StartCli
    <3>4. CASE BeginSelfUpgrade
      BY <2>1, <3>1, <3>2, <3>4, CliTypes DEF BeginSelfUpgrade
    <3>5. CASE SkipSelfUpgrade
      BY <3>1, <3>2, <3>5, CliTypes DEF SkipSelfUpgrade
    <3>6. QED
      BY <1>2, <3>3, <3>4, <3>5
  <2>3. QED
    BY <1>2, <2>2 DEF StartCli, BeginSelfUpgrade, SkipSelfUpgrade
<1>3. CASE BeginCopy \/ EndCopy \/ SkipModule \/ CopyFails
  <2>1. NextCopy \in CliRecords
    BY <1>1, StoreConstantTypes, CliTypes DEF NextCopy, CliStates
  <2>2. cli' \in CliRecords
    BY <1>1, <1>3, <2>1, StoreConstantTypes, CliTypes
       DEF BeginCopy, EndCopy, SkipModule, CopyFails, CliStates
  <2>3. cliHome["script"] \in 0..MaxRelease /\ 0 \in 0..MaxRelease
    BY StoreConstantTypes DEF CliFiles
  <2>4. cliHome' \in [CliFiles -> 0..MaxRelease]
    BY <1>1, <1>3, <2>3, CopyOrderFiles DEF BeginCopy, EndCopy, SkipModule, CopyFails
  <2>5. QED
    BY <1>3, <2>2, <2>4 DEF BeginCopy, EndCopy, SkipModule, CopyFails
<1>4. ASSUME NEW s \in Skills, BeginInstall(s) \/ SkipSkill(s) \/ BeginReplace(s)
      PROVE  SkillStoreTypeOK'
  <2>1. published \in 0..MaxRelease
    BY StoreConstantTypes DEF Versions
  <2>2. CASE BeginInstall(s)
    <3>1. PICK listed \in 0..MaxRelease :
             cli' = [cli EXCEPT !.pc = "installing", !.skill = s, !.ver = listed]
      BY <2>2 DEF BeginInstall
    <3>2. cli' \in CliRecords
      BY <1>1, <3>1, CliTypes DEF CliStates
    <3>3. QED
      BY <2>2, <3>2, StoreConstantTypes DEF BeginInstall
  <2>3. CASE SkipSkill(s)
    BY <1>1, <2>3, StoreConstantTypes, CliTypes DEF SkipSkill
  <2>4. CASE BeginReplace(s)
    <3>1. cli' = [cli EXCEPT !.pc = "replacing", !.skill = s, !.ver = published, !.todo = @ \ {s}]
      BY <2>4 DEF BeginReplace
    <3>2. "replacing" \in CliStates /\ {s} \in SUBSET Skills
      BY DEF CliStates
    <3>3. cli' \in CliRecords
      BY <1>1, <2>1, <3>1, <3>2, CliTypes
    <3>4. QED
      BY <2>4, <3>3, StoreConstantTypes DEF BeginReplace
  <2>5. QED
    BY <1>4, <2>2, <2>3, <2>4
<1>5. CASE ExtractPart
  BY <1>1, <1>5 DEF ExtractPart, Folders
<1>6. CASE Installed
  <2>1. PICK config \in BOOLEAN, v \in {published} \cup ({cli.ver} \cap 1..published) :
          /\ skillDir' = [skillDir EXCEPT ![cli.skill] = [holds |-> "skill", ver |-> v, config |-> config]]
          /\ downgraded' = IF v < lockFile[cli.skill].ver \/ v < cli.ver
                           THEN downgraded \cup {cli.skill} ELSE downgraded \ {cli.skill}
    BY <1>6 DEF Installed
  <2>2. v \in 0..MaxRelease
    BY <1>1, StoreConstantTypes DEF Versions
  <2>3. skillDir' \in [Skills -> Folders] /\ downgraded' \subseteq Skills
    BY <1>1, <2>1, <2>2 DEF Folders
  <2>4. cli' \in CliRecords
    BY <1>1, <1>6, LockWith, StoreConstantTypes, CliTypes DEF Installed, CliStates
  <2>5. QED
    BY <1>6, <2>3, <2>4 DEF Installed
<1>7. CASE BeginUpgrade
  <2>1. PICK todo \in SUBSET Skills :
           cli' = [cli EXCEPT !.pc = "upgrading", !.lock = lockFile, !.todo = todo]
    BY <1>7 DEF BeginUpgrade
  <2>2. cli' \in CliRecords
    BY <1>1, <2>1, CliTypes DEF CliStates
  <2>3. QED
    BY <1>7, <2>2 DEF BeginUpgrade
<1>8. CASE Replaced \/ ReplaceFails
  <2>1. cli' \in CliRecords
    BY <1>1, <1>8, CliTypes DEF Replaced, ReplaceFails, CliStates
  <2>2. \A config \in BOOLEAN : [holds |-> "skill", ver |-> cli.ver, config |-> config] \in Folders
    BY <1>1 DEF Folders
  <2>3. skillDir' \in [Skills -> Folders] /\ downgraded' \subseteq Skills
    BY <1>1, <1>8, <2>2 DEF Replaced, ReplaceFails
  <2>4. QED
    BY <1>8, <2>1, <2>3 DEF Replaced, ReplaceFails
<1>9. CASE RestoreConfig
  <2>1. cli' = [cli EXCEPT !.pc = "upgrading",
                           !.lock = [cli.lock EXCEPT ![cli.skill] = Recorded(cli.skill, cli.ver)]]
    BY <1>1, <1>9 DEF RestoreConfig, CliRecords
  <2>2. cli' \in CliRecords
    BY <1>1, <2>1, LockWith, CliTypes DEF CliStates
  <2>3. skillDir' \in [Skills -> Folders]
    BY <1>1, <1>9 DEF RestoreConfig, Folders
  <2>4. QED
    BY <1>9, <2>2, <2>3 DEF RestoreConfig
<1>10. CASE FinishUpgrade \/ TruncateLock \/ WriteLock \/ AbandonCli
  <2>1. cli' \in CliRecords
    <3>1. "saving" \in CliStates /\ "writing" \in CliStates /\ OffCli \in CliRecords
      BY StoreConstantTypes DEF CliStates
    <3>2. CASE FinishUpgrade
      BY <1>1, <3>1, <3>2, CliTypes DEF FinishUpgrade
    <3>3. CASE TruncateLock
      BY <1>1, <3>1, <3>3, CliTypes DEF TruncateLock
    <3>4. CASE WriteLock \/ AbandonCli
      BY <3>1, <3>4 DEF WriteLock, AbandonCli
    <3>5. QED
      BY <1>10, <3>2, <3>3, <3>4
  <2>2. QED
    BY <1>1, <1>10, <2>1, StoreConstantTypes
       DEF FinishUpgrade, TruncateLock, WriteLock, AbandonCli
<1>11. CASE PublishSkills \/ ReleaseCli
  BY <1>11, StoreConstantTypes DEF PublishSkills, ReleaseCli, Versions
<1>12. CASE UNCHANGED skillStoreVars
  BY <1>12 DEF skillStoreVars
<1>13. QED
  BY <1>2, <1>3, <1>4, <1>5, <1>6, <1>7, <1>8, <1>9, <1>10, <1>11, <1>12 DEF SkillStoreNext

\* Type correctness of the skill store: versions stay those the registry published,
\* and every step leaves a process that knows which file or skill it is at.
THEOREM SkillStoreTypes == SkillStoreSpec => []SkillStoreTypeOK
<1>1. SkillStoreInit => SkillStoreTypeOK
  BY StoreConstantTypes DEF SkillStoreInit, SkillStoreTypeOK
<1>2. QED
  BY <1>1, StoreTypeStep, PTL DEF SkillStoreSpec

-----------------------------------------------------------------------------
(* The upgrade of the CLI.                                                 *)

\* The order of the writes, relied on by every step: the backup is whole before the
\* script is truncated, and the version is written when the script is the new one.
CopyInOrder ==
    /\ cli.pc = "checking" => cliHome["script"] # 0 /\ cli.running = cliHome["version"]
    /\ cli.pc = "copying" =>
          /\ cli.ver # 0 /\ cliHome["version"] <= cli.ver
          /\ cli.step = 1 => cliHome["script"] # 0
          /\ cli.step = 2 => cliHome["backup"] # 0
          /\ cli.step = 2 /\ ~cli.open => cliHome["script"] # 0
          /\ cli.step \in 3..4 => cliHome["script"] = cli.ver

SelfUpgradeInv == CopyInOrder /\ SelfUpgradeIsRetried

\* What a step of a copy does to the files, by the file it is at.
LEMMA CopyStep ==
    ASSUME SkillStoreTypeOK, SelfUpgradeInv, cli.pc = "copying",
           BeginCopy \/ EndCopy \/ SkipModule
    PROVE  SelfUpgradeInv'
<1> USE DEF SkillStoreTypeOK
<1>1. cli \in CliRecords /\ cli.step \in 1..4 /\ cli.ver \in Nat /\ cli.open \in BOOLEAN
      /\ \A f \in CliFiles : cliHome[f] \in Nat
  BY StoreConstantTypes DEF CliRecords
<1>2. cli' \in CliRecords
  BY <1>1, StoreTypeStep DEF SkillStoreNext
<1>3. CASE BeginCopy
  <2>1. cli.pc' = "copying" /\ cli.ver' = cli.ver /\ cli.step' = cli.step /\ cli.open' /\ ~cli.open
    BY <1>1, <1>3 DEF BeginCopy, CliRecords
  <2>2. \A f \in CliFiles : cliHome'[f] = IF f = CopyOrder[cli.step] THEN 0 ELSE cliHome[f]
    BY <1>3 DEF BeginCopy
  <2>3. cli.step = 1 \/ cli.step = 2 \/ cli.step = 3 \/ cli.step = 4
    BY <1>1
  <2>4. QED
    BY <1>1, <2>1, <2>2, <2>3, CopyOrderFiles
       DEF SelfUpgradeInv, CopyInOrder, SelfUpgradeIsRetried, CliFiles
<1>4. CASE EndCopy
  <2>1. \A f \in CliFiles : cliHome'[f] = IF f # CopyOrder[cli.step] THEN cliHome[f]
                                          ELSE IF f = "backup" THEN cliHome["script"] ELSE cli.ver
    BY <1>4 DEF EndCopy
  <2>2. CASE cli.step = 4
    <3>1. cli'.pc = "ready"
      BY <1>4, <2>2, StoreConstantTypes DEF EndCopy, NextCopy, CliRecords
    <3>2. QED
      BY <1>1, <2>1, <2>2, <3>1, CopyOrderFiles
         DEF SelfUpgradeInv, CopyInOrder, SelfUpgradeIsRetried, CliFiles
  <2>3. CASE cli.step # 4
    <3>1. cli'.pc = "copying" /\ cli'.ver = cli.ver /\ cli'.step = cli.step + 1 /\ ~cli'.open
      BY <1>1, <1>4, <2>3 DEF EndCopy, NextCopy, CliRecords
    <3>2. cli.step = 1 \/ cli.step = 2 \/ cli.step = 3
      BY <1>1, <2>3
    <3>3. QED
      BY <1>1, <2>1, <3>1, <3>2, CopyOrderFiles
         DEF SelfUpgradeInv, CopyInOrder, SelfUpgradeIsRetried, CliFiles
  <2>4. QED
    BY <2>2, <2>3
<1>5. CASE SkipModule
  <2>1. cli.step = 3 /\ cliHome' = cliHome
    BY <1>1, <1>5, CopyOrderFiles DEF SkipModule
  <2>2. cli'.pc = "copying" /\ cli'.ver = cli.ver /\ cli'.step = 4 /\ ~cli'.open
    BY <1>1, <1>5, <2>1 DEF SkipModule, NextCopy, CliRecords
  <2>3. QED
    BY <1>1, <2>1, <2>2 DEF SelfUpgradeInv, CopyInOrder, SelfUpgradeIsRetried, CliFiles
<1>6. QED
  BY <1>3, <1>4, <1>5

\* A self-upgrade that fails or is killed between any two writes leaves a script or its
\* backup whole, and a version file that never claims more than the script holds, so
\* that the next start tries again.
THEOREM UpgradeIsRetried == SkillStoreSpec => []SelfUpgradeIsRetried
<1>1. SkillStoreInit => SelfUpgradeInv
  BY StoreConstantTypes
     DEF SkillStoreInit, SelfUpgradeInv, CopyInOrder, SelfUpgradeIsRetried, OffCli, CliFiles
<1>2. ASSUME SkillStoreTypeOK, SelfUpgradeInv, [SkillStoreNext]_skillStoreVars
      PROVE  SelfUpgradeInv'
  <2> USE DEF SelfUpgradeInv, CopyInOrder, SelfUpgradeIsRetried
  <2>1. cli \in CliRecords /\ cli.step \in 1..4 /\ cli.ver \in Nat /\ cli.running \in Nat
        /\ release \in Nat \ {0} /\ \A f \in CliFiles : cliHome[f] \in Nat
    BY <1>2, StoreConstantTypes DEF SkillStoreTypeOK, CliRecords, Versions
  <2>2. OffCli.pc = "off" /\ OffCli.step = 1 /\ OffCli \in CliRecords /\ ~OffCli.open
    BY StoreConstantTypes DEF OffCli
  <2>3. CASE StartCli
    <3>1. cli'.pc = "checking" /\ cli'.running = cliHome["version"]
      BY <2>2, <2>3 DEF StartCli, CliRecords
    <3>2. QED
      BY <1>2, <2>3, <3>1 DEF StartCli
  <2>4. CASE BeginSelfUpgrade
    <3>1. cli'.pc = "copying" /\ cli'.ver = release /\ cli'.step = 1 /\ ~cli'.open
      BY <2>2, <2>4 DEF BeginSelfUpgrade, CliRecords
    <3>2. QED
      BY <1>2, <2>1, <2>4, <3>1 DEF BeginSelfUpgrade, IsNewer, CliFiles
  <2>5. CASE BeginCopy \/ EndCopy \/ SkipModule
    BY <1>2, <2>5, CopyStep DEF BeginCopy, EndCopy, SkipModule
  <2>6. ASSUME cliHome' = cliHome, cli'.pc \notin {"checking", "copying"}
        PROVE  SelfUpgradeInv'
    BY <1>2, <2>6
  <2>7. CASE SkipSelfUpgrade \/ CopyFails
    <3>1. cli'.pc = "ready"
      BY <2>2, <2>7 DEF SkipSelfUpgrade, CopyFails, CliRecords
    <3>2. QED
      BY <2>6, <2>7, <3>1 DEF SkipSelfUpgrade, CopyFails
  <2>8. ASSUME NEW s \in Skills, BeginInstall(s) \/ SkipSkill(s) \/ BeginReplace(s)
        PROVE  SelfUpgradeInv'
    <3>1. cli'.pc \in {"installing", "upgrading", "replacing"}
      BY <2>1, <2>8 DEF BeginInstall, SkipSkill, BeginReplace, CliRecords
    <3>2. QED
      BY <2>6, <2>8, <3>1 DEF BeginInstall, SkipSkill, BeginReplace
  <2>9. CASE ExtractPart \/ PublishSkills \/ ReleaseCli
    BY <1>2, <2>9 DEF ExtractPart, PublishSkills, ReleaseCli
  <2>10. CASE Installed \/ BeginUpgrade \/ Replaced \/ ReplaceFails \/ RestoreConfig
    <3>1. cli'.pc \in {"saving", "upgrading", "restoring"}
      BY <2>1, <2>2, <2>10
         DEF Installed, BeginUpgrade, Replaced, ReplaceFails, RestoreConfig, CliRecords
    <3>2. QED
      BY <2>6, <2>10, <3>1 DEF Installed, BeginUpgrade, Replaced, ReplaceFails, RestoreConfig, storeFiles
  <2>11. CASE FinishUpgrade \/ TruncateLock \/ WriteLock \/ AbandonCli
    <3>1. cli'.pc \in {"saving", "writing", "off"}
      BY <2>1, <2>2, <2>11 DEF FinishUpgrade, TruncateLock, WriteLock, AbandonCli, CliRecords
    <3>2. QED
      BY <2>6, <2>11, <3>1 DEF FinishUpgrade, TruncateLock, WriteLock, AbandonCli
  <2>12. CASE UNCHANGED skillStoreVars
    BY <1>2, <2>12 DEF skillStoreVars
  <2>13. QED
    BY <1>2, <2>3, <2>4, <2>5, <2>7, <2>8, <2>9, <2>10, <2>11, <2>12 DEF SkillStoreNext
<1>3. SelfUpgradeInv => SelfUpgradeIsRetried
  BY DEF SelfUpgradeInv
<1>4. QED
  BY <1>1, <1>2, <1>3, SkillStoreTypes, PTL DEF SkillStoreSpec

-----------------------------------------------------------------------------
(* The lock file.                                                          *)

\* LockIsNotAhead, of any contents of the lock file.
Behind(l) ==
    \A s \in Skills \ downgraded : l[s].listed /\ skillDir[s].holds = "skill"
                                   => l[s].ver <= skillDir[s].ver

\* What the process has read or is about to write is not ahead either; while it upgrades,
\* its entries are no older than those on disk, and the skill it replaces gets a version
\* that is no older than its entry.
LockInv ==
    /\ Behind(lockFile)
    /\ cli.pc \in {"saving", "writing"} => Behind(cli.lock)
    /\ cli.pc \in {"upgrading", "replacing", "restoring"} =>
          /\ Behind(cli.lock)
          /\ \A s \in Skills : lockFile[s].ver <= cli.lock[s].ver
    /\ cli.pc \in {"replacing", "restoring"} => cli.lock[cli.skill].ver <= cli.ver
    /\ cli.pc = "replacing" => skillDir[cli.skill].holds # "skill"
    /\ cli.pc = "restoring" => /\ skillDir[cli.skill].holds = "skill"
                               /\ skillDir[cli.skill].ver = cli.ver

\* The versions are numbers.
LEMMA StoreNumbers ==
    ASSUME SkillStoreTypeOK
    PROVE  /\ cli \in CliRecords /\ cli.skill \in Skills /\ cli.ver \in Nat
           /\ \A s \in Skills : /\ lockFile[s].ver \in Nat /\ cli.lock[s].ver \in Nat
                                /\ skillDir[s].ver \in Nat /\ skillDir[s] \in Folders
           /\ published \in Nat /\ downgraded \subseteq Skills
<1>1. cli \in CliRecords /\ cli.skill \in Skills /\ cli.ver \in Nat /\ cli.lock \in LockFiles
      /\ lockFile \in LockFiles
  BY StoreConstantTypes DEF SkillStoreTypeOK, CliRecords
<1>2. \A l \in LockFiles, s \in Skills : l[s].ver \in Nat
  BY StoreConstantTypes DEF LockFiles
<1>3. \A s \in Skills : skillDir[s] \in Folders /\ skillDir[s].ver \in Nat
  BY StoreConstantTypes DEF SkillStoreTypeOK, Folders
<1>4. QED
  BY <1>1, <1>2, <1>3, StoreConstantTypes DEF SkillStoreTypeOK, Versions

\* A step that installs no package: skills may lose theirs, the file may be emptied.
LEMMA LessInstalled ==
    ASSUME SkillStoreTypeOK, LockInv,
           \A s \in Skills : skillDir'[s].holds = "skill" =>
              skillDir[s].holds = "skill" /\ skillDir'[s].ver = skillDir[s].ver,
           downgraded' = downgraded
    PROVE  /\ lockFile' = lockFile \/ lockFile' = EmptyLock => Behind(lockFile)'
           /\ Behind(cli.lock) /\ cli'.lock = cli.lock => Behind(cli.lock)'
           /\ Behind(cli.lock) /\ lockFile' = cli.lock => Behind(lockFile)'
<1> USE StoreNumbers
<1>1. \A s \in Skills : EmptyLock[s].listed = FALSE
  BY DEF EmptyLock
<1>2. QED
  BY <1>1 DEF LockInv, Behind

\* Installing a skill: what is recorded fits what was extracted, or the skill is marked.
LEMMA InstalledKeepsLock ==
    ASSUME SkillStoreTypeOK, LockInv, Installed
    PROVE  LockInv'
<1> USE StoreNumbers
<1>1. PICK config \in BOOLEAN, v \in {published} \cup ({cli.ver} \cap 1..published) :
        /\ skillDir' = [skillDir EXCEPT ![cli.skill] = [holds |-> "skill", ver |-> v, config |-> config]]
        /\ downgraded' = IF v < lockFile[cli.skill].ver \/ v < cli.ver
                         THEN downgraded \cup {cli.skill} ELSE downgraded \ {cli.skill}
  BY DEF Installed
<1>2. v \in Nat /\ skillDir \in [Skills -> Folders]
  BY DEF SkillStoreTypeOK
<1>3. \A s \in Skills \ {cli.skill} : skillDir'[s] = skillDir[s] /\ (s \in downgraded' <=> s \in downgraded)
  BY <1>1, <1>2
<1>4. skillDir'[cli.skill].ver = v
      /\ (cli.skill \notin downgraded' => lockFile[cli.skill].ver <= v /\ cli.ver <= v)
  BY <1>1, <1>2
<1>5. cli'.pc = "saving" /\ cli'.lock = [lockFile EXCEPT ![cli.skill] = Recorded(cli.skill, cli.ver)]
  BY StoreConstantTypes DEF Installed, CliRecords
<1>6. \A s \in Skills : cli'.lock[s] = IF s = cli.skill THEN Entry(cli.ver) ELSE lockFile[s]
  BY <1>5 DEF SkillStoreTypeOK, LockFiles, Recorded
<1>7. lockFile' = lockFile
  BY DEF Installed
<1>8. Behind(lockFile)'
  BY <1>2, <1>3, <1>4, <1>7 DEF LockInv, Behind
<1>9. Behind(cli.lock)'
  <2>1. SUFFICES ASSUME NEW s \in Skills, s \notin downgraded', cli'.lock[s].listed,
                        skillDir'[s].holds = "skill"
                 PROVE  cli'.lock[s].ver <= skillDir'[s].ver
    BY DEF Behind
  <2>2. CASE s = cli.skill
    BY <1>4, <1>6, <2>1, <2>2 DEF Entry
  <2>3. CASE s # cli.skill
    BY <1>3, <1>6, <2>1, <2>3 DEF LockInv, Behind
  <2>4. QED
    BY <2>2, <2>3
<1>10. QED
  BY <1>5, <1>8, <1>9 DEF LockInv

\* Beginning to replace: the manifest is newer than the entry.
LEMMA BeginReplaceKeepsLock ==
    ASSUME SkillStoreTypeOK, LockInv, NEW s \in Skills, BeginReplace(s)
    PROVE  LockInv'
<1> USE StoreNumbers
<1>1. cli'.pc = "replacing" /\ cli'.skill = s /\ cli'.ver = published /\ cli'.lock = cli.lock
      /\ cli.pc = "upgrading"
  BY DEF BeginReplace, CliRecords
<1>2. skillDir' = [skillDir EXCEPT ![s] = EmptyFolder] /\ lockFile' = lockFile /\ downgraded' = downgraded
  BY DEF BeginReplace
<1>3. skillDir'[s].holds # "skill" /\ \A u \in Skills : u # s => skillDir'[u] = skillDir[u]
  BY <1>2 DEF SkillStoreTypeOK, EmptyFolder
<1>4. Behind(lockFile)' /\ Behind(cli.lock)'
  BY <1>1, <1>2, <1>3, LessInstalled DEF LockInv
<1>5. cli.lock[s].ver <= published
  BY DEF BeginReplace, InstalledVersions, IsNewer
<1>6. QED
  BY <1>1, <1>2, <1>3, <1>4, <1>5 DEF LockInv

\* The package of the manifest is there: the entries on disk and in memory are not newer.
LEMMA ReplacedKeepsLock ==
    ASSUME SkillStoreTypeOK, LockInv, Replaced
    PROVE  LockInv'
<1> USE StoreNumbers
<1>1. cli'.pc = "restoring" /\ cli'.skill = cli.skill /\ cli'.ver = cli.ver /\ cli'.lock = cli.lock
      /\ cli.pc = "replacing" /\ lockFile' = lockFile /\ downgraded' = downgraded \ {cli.skill}
  BY DEF Replaced, CliRecords
<1>2. /\ skillDir'[cli.skill].holds = "skill" /\ skillDir'[cli.skill].ver = cli.ver
      /\ \A s \in Skills \ {cli.skill} : skillDir'[s] = skillDir[s]
  BY DEF Replaced, SkillStoreTypeOK
<1>3. cli.lock[cli.skill].ver <= cli.ver /\ lockFile[cli.skill].ver <= cli.ver
  BY <1>1 DEF LockInv
<1>4. Behind(lockFile)' /\ Behind(cli.lock)'
  BY <1>1, <1>2, <1>3 DEF LockInv, Behind
<1>5. QED
  BY <1>1, <1>2, <1>3, <1>4 DEF LockInv

\* The entry is noted once the package is there.
LEMMA RestoreConfigKeepsLock ==
    ASSUME SkillStoreTypeOK, LockInv, RestoreConfig
    PROVE  LockInv'
<1> USE StoreNumbers
<1>1. cli'.pc = "upgrading" /\ lockFile' = lockFile /\ downgraded' = downgraded /\ cli.pc = "restoring"
      /\ \A s \in Skills : cli'.lock[s] = IF s = cli.skill THEN Entry(cli.ver) ELSE cli.lock[s]
  <2>1. cli.lock \in [Skills -> [listed: BOOLEAN, ver: 0..MaxRelease]]
    BY DEF CliRecords, LockFiles
  <2>2. cli'.pc = "upgrading" /\ cli'.lock = [cli.lock EXCEPT ![cli.skill] = Entry(cli.ver)]
    BY DEF RestoreConfig, CliRecords, Recorded
  <2>3. QED
    BY <2>1, <2>2 DEF RestoreConfig
<1>2. \A s \in Skills : skillDir'[s].holds = skillDir[s].holds /\ skillDir'[s].ver = skillDir[s].ver
  BY DEF RestoreConfig, SkillStoreTypeOK, Folders
<1>3. Behind(lockFile)'
  BY <1>1, <1>2 DEF LockInv, Behind
<1>4. Entry(cli.ver).ver = cli.ver /\ cli.lock[cli.skill].ver <= cli.ver
  BY <1>1 DEF Entry, LockInv
<1>5. Behind(cli.lock)' /\ \A s \in Skills : lockFile'[s].ver <= cli'.lock[s].ver
  BY <1>1, <1>2, <1>4 DEF LockInv, Behind
<1>6. QED
  BY <1>1, <1>3, <1>5 DEF LockInv

\* However often the command fails or is killed between two writes, the lock file names no
\* version that is newer than the skill it is about, unless the skill was overwritten with
\* an older package, or recorded with the version of another.
THEOREM LockStaysBehind == SkillStoreSpec => []LockIsNotAhead
<1>1. SkillStoreInit => LockInv
  BY DEF SkillStoreInit, LockInv, Behind, EmptyLock, OffCli
<1>2. ASSUME SkillStoreTypeOK, LockInv, [SkillStoreNext]_skillStoreVars
      PROVE  LockInv'
  <2> USE StoreNumbers
  <2>1. OffCli.pc = "off" /\ OffCli \in CliRecords
    BY StoreConstantTypes DEF OffCli
  <2>2. ASSUME storeFiles' = storeFiles,
               cli'.pc \notin {"saving", "writing", "upgrading", "replacing", "restoring"}
        PROVE  LockInv'
    BY <1>2, <2>2 DEF storeFiles, LockInv, Behind
  <2>3. CASE StartCli \/ BeginSelfUpgrade \/ SkipSelfUpgrade \/ CopyFails \/ AbandonCli
    <3>1. cli'.pc \in {"checking", "copying", "ready", "off"}
      BY <2>1, <2>3 DEF StartCli, BeginSelfUpgrade, SkipSelfUpgrade, CopyFails, AbandonCli, CliRecords
    <3>2. QED
      BY <2>2, <2>3, <3>1 DEF StartCli, BeginSelfUpgrade, SkipSelfUpgrade, CopyFails, AbandonCli
  <2>4. CASE BeginCopy \/ EndCopy \/ SkipModule
    <3>1. cli'.pc \in {"copying", "ready"}
      <4>1. [OffCli EXCEPT !.pc = "ready"].pc = "ready"
        BY <2>1 DEF CliRecords
      <4>2. cli.pc = "copying" => NextCopy.pc \in {"copying", "ready"}
        BY <4>1 DEF NextCopy, CliRecords
      <4>3. BeginCopy => cli'.pc = "copying"
        BY DEF BeginCopy, CliRecords
      <4>4. QED
        BY <2>4, <4>2, <4>3 DEF EndCopy, SkipModule
    <3>2. QED
      BY <2>2, <2>4, <3>1 DEF BeginCopy, EndCopy, SkipModule
  <2>5. ASSUME NEW s \in Skills, BeginInstall(s) PROVE LockInv'
    <3>1. cli'.pc = "installing" /\ lockFile' = lockFile /\ downgraded' = downgraded
      BY <2>5 DEF BeginInstall, CliRecords
    <3>2. \A u \in Skills : skillDir'[u] = IF u = s THEN EmptyFolder ELSE skillDir[u]
      BY <1>2, <2>5 DEF BeginInstall, SkillStoreTypeOK
    <3>3. Behind(lockFile)'
      BY <1>2, <3>1, <3>2, LessInstalled DEF EmptyFolder
    <3>4. QED
      BY <3>1, <3>3 DEF LockInv
  <2>6. ASSUME NEW s \in Skills, SkipSkill(s) PROVE LockInv'
    <3>1. cli'.pc = "upgrading" /\ cli.pc = "upgrading" /\ cli'.lock = cli.lock
      BY <2>6 DEF SkipSkill, CliRecords
    <3>2. QED
      BY <1>2, <2>6, <3>1 DEF SkipSkill, storeFiles, LockInv, Behind
  <2>7. ASSUME NEW s \in Skills, BeginReplace(s) PROVE LockInv'
    BY <1>2, <2>7, BeginReplaceKeepsLock
  <2>8. CASE ExtractPart
    <3>1. \A s \in Skills : skillDir'[s].holds = skillDir[s].holds /\ skillDir'[s].ver = skillDir[s].ver
      BY <1>2, <2>8 DEF ExtractPart, SkillStoreTypeOK, Folders
    <3>2. cli' = cli /\ lockFile' = lockFile /\ downgraded' = downgraded
      BY <2>8 DEF ExtractPart
    <3>3. QED
      BY <1>2, <3>1, <3>2 DEF LockInv, Behind
  <2>9. CASE Installed
    BY <1>2, <2>9, InstalledKeepsLock
  <2>10. CASE BeginUpgrade
    <3>1. cli'.pc = "upgrading" /\ cli'.lock = lockFile
      BY <2>10 DEF BeginUpgrade, CliRecords
    <3>2. QED
      BY <1>2, <2>10, <3>1 DEF BeginUpgrade, storeFiles, LockInv, Behind
  <2>11. CASE Replaced
    BY <1>2, <2>11, ReplacedKeepsLock
  <2>12. CASE ReplaceFails
    <3>1. cli'.pc = "upgrading" /\ cli'.lock = cli.lock
      BY <2>12 DEF ReplaceFails, CliRecords
    <3>2. QED
      BY <1>2, <2>12, <3>1 DEF ReplaceFails, storeFiles, LockInv, Behind
  <2>13. CASE RestoreConfig
    BY <1>2, <2>13, RestoreConfigKeepsLock
  <2>14. CASE FinishUpgrade
    <3>1. cli'.pc = "saving" /\ cli'.lock = cli.lock
      BY <2>1, <2>14 DEF FinishUpgrade, CliRecords
    <3>2. QED
      BY <1>2, <2>14, <3>1 DEF FinishUpgrade, storeFiles, LockInv, Behind
  <2>15. CASE TruncateLock
    <3>1. cli'.pc = "writing" /\ cli'.lock = cli.lock /\ lockFile' = EmptyLock
      BY <2>15 DEF TruncateLock, CliRecords
    <3>2. Behind(lockFile)' /\ Behind(cli.lock)'
      BY <1>2, <2>15, <3>1, LessInstalled DEF TruncateLock, LockInv
    <3>3. QED
      BY <3>1, <3>2 DEF LockInv
  <2>16. CASE WriteLock
    BY <1>2, <2>1, <2>16 DEF WriteLock, LockInv, Behind
  <2>17. CASE PublishSkills \/ ReleaseCli
    BY <1>2, <2>17 DEF PublishSkills, ReleaseCli, storeFiles, LockInv, Behind
  <2>18. CASE UNCHANGED skillStoreVars
    BY <1>2, <2>18 DEF skillStoreVars, LockInv, Behind
  <2>19. QED
    BY <1>2, <2>3, <2>4, <2>5, <2>6, <2>7, <2>8, <2>9, <2>10, <2>11, <2>12, <2>13, <2>14,
       <2>15, <2>16, <2>17, <2>18 DEF SkillStoreNext
<1>3. LockInv => LockIsNotAhead
  BY DEF LockInv, Behind, LockIsNotAhead
<1>4. QED
  BY <1>1, <1>2, <1>3, SkillStoreTypes, PTL DEF SkillStoreSpec
=============================================================================
