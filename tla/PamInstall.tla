------------------------------ MODULE PamInstall ------------------------------
(***************************************************************************)
(* `tess install` and `tess install --uninstall`: the service file, the    *)
(* module and the one backup, written by processes that may fail or die at *)
(* any system call, on a machine that may lose power.  What a loss of      *)
(* power may leave of a file that was not synced is kept beside it.        *)
(***************************************************************************)
EXTENDS PamStack

CONSTANT AdminStacks    \* what the administrator may write into the service file

ASSUME StacksAssumption == AdminStacks \subseteq Seq(Line)

VARIABLES
    file,       \* what a process finds under each of the three names
    disk,       \* what a loss of power may leave there
    admins,     \* history: the stack the administrator wrote last
    pc, op,     \* the command that runs, and its next step
    target,     \* the file an atomic write is about
    staged,     \* its temporary file: "none", "written" or "synced"
    edited,     \* the stack to write
    dirKnown,   \* the directory of the modules has been found
    removedBlock,
    report      \* how the last command ended

vars == <<file, disk, admins, pc, op, target, staged, edited, dirKnown,
          removedBlock, report>>
command == <<op, edited, dirKnown>>

Name == {"stack", "module", "backup"}

\* The stacks that a command may write.
Written == UNION {{RemoveBlock(s), AddBlock(s)} : s \in AdminStacks}

TypeOK ==
    /\ file["stack"] \in AdminStacks \cup Written
    /\ disk["stack"] \subseteq AdminStacks \cup Written
    /\ file["module"] \in {"none", "installed"}
    /\ disk["module"] \subseteq {"none", "installed"}
    /\ file["backup"] \in {"none", "odd", "torn", "whole"}
    /\ disk["backup"] \subseteq {"none", "odd", "torn", "whole"}
    /\ \A f \in Name : file[f] \in disk[f]

Init ==
    /\ admins \in AdminStacks
    /\ \E backup \in {"none", "odd"} :
          file = [f \in Name |-> CASE f = "stack" -> admins
                                   [] f = "module" -> "none"
                                   [] f = "backup" -> backup]
    /\ disk = [f \in Name |-> {file[f]}]
    /\ pc = "idle" /\ op = "none" /\ target = "none" /\ staged = "none"
    /\ edited = <<>> /\ dirKnown = FALSE /\ removedBlock = FALSE
    /\ report = "none"

-----------------------------------------------------------------------------
(* Files. *)

\* The next process finds the value; a loss of power may leave it or not.
Puts(f, value, left) ==
    /\ file' = [file EXCEPT ![f] = value]
    /\ disk' = [disk EXCEPT ![f] = @ \cup left]

\* sync_all on a directory: the entries as they are, whatever was synced of the
\* contents.  The backup lies beside the service file.
SyncsDirOf(f) ==
    LET beside == IF f = "module" THEN {"module"} ELSE {"stack", "backup"}
        torn(g) == IF g = "stack" THEN Torn ELSE "torn"
    IN  disk' = [g \in Name |-> IF g \in beside
                                THEN disk[g] \cap {file[g], torn(g)}
                                ELSE disk[g]]

Goes(next) == pc' = next /\ UNCHANGED <<command, removedBlock, report>>

Ends(how) ==
    /\ pc' = "idle" /\ op' = "none" /\ target' = "none" /\ staged' = "none"
    /\ edited' = <<>> /\ dirKnown' = FALSE /\ removedBlock' = FALSE
    /\ report' = how

Starts(f) == target' = f /\ staged' = "none"

\* Contents and mode are durable before the rename.
Stage ==
    /\ pc = "stage"
    /\ staged' = "synced"
    /\ Goes("rename")
    /\ UNCHANGED <<file, disk, admins, target>>

AfterWrite ==
    CASE target = "module" -> "backup"
      [] target = "stack" /\ op = "install" -> "installed"
      [] target = "stack" /\ op = "uninstall" -> "remove_module"

\* Mutant: the directory is not synced.
RenameOnly ==
    /\ pc = "rename"
    /\ LET value == IF target = "stack" THEN edited ELSE "installed"
           torn == IF target = "stack" THEN Torn ELSE "torn"
       IN  Puts(target, value,
                {value} \cup IF staged = "synced" THEN {} ELSE {torn})
    /\ Goes(AfterWrite)
    /\ UNCHANGED <<admins, target, staged>>

Rename ==
    /\ pc = "rename"
    /\ LET value == IF target = "stack" THEN edited ELSE "installed"
           torn == IF target = "stack" THEN Torn ELSE "torn"
       IN  Puts(target, value,
                {value} \cup IF staged = "synced" THEN {} ELSE {torn})
    /\ Goes("sync_dir")
    /\ UNCHANGED <<admins, target, staged>>

SyncParentDir ==
    /\ pc = "sync_dir"
    /\ SyncsDirOf(target)
    /\ removedBlock' = (op = "uninstall")
    /\ pc' = AfterWrite
    /\ UNCHANGED <<file, admins, command, target, staged, report>>

-----------------------------------------------------------------------------
(* install: module, backup, stack. *)

\* The candidate is computed and checked before any side effect.
InstallBegin ==
    /\ pc = "idle"
    /\ op' = "install" /\ dirKnown' = TRUE
    /\ file["stack"] \notin {Missing, Symlink}
    /\ ValidateStack(AddBlock(file["stack"]))
    /\ edited' = AddBlock(file["stack"])
    /\ pc' = "stage" /\ Starts("module")
    /\ report' = "none"
    /\ UNCHANGED <<file, disk, admins, removedBlock>>

\* A regular file is taken for the backup of an earlier run.
CheckBackup ==
    /\ pc = "backup"
    /\ \/ /\ file["backup"] \in {"torn", "whole"}
          /\ Starts("stack") /\ Goes("stage")
          /\ UNCHANGED <<file, disk, admins>>
       \/ /\ file["backup"] = "none"
          /\ Puts("backup", "torn", {"torn"})
          /\ Goes("write_backup")
          /\ UNCHANGED <<admins, target, staged>>
       \/ /\ file["backup"] = "odd"
          /\ Ends("failed")
          /\ UNCHANGED <<file, disk, admins>>

WriteBackup ==
    /\ pc = "write_backup"
    /\ Puts("backup", "whole", {"whole"})
    /\ Goes("sync_backup")
    /\ UNCHANGED <<admins, target, staged>>

SyncBackup ==
    /\ pc = "sync_backup"
    /\ disk' = [disk EXCEPT !["backup"] = @ \ {"torn"}]
    /\ Goes("sync_backup_dir")
    /\ UNCHANGED <<file, admins, target, staged>>

SyncBackupDir ==
    /\ pc = "sync_backup_dir"
    /\ SyncsDirOf("backup")
    /\ Starts("stack") /\ Goes("stage")
    /\ UNCHANGED <<file, admins>>

Installed ==
    /\ pc = "installed"
    /\ Ends("installed")
    /\ UNCHANGED <<file, disk, admins>>

-----------------------------------------------------------------------------
(* uninstall: stack, module, backup. *)

\* A stack without a block is left alone.
UninstallBegin ==
    /\ pc = "idle"
    /\ file["stack"] # Symlink
    /\ op' = "uninstall" /\ dirKnown' \in BOOLEAN
    /\ report' = "none"
    /\ \/ /\ HasBlock(file["stack"])
          /\ ValidateStack(RemoveBlock(file["stack"]))
          /\ edited' = RemoveBlock(file["stack"])
          /\ pc' = "stage" /\ Starts("stack")
       \/ /\ ~HasBlock(file["stack"])
          /\ pc' = "remove_module"
          /\ UNCHANGED <<edited, target, staged>>
    /\ UNCHANGED <<file, disk, admins, removedBlock>>

Removes(f) == Puts(f, "none", {"none"})

\* Nothing syncs a removal.
RemoveModule ==
    /\ pc = "remove_module"
    /\ IF dirKnown THEN Removes("module") ELSE UNCHANGED <<file, disk>>
    /\ Goes(IF removedBlock THEN "remove_backup" ELSE "uninstalled")
    /\ UNCHANGED <<admins, target, staged>>

RemoveBackup ==
    /\ pc = "remove_backup"
    /\ file["backup"] # "odd"
    /\ Removes("backup")
    /\ Goes("uninstalled")
    /\ UNCHANGED <<admins, target, staged>>

Uninstalled ==
    /\ pc = "uninstalled"
    /\ Ends(IF dirKnown THEN "uninstalled" ELSE "unwired")
    /\ UNCHANGED <<file, disk, admins>>

-----------------------------------------------------------------------------

\* A system call fails, or the process is killed before it.
Fails ==
    /\ pc \notin {"idle", "installed", "uninstalled"}
    /\ Ends("failed")
    /\ UNCHANGED <<file, disk, admins>>

PowerLoss ==
    /\ \E s \in disk["stack"], m \in disk["module"], b \in disk["backup"] :
          file' = [file EXCEPT !["stack"] = s, !["module"] = m, !["backup"] = b]
    /\ disk' = [f \in Name |-> {file'[f]}]
    /\ Ends("failed")
    /\ UNCHANGED admins

\* While no command runs.
AdminEdits ==
    /\ pc = "idle"
    /\ \E s \in AdminStacks :
          /\ admins' = s
          /\ file' = [file EXCEPT !["stack"] = s]
          /\ disk' = [disk EXCEPT !["stack"] = {s}]
    /\ Ends("none")

Next ==
    \/ InstallBegin \/ UninstallBegin
    \/ Stage \/ Rename \/ SyncParentDir
    \/ CheckBackup \/ WriteBackup \/ SyncBackup \/ SyncBackupDir \/ Installed
    \/ RemoveModule \/ RemoveBackup \/ Uninstalled
    \/ Fails \/ PowerLoss \/ AdminEdits

Spec == Init /\ [][Next]_vars

-----------------------------------------------------------------------------
(* Properties. *)

\* "A crash mid-write never leaves a truncated PAM stack", and no sequence of
\* installs, uninstalls, failures and losses of power costs the administrator a
\* line outside the tess blocks or changes their order, stray markers or not; but
\* for a block nested in another (install, uninstall and remove_block).
AdminLinesKept == ~Nested(admins) => SameForeign(admins, file["stack"])

\* A stack that tess has written does not let a failure of tess decide about a
\* login, in whatever control flags its other tess lines have (validate_stack).
TessFailsOpen ==
    file["stack"] # admins => FailsOpen(file["stack"])

\* After an install there is one block, the last lines of the stack, however
\* often it was run and whatever markers were there before (add_block).
InstalledOnce ==
    report = "installed" =>
        LET s == file["stack"]
            n == Len(s) - Len(BlockText)
        IN  SubSeq(s, n + 1, Len(s)) = BlockText /\ ~HasBlock(SubSeq(s, 1, n))

\* After an uninstall nothing of tess is loaded: no block, and no module where
\* it was known to be, though earlier runs died between the two (uninstall).
UninstalledWhole ==
    /\ report \in {"uninstalled", "unwired"} => ~HasBlock(file["stack"])
    /\ report = "uninstalled" => file["module"] = "none"

\* The stack refers to the module only while it is there: the block is
\* committed after the module is durable, and the module goes after the block
\* (the order of install and of uninstall).
ModuleUnderStack ==
    [][/\ pc = "rename" /\ op = "install" /\ target = "stack" =>
              disk["module"] = {"installed"}
       /\ file["module"] = "installed" /\ file'["module"] = "none"
              /\ pc = "remove_module" => ~HasBlock(file["stack"])]_vars

\* "A crash after the (fsync'd) stack commit must not be able to leave a wired
\* stack with no backup" (install).
RollbackPossible == report = "installed" => disk["backup"] = {"whole"}
=============================================================================
