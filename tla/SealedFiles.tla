----------------------------- MODULE SealedFiles ------------------------------
(***************************************************************************)
(* The files below an enrollment, one of each kind of writer: the metadata *)
(* of tess-tpm, the recovery blob and face authValue of tess-cli, the face *)
(* template of mug.  All three write a temporary beside the file, fsync    *)
(* it, rename it and fsync the directory; they differ in what they do with *)
(* a name that is taken and with a temporary that cannot be written.       *)
(***************************************************************************)
EXTENDS Naturals

CONSTANTS
    Content,    \* what saves write: here, the TPM seed a file belongs to
    None,       \* no file, nothing in memory
    Torn,       \* a file whose contents were not all written
    Attempts,   \* at temporary names, by the metadata writer (16)
    FileFaults  \* what may fail: "mkdir", "write", "rename", "remove", "syncdir"

ASSUME FilesAssumption ==
    /\ Attempts \in Nat \ {0}
    /\ FileFaults \subseteq {"mkdir", "write", "rename", "remove", "syncdir"}

Kind == {"metadata", "secret", "template"}

VARIABLES
    kind,       \* which of the files a behaviour is about
    file,       \* what a process finds under its name
    disk,       \* what a loss of power may leave there
    litter,     \* a temporary is there that nobody will remove
    temp,       \* the temporary of the running save: "absent", "torn", "whole"
    content,    \* what the running save writes
    tries,      \* the names it has tried
    step,       \* its next system call, "idle" when none runs
    saved       \* the last save returned Ok

fileVars == <<kind, file, disk, litter, temp, content, tries, step, saved>>

FilesTypeOK ==
    /\ file \in Content \cup {None, Torn}
    /\ disk \in SUBSET (Content \cup {None, Torn})
    /\ temp \in {"absent", "torn", "whole"}
    /\ litter \in BOOLEAN
    /\ kind \in Kind
    /\ content \in Content \cup {None}
    /\ tries \in 0..Attempts
    /\ step \in {"idle", "create", "write", "fsync", "rename", "syncdir"}
    /\ saved \in BOOLEAN

FilesInit ==
    /\ kind \in Kind
    /\ file = None /\ disk = {None} /\ litter = FALSE
    /\ temp = "absent" /\ content = None /\ tries = 0
    /\ step = "idle" /\ saved = FALSE

-----------------------------------------------------------------------------

Does(next) == step' = next /\ UNCHANGED <<kind, content, saved>>

Ends(ok) ==
    /\ step' = "idle" /\ saved' = ok
    /\ temp' = "absent" /\ tries' = 0 /\ content' = None
    /\ UNCHANGED kind

Fails(leaves) == Ends(FALSE) /\ litter' = (litter \/ leaves)

\* The temporary is removed; nobody hears of it when it cannot be.
FailsRemoving == \E leaves \in {FALSE, "remove" \in FileFaults} : Fails(leaves)

\* create_dir_all, or the store's own directory with its permissions.
BeginSave(c) ==
    /\ step = "idle"
    /\ \/ /\ step' = "create" /\ content' = c /\ saved' = FALSE
          /\ UNCHANGED <<kind, temp, tries>>
       \/ "mkdir" \in FileFaults /\ Ends(FALSE)
    /\ UNCHANGED <<file, disk, litter>>

\* The name is taken: O_EXCL refuses it.  The metadata writer draws another
\* one, the others give up, and the template's tries to remove what was in its
\* way.
NameTaken ==
    /\ step = "create" /\ litter
    /\ UNCHANGED <<file, disk>>
    /\ \/ /\ kind = "metadata" /\ tries + 1 < Attempts
          /\ tries' = tries + 1
          /\ Does("create") /\ UNCHANGED <<temp, litter>>
       \/ kind = "metadata" /\ tries + 1 = Attempts /\ Fails(FALSE)
       \/ kind = "secret" /\ Fails(FALSE)
       \/ /\ kind = "template" /\ Ends(FALSE)
          /\ litter' \in {FALSE, "remove" \in FileFaults}

CreateTemp ==
    /\ step = "create"
    /\ temp' = "torn"
    /\ Does("write")
    /\ UNCHANGED <<file, disk, litter, tries>>

\* The write and the fsync of write_private.  Only the template's writer
\* tries to remove a temporary that could not be written.
WriteFails ==
    /\ "write" \in FileFaults
    /\ IF kind = "template" THEN FailsRemoving
       ELSE \E left \in BOOLEAN : Fails(left)
    /\ UNCHANGED <<file, disk>>

WriteTemp ==
    /\ step = "write"
    /\ \/ Does("fsync") /\ UNCHANGED <<file, disk, temp, litter, tries>>
       \/ WriteFails

\* Mutant: the contents of the temporary are not synced.
SyncTempNot ==
    /\ step = "fsync"
    /\ Does("rename") /\ UNCHANGED <<file, disk, temp, litter, tries>>

SyncTemp ==
    /\ step = "fsync"
    /\ \/ temp' = "whole"
          /\ Does("rename") /\ UNCHANGED <<file, disk, litter, tries>>
       \/ WriteFails

\* A temporary that cannot be renamed all of them try to remove.  Until the
\* directory is synced a loss of power finds the old file or the new one, torn
\* if its contents were not synced.
Rename ==
    /\ step = "rename"
    /\ \/ /\ file' = content
          /\ disk' = disk \cup {IF temp = "whole" THEN content ELSE Torn}
          /\ temp' = "absent"
          /\ Does("syncdir") /\ UNCHANGED <<litter, tries>>
       \/ "rename" \in FileFaults /\ FailsRemoving /\ UNCHANGED <<file, disk>>

\* Only now is the save acknowledged.
SyncDir ==
    /\ step = "syncdir"
    /\ \/ disk' = {file} /\ Ends(TRUE) /\ UNCHANGED <<file, litter>>
       \/ "syncdir" \in FileFaults /\ Fails(FALSE) /\ UNCHANGED <<file, disk>>

SaveStep ==
    \/ NameTaken \/ CreateTemp \/ WriteTemp \/ SyncTemp \/ Rename \/ SyncDir

\* The process dies; with the power go the writes that were not synced.
Dies == Ends(FALSE) /\ litter' = (litter \/ temp # "absent")

KillSaver == step # "idle" /\ Dies /\ UNCHANGED <<file, disk>>

LosePower == Dies /\ file' \in disk /\ disk' = {file'}

-----------------------------------------------------------------------------
(* Properties. *)

\* Each file is an AtomicFile: whole at every moment, taken back by a loss of
\* power at most to what it was before the last save, and not at all once the
\* save was acknowledged (save in persist.rs, write_secret_file, store.rs).
Atomic == INSTANCE AtomicFile WITH
    value <- file, fallback <- disk

FilesAtomic == Atomic!Spec
=============================================================================
