------------------------------- MODULE EpubUnzip -------------------------------
(***************************************************************************)
(* How SSZipArchive extracts an archive for readEpub: unzipFileAtPath goes *)
(* through the entries and writes one after the other, on the background   *)
(* queue of the opening.  It takes the place of Unzip in EpubReader, and   *)
(* shows what Extracts leaves: the two implement EpubReader.               *)
(*                                                                         *)
(* An archive that was cut has no central directory: it is not opened, as  *)
(* one is not whose first header cannot be read (CheckFails).  Of one that *)
(* is opened, single entries may be damaged, and the file system may       *)
(* refuse to write them.                                                   *)
(***************************************************************************)
EXTENDS EpubReader

CONSTANT Entries  \* Bound: entries of an archive

ASSUME EntriesAssumption == Entries \in Nat \ {0}

VARIABLES
  at,       \* currentFileNumber, from 1
  step,     \* where in the loop it is
  tree,     \* what there is of each entry
  made,     \* the directory has been created
  success,  \* what unzipFile will return
  \* History, read by the properties only:
  excused   \* something was left out and success was not touched

unzipVars == <<at, step, tree, made, success, excused>>
openVars == <<vars, unzipVars>>

Steps == {"idle", "entry", "named", "file", "written", "next", "returned"}

UnzipTypeOK ==
  /\ at \in 1..Entries /\ step \in Steps
  /\ tree \in [1..Entries -> {"absent", "part", "whole"}]
  /\ made \in BOOLEAN /\ success \in BOOLEAN /\ excused \in BOOLEAN

NoTree == [e \in 1..Entries |-> "absent"]

Idle ==
  /\ at = 1 /\ step = "idle" /\ tree = NoTree
  /\ made = FALSE /\ success = TRUE /\ excused = FALSE

\* The archive is open, and so it stays although its file may be removed.
Begin ==
  /\ StartUnzip /\ step = "idle"
  /\ step' = "entry" /\ UNCHANGED <<at, tree, made, success, excused>>

-----------------------------------------------------------------------------
(* The loop. *)

\* break: the rest of the loop is left out.
Break == step' = "returned" /\ success' = FALSE /\ UNCHANGED <<at, excused>>

\* unzOpenCurrentFile, unzGetCurrentFileInfo and malloc.
EntryFails == step = "entry" /\ Break /\ UNCHANGED <<tree, made>>

\* Resource forks are not part of the book.
SkipFork ==
  /\ step = "entry" /\ step' = "next" /\ tree' = [tree EXCEPT ![at] = "whole"]
  /\ UNCHANGED <<at, made, success, excused>>

\* createDirectoryAtPath, of the entry or of what it is in.
CreateDirectory ==
  /\ step = "entry" /\ step' = "named" /\ made' = TRUE
  /\ UNCHANGED <<at, tree, success, excused>>

\* There is no room (640): success is NO.
NoRoom == step = "entry" /\ made' \in {made, TRUE} /\ Break /\ UNCHANGED tree

\* It fails otherwise, which is logged.  A directory is left out; so is a file,
\* for it cannot be opened then; a link is not, for symlink fails.
LeaveOut ==
  /\ step = "entry" /\ made' \in {made, TRUE}
  /\ \/ step' \in {"next", "written"} /\ excused' = TRUE /\ UNCHANGED success
     \/ step' = "written" /\ success' = FALSE /\ UNCHANGED excused
  /\ UNCHANGED <<at, tree>>

\* A directory has nothing to be read.
IsDirectory ==
  /\ step = "named" /\ step' = "next" /\ tree' = [tree EXCEPT ![at] = "whole"]
  /\ UNCHANGED <<at, made, success, excused>>

\* A link: it could not be read, or an old one not be removed, or it is made.
IsLink ==
  /\ step = "named" /\ UNCHANGED made
  /\ \/ Break /\ UNCHANGED tree
     \/ step' = "written" /\ success' = FALSE /\ UNCHANGED <<at, tree, excused>>
     \/ /\ step' = "written" /\ tree' = [tree EXCEPT ![at] = "whole"]
        /\ UNCHANGED <<at, success, excused>>

\* A file: its beginning cannot be read, or fopen says that there is no room or
\* that too many are open (ENOSPC, EMFILE).
FileFails == step = "named" /\ Break /\ UNCHANGED <<tree, made>>

\* fopen fails for another reason, which is logged.
LogFile ==
  /\ step = "named" /\ step' = "written" /\ excused' = TRUE
  /\ UNCHANGED <<at, tree, made, success>>

OpenFile ==
  /\ step = "named" /\ step' = "file" /\ tree' = [tree EXCEPT ![at] = "part"]
  /\ UNCHANGED <<at, made, success, excused>>

\* Mutant of WriteFile: a read that fails is taken for the end of the file.
WriteFileQuiet ==
  /\ step = "file" /\ step' = "written"
  /\ tree' \in {tree, [tree EXCEPT ![at] = "whole"]}
  /\ UNCHANGED <<at, made, success, excused>>

\* Its buffers are written until all have been, or one cannot be read or written.
\* What fwrite still holds is written by fclose, and nobody asks whether it was.
WriteFile ==
  /\ step = "file" /\ step' = "written" /\ UNCHANGED <<at, made>>
  /\ \/ tree' = [tree EXCEPT ![at] = "whole"] /\ UNCHANGED <<success, excused>>
     \/ success' = FALSE /\ UNCHANGED <<tree, excused>>
     \/ excused' = TRUE /\ UNCHANGED <<tree, success>>

\* unzCloseCurrentFile.  The sum is wrong if the entry is damaged, or if it was
\* not read to its end; all of a short one is read before it is opened.
CloseFile ==
  /\ step = "written" /\ UNCHANGED made
  /\ \/ step' = "next" /\ UNCHANGED <<at, tree, success, excused>>
     \/ Break /\ tree' = [tree EXCEPT ![at] = IF tree[at] = "absent" THEN "absent" ELSE "part"]

\* unzGoToNextFile, and the condition of the loop.  A next header that cannot be
\* read ends it as the last one does: nothing is said.
NextEntry ==
  /\ step = "next" /\ UNCHANGED <<tree, made, success>>
  /\ \/ success /\ at < Entries /\ at' = at + 1 /\ step' = "entry" /\ UNCHANGED excused
     \/ success /\ at < Entries /\ step' = "returned" /\ excused' = TRUE /\ UNCHANGED at
     \/ (~success \/ at = Entries) /\ step' = "returned" /\ UNCHANGED <<at, excused>>

Loop ==
  \/ EntryFails \/ SkipFork \/ CreateDirectory \/ NoRoom \/ LeaveOut \/ IsDirectory \/ IsLink
  \/ FileFails \/ LogFile \/ OpenFile \/ WriteFile \/ CloseFile \/ NextEntry

-----------------------------------------------------------------------------
(* What it leaves. *)

WholeTree == \A e \in 1..Entries : tree[e] = "whole"

\* Mutant of Extracted: it is taken for the book that was asked for.
ExtractedOfAsked == IF made THEN [of |-> asked, whole |-> WholeTree] ELSE NoFile

Extracted == IF made THEN [of |-> Shown, whole |-> WholeTree] ELSE NoFile

Leave == dir' = [dir EXCEPT ![bookBasePath] = Extracted]

Reset ==
  /\ at' = 1 /\ step' = "idle" /\ tree' = NoTree
  /\ made' = FALSE /\ success' = TRUE /\ excused' = FALSE

\* unzipFile returns to readEpub, which does not look at success.
Return ==
  /\ phase = "unzipping" /\ step = "returned" /\ phase' = "parsing" /\ Leave /\ Reset
  /\ UNCHANGED <<title, form, archive, saved, left, asked, openings, shouldRemoveEpub, viewVars>>

\* The process is stopped, maybe in the middle of the extraction.
Stop ==
  /\ phase # "closed" /\ Gone /\ Reset
  /\ IF phase = "unzipping" THEN Leave ELSE UNCHANGED dir
  /\ UNCHANGED <<title, form, archive, saved, left, openings>>

-----------------------------------------------------------------------------

OpenInit == EpubInit /\ Idle

\* What the queues run by themselves.
Work ==
  \/ Begin \/ Return
  \/ Proceed /\ UNCHANGED unzipVars
  \/ Loop /\ UNCHANGED vars

OpenNext == Work \/ Stop \/ (Happen /\ UNCHANGED unzipVars)

OpenSpec == OpenInit /\ [][OpenNext]_openVars /\ WF_openVars(Work)

-----------------------------------------------------------------------------

\* unzipFile returns YES only if every entry was written, or one was not in one of
\* four ways that it lets pass: a directory that could not be made, a file that
\* could not be opened or not be closed, a header that could not be read.  Damaged
\* contents are told, and a disk that is full is unless it is found out by fclose.
ToldIfPart == step = "returned" /\ success => WholeTree \/ excused

\* However the entries of an archive fare, the directory changes as EpubReader
\* says: none, part or all of the book whose archive was opened.
OpensAsSpecified == [][EpubNext]_vars
=============================================================================
