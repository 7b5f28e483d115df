----------------------------- MODULE FsExecutor -----------------------------
(***************************************************************************)
(* createFsExecutor (apps/b3nd-node/fs-executor.ts): a record is a file,   *)
(* written in place.  writeFile truncates the file and then writes it;     *)
(* nothing keeps two writes apart, or a read from coming in between.       *)
(*                                                                         *)
(* One file is modelled, and its content is the write it is of and whether *)
(* that is there in whole.  A read, exists() and listFiles() change        *)
(* nothing: what they can see is what the file can be.                     *)
(***************************************************************************)
CONSTANTS
  Writers,  \* concurrent callers of writeFile, each with its own content
  NoFile    \* the content of a file that is not there

ASSUME FsAssumption == NoFile \notin Writers

VARIABLES
  file,     \* the content: the writer it is of, or NoFile
  whole,    \* is all of it there?
  writer,   \* of each writer where its call is
  linked,   \* the writers whose open file is still the one of this name
  acked,    \* history: the writer whose call was acknowledged last, NoFile
            \* after a removal
  damaged   \* history: has a write failed, met another one, or lost its
            \* file, with no write alone begun since?

fsVars == <<file, whole, writer, linked, acked, damaged>>

Writing == {w \in Writers : writer[w] = "writing"}

FsInit ==
  /\ file = NoFile
  /\ whole = TRUE
  /\ writer = [w \in Writers |-> "idle"]
  /\ linked = {}
  /\ acked = NoFile
  /\ damaged = FALSE

-----------------------------------------------------------------------------
\* writeFile: the directory is there.
EnsureDir(w) ==
  /\ writer[w] = "idle"
  /\ writer' = [writer EXCEPT ![w] = "ensured"]
  /\ UNCHANGED <<file, whole, linked, acked, damaged>>

\* writeTextFile opens the file, or makes it, with nothing in it.
Truncate(w) ==
  /\ writer[w] = "ensured"
  /\ writer' = [writer EXCEPT ![w] = "writing"]
  /\ file' = w
  /\ whole' = FALSE
  /\ linked' = linked \cup {w}
  /\ damaged' = (Writing # {})
  /\ UNCHANGED acked

\* Mutant of Written: the call resolves while the content is being written.
WrittenEarly(w) ==
  /\ writer[w] = "writing"
  /\ writer' = [writer EXCEPT ![w] = "idle"]
  /\ linked' = linked \ {w}
  /\ acked' = w
  /\ UNCHANGED <<file, whole, damaged>>

\* The content is written, and the call acknowledged.  Where another write
\* was there as well, the longer one shows at the end.
Written(w) ==
  /\ writer[w] = "writing"
  /\ writer' = [writer EXCEPT ![w] = "idle"]
  /\ linked' = linked \ {w}
  /\ acked' = w
  /\ UNCHANGED damaged
  /\ \/ w \in linked /\ file' = w /\ whole' = TRUE
     \/ w \in linked /\ damaged /\ file' = w /\ whole' = FALSE
     \/ w \notin linked /\ UNCHANGED <<file, whole>>

\* The call fails, or the process dies, with part of the content written.
WriteFails(w) ==
  /\ writer[w] # "idle"
  /\ writer' = [writer EXCEPT ![w] = "idle"]
  /\ linked' = linked \ {w}
  /\ damaged' = (damaged \/ w \in Writing)
  /\ UNCHANGED <<file, whole, acked>>

\* removeFile: writes under way go on, to a file without a name.
RemoveFile ==
  /\ file # NoFile
  /\ file' = NoFile
  /\ whole' = TRUE
  /\ linked' = {}
  /\ acked' = NoFile
  /\ damaged' = (Writing # {})
  /\ UNCHANGED writer

FsNext ==
  \/ \E w \in Writers : EnsureDir(w) \/ Truncate(w) \/ Written(w) \/ WriteFails(w)
  \/ RemoveFile

FsSpec == FsInit /\ [][FsNext]_fsVars

-----------------------------------------------------------------------------
\* The variables have the types of what they model.
FsTypeOK ==
  /\ file \in Writers \cup {NoFile}
  /\ whole \in BOOLEAN
  /\ writer \in [Writers -> {"idle", "ensured", "writing"}]
  /\ linked \subseteq Writing
  /\ acked \in Writers \cup {NoFile}
  /\ damaged \in BOOLEAN

\* Between the calls the file is what the last acknowledged call made it, in
\* whole: part of a record, or another one, is seen only while a write is under
\* way, or after writes that met, lost their file, or failed half-way, until
\* the next one that is alone.
QuietFileIsLast == Writing = {} /\ ~damaged => whole /\ file = acked

\* What makes it so: an undamaged file has one write under way at most, which is
\* still writing to the file of this name.
LoneWriteIsLinked == ~damaged => \A w \in Writing : Writing = {w} /\ w \in linked

\* The invariant of the file: the types, and what it holds between the calls.
FsInv == FsTypeOK /\ QuietFileIsLast /\ LoneWriteIsLinked
=============================================================================
