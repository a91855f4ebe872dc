------------------------------- MODULE LogFile -------------------------------
(***************************************************************************)
(* FileAppender (src/infra/log/Logger.cpp): appending to a log file that   *)
(* is rolled, file i becoming backup i + 1, when it has its size.  The     *)
(* caller holds _fileMutex; what it does between the renames and when the  *)
(* process may end is seen step by step.  Sizes are counted in events; a   *)
(* missing file and an empty one are both <<>>, for an empty file is never *)
(* renamed.                                                                *)
(***************************************************************************)
EXTENDS Integers, Sequences, FiniteSets

CONSTANTS MaxFileSize,   \* _maxFileSize
          MaxBackup,     \* _maxBackup
          Announcements  \* how many lines OpenFile logs

ASSUME FileAssumption ==
  /\ MaxFileSize \in Nat \ {0} /\ MaxBackup \in Nat \ {0}
  /\ Announcements \in Nat

VARIABLES disk,        \* file i: 0 is the log, i > 0 the backup with suffix i
          currentSize, \* _currentSize
          isOpen,      \* _fileStream takes text: it is open and no write on it has failed
          stage,       \* of Append: "check", "rename", "announce" or "write"
          next,        \* the file to rename next, or the lines OpenFile has still to log
          failed,      \* some OpenFile or some write has failed (history)
          holes        \* the backups missing between others at the start (history)

fileVars == <<disk, currentSize, isOpen, stage, next, failed, holes>>

Files == 0 .. MaxBackup

\* Backups that are missing although an older one is there.
Holes(d) == {f \in 1 .. MaxBackup - 1 : d[f] = <<>> /\ \E g \in f + 1 .. MaxBackup : d[g] # <<>>}

\* A backup is a log that had its size when it was renamed, or is missing.
BackupsWhole(d) == \A f \in 1 .. MaxBackup : d[f] = <<>> \/ Len(d[f]) >= MaxFileSize

\* A process starts with what an earlier one left, one that ended inside RollFile included.  The first
\* OpenFile may fail, too.
FileInit(left) ==
  /\ disk \in left
  /\ \/ isOpen = TRUE /\ currentSize = Len(disk[0]) /\ failed = FALSE
     \/ isOpen = FALSE /\ currentSize = 0 /\ failed = TRUE
  /\ stage = "check" /\ next = 0
  /\ holes = Cardinality(Holes(disk))

MustRoll == currentSize >= MaxFileSize

BeginRoll ==
  /\ stage = "check" /\ MustRoll
  /\ isOpen' = FALSE
  /\ stage' = "rename" /\ next' = MaxBackup - 1
  /\ UNCHANGED <<disk, currentSize, failed, holes>>

\* Sensitivity: a backup is removed where it should be moved.
Renamed_Removed(i) == [disk EXCEPT ![i] = <<>>]

Renamed(i) == [disk EXCEPT ![i + 1] = disk[i], ![i] = <<>>]

\* One turn of RollFile's loop, or the rename of the log itself.
Rename ==
  /\ stage = "rename"
  /\ disk' = IF disk[next] = <<>> THEN disk ELSE Renamed(next)
  /\ IF next > 0 THEN next' = next - 1 /\ UNCHANGED stage
                 ELSE next' = Announcements /\ stage' = "announce"
  /\ UNCHANGED <<currentSize, isOpen, failed, holes>>

\* OpenFile logs a line; the logger says how.
Announces ==
  /\ stage = "announce" /\ next > 0
  /\ next' = next - 1
  /\ UNCHANGED <<disk, currentSize, isOpen, stage, failed, holes>>

\* The rest of OpenFile.  An exception is caught and printed: _currentSize keeps its old value.
OpenFile ==
  /\ stage = "announce" /\ next = 0
  /\ stage' = "write"
  /\ \/ isOpen' = TRUE /\ currentSize' = Len(disk[0]) /\ UNCHANGED failed
     \/ failed' = TRUE /\ UNCHANGED <<isOpen, currentSize>>
  /\ UNCHANGED <<disk, next, holes>>

\* Nobody looks at the stream after the write: one that fails loses the text, and all that follow
\* until the file is opened anew, but the size is counted.
WriteFile(e) ==
  /\ stage = "write" \/ (stage = "check" /\ ~MustRoll)
  /\ \/ isOpen /\ disk' = [disk EXCEPT ![0] = Append(@, e)] /\ UNCHANGED <<isOpen, failed>>
     \/ isOpen' = FALSE /\ failed' = TRUE /\ UNCHANGED disk
  /\ currentSize' = currentSize + 1
  /\ stage' = "check"
  /\ UNCHANGED <<next, holes>>

-----------------------------------------------------------------------------

FileTypeOK(events) ==
  /\ disk \in [Files -> Seq(events)]
  /\ currentSize \in Nat
  /\ isOpen \in BOOLEAN /\ failed \in BOOLEAN
  /\ stage \in {"check", "rename", "announce", "write"}
  /\ next \in Nat /\ (stage = "rename" => next < MaxBackup)
  /\ holes \in Nat

\* What the log and its first i backups hold, the oldest first.
TextOf(d) == LET upTo[i \in Files] == IF i = 0 THEN d[0] ELSE d[i] \o upTo[i - 1]
             IN  upTo

\* What all files hold, as one text.
Text == TextOf(disk)[MaxBackup]
=============================================================================
