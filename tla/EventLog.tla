------------------------------ MODULE EventLog -------------------------------
(***************************************************************************)
(* Journal::append, rotate_if_large and archive on events.jsonl            *)
(* (topgent-journal/src/journal.rs): the log of what changed and of what   *)
(* Topgent did.  No lock is taken: any surface appends, and an operator    *)
(* clears the view at any moment.  A file is named by its inode, because a *)
(* handle that is open follows a rename.  An entry is its serial number,   *)
(* given when it is written; one call appends one entry.                   *)
(***************************************************************************)
EXTENDS Naturals, Sequences, SequencesExt

CONSTANTS
  Writer,      \* surfaces that append
  MaxLines,    \* MAX_BYTES, in entries
  MaxEntries,  \* bound on the entries written
  MaxClears,   \* bound on archive calls
  MaxKills     \* bound on writers killed during a call

LogAssumption ==
  /\ MaxLines \in Nat \ {0, 1}
  /\ MaxEntries \in Nat /\ MaxClears \in Nat /\ MaxKills \in Nat

VARIABLES
  files,    \* contents of every inode that had the name events.jsonl
  current,  \* the inode that has it now, or 0
  at,       \* where each writer stands
  handle,   \* the inode each writer holds open, or 0
  text,     \* what a rotating writer has read
  issued,   \* entries written so far
  dropped,  \* history: entries of the older halves that were rotated out
  clears,   \* archive calls so far
  kills     \* kills so far

logVars == <<files, current, at, handle, text, issued, dropped, clears, kills>>

LogEntry == 1..MaxEntries
Goes(w, to) == at' = [at EXCEPT ![w] = to]
Leaves(w) ==
  /\ Goes(w, "idle")
  /\ handle' = [handle EXCEPT ![w] = 0]
  /\ text' = [text EXCEPT ![w] = <<>>]

LogTypeOK ==
  /\ files \in Seq(Seq(LogEntry))
  /\ current \in 0..Len(files)
  /\ at \in [Writer -> {"idle", "rotate", "truncate", "refill", "open", "write"}]
  /\ handle \in [Writer -> 0..Len(files)]
  /\ text \in [Writer -> Seq(LogEntry)]
  /\ issued \in 0..MaxEntries
  /\ dropped \subseteq LogEntry
  /\ clears \in 0..MaxClears
  /\ kills \in 0..MaxKills

LogInit ==
  /\ files = <<>>
  /\ current = 0
  /\ at = [w \in Writer |-> "idle"]
  /\ handle = [w \in Writer |-> 0]
  /\ text = [w \in Writer |-> <<>>]
  /\ issued = 0
  /\ dropped = {}
  /\ clears = 0
  /\ kills = 0

-----------------------------------------------------------------------------
Size == IF current = 0 THEN 0 ELSE Len(files[current])

(* The metadata decide whether the log is rotated first.                   *)
StartAppend(w) ==
  /\ at[w] = "idle" /\ issued < MaxEntries
  /\ Goes(w, IF Size < MaxLines THEN "open" ELSE "rotate")
  /\ UNCHANGED <<files, current, handle, text, issued, dropped, clears, kills>>

(* A log cleared meanwhile is a read error, and the call returns it.       *)
ReadAll(w) ==
  /\ at[w] = "rotate"
  /\ IF current = 0 THEN Leaves(w)
     ELSE /\ text' = [text EXCEPT ![w] = files[current]]
          /\ Goes(w, "truncate")
          /\ UNCHANGED handle
  /\ UNCHANGED <<files, current, issued, dropped, clears, kills>>

(* Open the name, creating the file when there is none.                    *)
OpenCurrent(w, contents) ==
  IF current = 0
    THEN /\ files' = Append(files, <<>>)
         /\ current' = Len(files) + 1
         /\ handle' = [handle EXCEPT ![w] = Len(files) + 1]
    ELSE /\ files' = [files EXCEPT ![current] = contents]
         /\ handle' = [handle EXCEPT ![w] = current]
         /\ UNCHANGED current

(* std::fs::write opens with truncation and writes afterwards.             *)
TruncateLog(w) ==
  /\ at[w] = "truncate"
  /\ OpenCurrent(w, <<>>)
  /\ Goes(w, "refill")
  /\ UNCHANGED <<text, issued, dropped, clears, kills>>

Half(s) == Len(s) \div 2
Older(s) == SubSeq(s, 1, Half(s))

(* Mutant: the cut takes one entry more than it is said to drop.           *)
KeepLess(s) == SubSeq(s, Half(s) + 2, Len(s))

Keep(s) == SubSeq(s, Half(s) + 1, Len(s))

(* The write starts at offset 0 over what was appended since.              *)
Refill(w) ==
  LET keep == Keep(text[w])
      there == files[handle[w]]
  IN /\ at[w] = "refill"
     /\ files' = [files EXCEPT ![handle[w]] =
                    keep \o SubSeq(there, Len(keep) + 1, Len(there))]
     /\ dropped' = dropped \cup ToSet(Older(text[w]))
     /\ text' = [text EXCEPT ![w] = <<>>]
     /\ handle' = [handle EXCEPT ![w] = 0]
     /\ Goes(w, "open")
     /\ UNCHANGED <<current, issued, clears, kills>>

OpenLog(w) ==
  /\ at[w] = "open"
  /\ OpenCurrent(w, IF current = 0 THEN <<>> ELSE files[current])
  /\ Goes(w, "write")
  /\ UNCHANGED <<text, issued, dropped, clears, kills>>

(* O_APPEND: the entry goes behind what the file holds by now.             *)
WriteEntry(w) ==
  /\ at[w] = "write" /\ issued < MaxEntries
  /\ issued' = issued + 1
  /\ files' = [files EXCEPT ![handle[w]] = Append(@, issued + 1)]
  /\ Leaves(w)
  /\ UNCHANGED <<current, dropped, clears, kills>>

(* The log is set aside under the time it was cleared.                     *)
Archive ==
  /\ current # 0 /\ clears < MaxClears
  /\ current' = 0
  /\ clears' = clears + 1
  /\ UNCHANGED <<files, at, handle, text, issued, dropped, kills>>

KillWriter(w) ==
  /\ at[w] # "idle" /\ kills < MaxKills
  /\ kills' = kills + 1
  /\ Leaves(w)
  /\ UNCHANGED <<files, current, issued, dropped, clears>>

LogDone == issued = MaxEntries /\ UNCHANGED logVars

LogNext ==
  \/ \E w \in Writer : StartAppend(w) \/ ReadAll(w) \/ TruncateLog(w) \/ Refill(w) \/ OpenLog(w)
                        \/ WriteEntry(w) \/ KillWriter(w)
  \/ Archive
  \/ LogDone

LogSpec == LogInit /\ [][LogNext]_logVars

-----------------------------------------------------------------------------
OnDisk == UNION {ToSet(files[f]) : f \in DOMAIN files}
InHand == UNION {ToSet(text[w]) : w \in Writer}

(* journal.rs:1118, journal.rs:913: what was appended stays, in the log or *)
(* in one that was set aside, until a rotation drops it with the older     *)
(* half of the log; nothing is dropped in silence.                         *)
OnlyTheOldestGo == 1..issued \subseteq OnDisk \cup InHand \cup dropped

(* journal.rs:950: the log reads back in the order things happened, also   *)
(* after a rotation, a clearing, and both at once.                         *)
InOrder ==
  \A f \in DOMAIN files : \A i, j \in DOMAIN files[f] : i < j => files[f][i] < files[f][j]

(* journal.rs:950, journal.rs:1118: the log of one surface reads back in   *)
(* order wherever the surface is killed, and as long as no rotation is cut *)
(* short nothing but the older half is gone.                               *)
OneWriter == \A v, w \in Writer : v = w
LogHolds ==
  /\ LogTypeOK
  /\ OneWriter => InOrder /\ (kills = 0 => OnlyTheOldestGo)
=============================================================================
