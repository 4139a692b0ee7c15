---------------------------- MODULE MessageFile -----------------------------
(***************************************************************************)
(* The stop message (internal/guard/message.go): the file an operator may  *)
(* write, break or remove at any time, the guard that creates it when it   *)
(* is missing, and the message each poll reads from it or remembers.       *)
(*                                                                         *)
(* One call of Message runs at a time (it holds the mutex).  Each system   *)
(* call on the file is a step, and the operator may act between any two.   *)
(* readPrefix (a stat, an open and a read) is one step: what it meets in   *)
(* between has the outcome of meeting it before.                           *)
(***************************************************************************)
EXTENDS Naturals

CONSTANTS Texts,    \* messages an operator may write, of one line and of legal length
          MaxEdits  \* bound: how often the operator touches the file

ASSUME MessageFileAssumption == MaxEdits \in Nat

Default == "DefaultStopMessage"
Blank == "blank"
TooLong == "too long"
Truncated == "too long, truncated"

\* What may stand at the path: nothing; a symbolic link to nothing; a path in
\* a directory that may not be searched; a directory, a FIFO or a file that may
\* not be opened; a regular file.  The stamp stands for the modification time
\* and the size: two files the operator left there differ in it.
Nowhere == [kind |-> "missing", text |-> Blank, stamp |-> 0]
Kinds == {"missing", "dangling", "hidden", "unreadable", "regular"}
Files == [kind: Kinds, text: Texts \cup {Default, Blank, TooLong}, stamp: 0..MaxEdits]

VARIABLES
  pc,       \* "idle", "stat", "lstat", "write", "recheck", "rename", "restat" or "read"
  file,     \* what stands at the path
  edits,    \* how often the operator touched it
  info,     \* the stamp the running call got from its stat
  memory,   \* the remembered stamp and reply; NoStamp when nothing is loaded
  reply,    \* what the last call returned, NoReply while one runs
  held,     \* history: what stood at the path during the running call
  arrived   \* history: where the guard was when the operator last touched the file

vars == <<pc, file, edits, info, memory, reply, held, arrived>>

NoStamp == MaxEdits + 1
Reply(message, source, warning) == [message |-> message, source |-> source, warning |-> warning]
NoReply == Reply("", "", "")
Forgotten == [stamp |-> NoStamp, reply |-> NoReply]

Init ==
  /\ pc = "idle"
  /\ file \in {f \in Files : f.stamp = 0 /\ (f.kind = "missing" => f = Nowhere)}
  /\ edits = 0
  /\ info = NoStamp /\ memory = Forgotten
  /\ reply = Reply(Default, "default", "")
  /\ held = {} /\ arrived = "idle"

-----------------------------------------------------------------------------
(* Message.                                                                 *)

Exists == file.kind # "missing"               \* os.Lstat succeeds
Found == file.kind \in {"unreadable", "regular"}  \* os.Stat succeeds
NotExist == file.kind \in {"missing", "dangling"} \* os.Stat fails with ErrNotExist

Goto(label) == pc' = label /\ UNCHANGED <<file, memory, reply, held>>

\* remember: what is returned is kept with the stamp of the file it came from,
\* and forgotten when it came from no file.
Remember(r, stamp) ==
  /\ pc' = "idle"
  /\ reply' = r
  /\ memory' = IF stamp = NoStamp THEN Forgotten ELSE [stamp |-> stamp, reply |-> r]
  /\ info' = NoStamp /\ held' = {}

CannotBeRead == Reply(Default, "default", "cannot be read")

Call ==
  /\ pc = "idle"
  /\ pc' = "stat" /\ reply' = NoReply /\ held' = {file}
  /\ UNCHANGED <<file, edits, info, memory, arrived>>

\* Mutant of Stat: what is loaded is returned as long as there is a file.
StatLoaded ==
  /\ pc = "stat"
  /\ \/ /\ Found /\ memory.stamp # NoStamp
        /\ Remember(memory.reply, memory.stamp) /\ UNCHANGED file
     \/ /\ Found /\ memory.stamp = NoStamp
        /\ info' = file.stamp /\ Goto("read")
     \/ NotExist /\ Goto("lstat") /\ UNCHANGED info
     \/ ~Found /\ ~NotExist /\ Remember(CannotBeRead, NoStamp) /\ UNCHANGED file
  /\ UNCHANGED <<edits, arrived>>

\* A file with the remembered stamp is not read again.
Stat ==
  /\ pc = "stat"
  /\ \/ /\ Found /\ file.stamp = memory.stamp
        /\ Remember(memory.reply, memory.stamp) /\ UNCHANGED file
     \/ /\ Found /\ file.stamp # memory.stamp
        /\ info' = file.stamp /\ Goto("read")
     \/ NotExist /\ Goto("lstat") /\ UNCHANGED info
     \/ ~Found /\ ~NotExist /\ Remember(CannotBeRead, NoStamp) /\ UNCHANGED file
  /\ UNCHANGED <<edits, arrived>>

\* Mutant of Restat: the second stat is lost (a shadowed variable).
RestatShadowed ==
  /\ pc = "restat"
  /\ IF Found THEN Goto("read") /\ UNCHANGED info
              ELSE Remember(CannotBeRead, NoStamp) /\ UNCHANGED file
  /\ UNCHANGED <<edits, arrived>>

\* The stat after the file turned out to be there after all.
Restat ==
  /\ pc = "restat"
  /\ IF Found THEN info' = file.stamp /\ Goto("read")
              ELSE Remember(CannotBeRead, NoStamp) /\ UNCHANGED file
  /\ UNCHANGED <<edits, arrived>>

\* What the text of a regular file says.
Said(text) ==
  CASE text = Blank -> Reply(Default, "default", "blank")
    [] text = TooLong -> Reply(Truncated, "file", "truncated")
    [] OTHER -> Reply(text, "file", "")

\* The content is read, and remembered with the stamp from before.
Read ==
  /\ pc = "read"
  /\ IF file.kind = "regular" THEN Remember(Said(file.text), info)
                              ELSE Remember(CannotBeRead, NoStamp)
  /\ UNCHANGED <<file, edits, arrived>>

-----------------------------------------------------------------------------
(* EnsureMessageFile.                                                       *)

NotCreated == Remember(Reply(Default, "default", "could not be created"), NoStamp)

\* A file that is there already is not touched; a path that cannot be examined
\* is an error.
Lstat ==
  /\ pc = "lstat"
  /\ \/ ~Exists /\ Goto("write") /\ UNCHANGED info
     \/ Exists /\ file.kind # "hidden" /\ Goto("restat") /\ UNCHANGED info
     \/ file.kind = "hidden" /\ NotCreated /\ UNCHANGED file
  /\ UNCHANGED <<edits, arrived>>

\* The temporary file is created, written, given its mode, synced and closed;
\* when one of these fails it is removed again.
WriteTemporary ==
  /\ pc = "write"
  /\ \/ Goto("recheck") /\ UNCHANGED info
     \/ NotCreated /\ UNCHANGED file
  /\ UNCHANGED <<edits, arrived>>

\* Mutant of Recheck: the path is not looked at again.
NoRecheck ==
  /\ pc = "recheck"
  /\ Goto("rename")
  /\ UNCHANGED <<edits, info, arrived>>

\* A file that appeared meanwhile is kept, and the temporary one removed.  (A
\* path that cannot be examined is taken for a missing one.)
Recheck ==
  /\ pc = "recheck"
  /\ IF Exists /\ file.kind # "hidden" THEN Goto("restat") ELSE Goto("rename")
  /\ UNCHANGED <<edits, info, arrived>>

\* The temporary file takes the path, whatever stands there by now.
Rename ==
  /\ pc = "rename" /\ file.kind # "hidden"
  /\ file' = [kind |-> "regular", text |-> Default, stamp |-> edits]
  /\ Remember(Reply(Default, "file", ""), NoStamp)
  /\ UNCHANGED <<edits, arrived>>

RenameFails ==
  /\ pc = "rename"
  /\ NotCreated
  /\ UNCHANGED <<file, edits, arrived>>

-----------------------------------------------------------------------------
(* The environment.                                                         *)

\* The operator writes, breaks, restores or removes the file.
Edit ==
  /\ edits < MaxEdits
  /\ edits' = edits + 1
  /\ \/ file' = Nowhere /\ Exists
     \/ file' \in {f \in Files : f.stamp = edits' /\ f.kind # "missing"}
  /\ held' = IF pc = "idle" THEN held ELSE held \cup {file'}
  /\ arrived' = pc
  /\ UNCHANGED <<pc, info, memory, reply>>

\* The operator takes or gives the permission to read it, which leaves the
\* modification time and the size.
Chmod ==
  /\ Found
  /\ file' = [file EXCEPT !.kind = IF @ = "regular" THEN "unreadable" ELSE "regular"]
  /\ held' = IF pc = "idle" THEN held ELSE held \cup {file'}
  /\ UNCHANGED <<pc, edits, info, memory, reply, arrived>>

\* The process is killed and starts again with nothing loaded.
Crash ==
  /\ pc # "idle"
  /\ pc' = "idle" /\ info' = NoStamp /\ memory' = Forgotten /\ held' = {}
  /\ reply' = NoReply
  /\ UNCHANGED <<file, edits, arrived>>

Next ==
  \/ Call \/ Stat \/ Restat \/ Read
  \/ Lstat \/ WriteTemporary \/ Recheck \/ Rename \/ RenameFails
  \/ Edit \/ Chmod \/ Crash

Spec == Init /\ [][Next]_vars

-----------------------------------------------------------------------------

Replies ==
  {Said(t) : t \in Texts \cup {Default, Blank, TooLong}}
  \cup {CannotBeRead, Reply(Default, "default", "could not be created"),
        Reply(Default, "default", ""), NoReply}

TypeOK ==
  /\ pc \in {"idle", "stat", "lstat", "write", "recheck", "rename", "restat", "read"}
  /\ file \in Files /\ edits \in 0..MaxEdits
  /\ info \in 0..NoStamp /\ (pc = "read" <=> info # NoStamp)
  /\ memory \in [stamp: 0..NoStamp, reply: Replies]
  /\ reply \in Replies

Returned == reply = NoReply /\ reply' # NoReply

\* What a file says to a viewer.  The default text stands for everything that
\* cannot be read; a file that could be read once keeps its own.
SaysOf(f) == CASE f.kind = "regular" -> {Said(f.text).message}
               [] f.kind = "unreadable" -> {Default, Said(f.text).message}
               [] OTHER -> {Default}

\* Every call returns what the file said at some moment of that call: never
\* the text of an earlier file, neither from memory nor because the file was
\* exchanged between its stat and its read (message.go:27-30, 59-63, 78-94).
ServesTheFile == [][Returned => \E f \in held : reply'.message \in SaysOf(f)]_vars

\* A file the operator puts in place while the guard prepares its own is kept,
\* up to the re-check just before the rename (message.go:179-184).  One that
\* arrives between the two is replaced, which "An existing file is never
\* modified" (message.go:146) does not say.
LateFileIsKept ==
  [][Rename /\ file.kind # "missing" => arrived = "rename"]_vars
=============================================================================
