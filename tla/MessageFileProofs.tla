------------------------- MODULE MessageFileProofs -------------------------
(***************************************************************************)
(* MessageFile proved for every set of texts and every number of edits.    *)
(* Three facts beside the types make the invariant inductive: what is      *)
(* remembered was read from the file that still carries its stamp; the     *)
(* call that runs has seen the file that stands there now, and has seen    *)
(* none when it goes on to create one; and a file that stands in the way   *)
(* of the rename arrived after the re-check.                               *)
(***************************************************************************)
EXTENDS MessageFile, TLAPS

\* Stamps are never in the future, and a remembered reply is that of its file.
MemoryHolds ==
  /\ file.stamp <= edits
  /\ info # NoStamp => info <= edits
  /\ memory.stamp # NoStamp => memory.stamp <= edits
  /\ Found /\ file.stamp = memory.stamp => memory.reply = Said(file.text)

\* Where the guard is when it has found nothing to read.
Creating == {"lstat", "write", "recheck", "rename", "restat"}

Seen ==
  /\ pc # "idle" => file \in held
  /\ pc \in Creating => \E f \in held : f.kind \in {"missing", "dangling"}

Unobstructed ==
  pc = "rename" => file.kind \in {"missing", "hidden"} \/ arrived = "rename"

Inv == TypeOK /\ MemoryHolds /\ Seen /\ Unobstructed

-----------------------------------------------------------------------------
(* What the operators yield.                                                *)

LEMMA StampFacts ==
  /\ MaxEdits \in Nat /\ NoStamp \in Nat /\ NoStamp \in 0..NoStamp /\ 0 \in 0..MaxEdits
  /\ \A s \in 0..MaxEdits : s \in 0..NoStamp /\ s # NoStamp /\ s \in Nat
  /\ \A s \in 0..NoStamp : s # NoStamp => s \in 0..MaxEdits
  BY MessageFileAssumption DEF NoStamp

LEMMA ReplyFacts ==
  /\ \A m, s, w : Reply(m, s, w).message = m
  /\ \A t \in Texts \cup {Default, Blank, TooLong} : Said(t) \in Replies
  /\ CannotBeRead \in Replies /\ Reply(Default, "default", "could not be created") \in Replies
  /\ Reply(Default, "default", "") \in Replies /\ Reply(Default, "file", "") \in Replies
  /\ NoReply \in Replies
<1>1. \A m, s, w : Reply(m, s, w).message = m
  BY DEF Reply
<1>2. Said(Default) = Reply(Default, "file", "")
  BY DEF Said, Default, Blank, TooLong
<1> QED BY <1>1, <1>2 DEF Replies

\* A file and the memory, field by field.
LEMMA Shapes ==
  ASSUME TypeOK
  PROVE  /\ file.kind \in Kinds /\ file.text \in Texts \cup {Default, Blank, TooLong}
         /\ file.stamp \in 0..MaxEdits
         /\ memory.stamp \in 0..NoStamp /\ memory.reply \in Replies
         /\ info \in 0..NoStamp /\ edits \in 0..MaxEdits /\ edits \in Nat
  BY StampFacts DEF TypeOK, Files

LEMMA FileShape ==
  /\ Nowhere \in Files /\ Nowhere.kind = "missing" /\ Nowhere.stamp = 0
  /\ \A f \in Files : f.kind \in Kinds
  BY StampFacts DEF Nowhere, Files, Kinds

\* What is kept with a reply.
LEMMA RememberFacts ==
  ASSUME NEW r \in Replies, NEW stamp \in 0..NoStamp, Remember(r, stamp)
  PROVE  /\ pc' = "idle" /\ reply' = r /\ info' = NoStamp
         /\ memory'.stamp = stamp /\ (stamp # NoStamp => memory'.reply = r)
         /\ memory' \in [stamp: 0..NoStamp, reply: Replies]
  BY StampFacts, ReplyFacts DEF Remember, Forgotten

-----------------------------------------------------------------------------

LEMMA InitInv == Init => Inv
<1> SUFFICES ASSUME Init PROVE Inv
  OBVIOUS
<1>1. TypeOK
  <2>1. memory \in [stamp: 0..NoStamp, reply: Replies]
    BY StampFacts, ReplyFacts DEF Init, Forgotten
  <2>2. file \in Files /\ edits \in 0..MaxEdits /\ reply \in Replies
    BY StampFacts, ReplyFacts DEF Init
  <2>3. pc = "idle" /\ info = NoStamp
    BY DEF Init
  <2> QED BY <2>1, <2>2, <2>3, StampFacts DEF TypeOK
<1>2. file.stamp = 0 /\ memory.stamp = NoStamp /\ 0 # NoStamp /\ edits = 0 /\ info = NoStamp
  <2>1. file.stamp = 0 /\ memory.stamp = NoStamp /\ edits = 0 /\ info = NoStamp
    BY DEF Init, Forgotten
  <2> QED BY <2>1, StampFacts
<1>3. MemoryHolds
  BY <1>2 DEF MemoryHolds
<1> QED BY <1>1, <1>3 DEF Init, Inv, Seen, Creating, Unobstructed

\* A call that returns with no file's text, or with that of the file at hand,
\* leaves the invariant.
LEMMA RememberInv ==
  ASSUME Inv, NEW r \in Replies, NEW stamp \in 0..NoStamp, Remember(r, stamp),
         UNCHANGED <<file, edits>>,
         stamp # NoStamp => stamp <= edits /\ (Found /\ file.stamp = stamp => r = Said(file.text))
  PROVE  Inv'
<1>1. TypeOK'
  BY RememberFacts, StampFacts DEF Inv, TypeOK
<1>2. file.stamp # NoStamp
  BY Shapes, StampFacts DEF Inv
<1>3. MemoryHolds'
  BY <1>2, RememberFacts DEF Inv, MemoryHolds, Found
<1> QED BY <1>1, <1>3, RememberFacts DEF Inv, Seen, Creating, Unobstructed

\* A step on the way leaves it when the call has seen what the place it goes to
\* asks for.
LEMMA GotoInv ==
  ASSUME Inv, pc # "idle", NEW label \in Creating, Goto(label), UNCHANGED <<edits, info, arrived>>,
         pc # "read", \E f \in held : f.kind \in {"missing", "dangling"},
         label = "rename" => file.kind \in {"missing", "hidden"}
  PROVE  Inv'
<1>1. TypeOK'
  BY DEF Goto, Inv, TypeOK, Creating
<1>2. MemoryHolds'
  BY DEF Goto, Inv, MemoryHolds, Found
<1>3. Seen' /\ Unobstructed'
  BY DEF Goto, Inv, Seen, Unobstructed, Creating
<1> QED BY <1>1, <1>2, <1>3 DEF Inv

LEMMA ToReadInv ==
  ASSUME Inv, pc # "idle", Found, info' = file.stamp, Goto("read"), UNCHANGED <<edits, arrived>>
  PROVE  Inv'
<1>1. TypeOK'
  BY Shapes, StampFacts DEF Goto, Inv, TypeOK
<1>2. MemoryHolds'
  BY DEF Goto, Inv, MemoryHolds, Found
<1>3. Seen' /\ Unobstructed'
  BY DEF Goto, Inv, Seen, Unobstructed, Creating
<1> QED BY <1>1, <1>2, <1>3 DEF Inv

LEMMA CallInv == Inv /\ Call => Inv'
<1> SUFFICES ASSUME Inv, Call PROVE Inv'
  OBVIOUS
<1>1. TypeOK'
  BY ReplyFacts DEF Call, Inv, TypeOK
<1> QED BY <1>1 DEF Call, Inv, MemoryHolds, Found, Seen, Creating, Unobstructed

LEMMA ReadingInv == Inv /\ (Stat \/ Restat \/ Read) => Inv'
<1> SUFFICES ASSUME Inv, Stat \/ Restat \/ Read PROVE Inv'
  OBVIOUS
<1> USE StampFacts, ReplyFacts
<1>1. CASE Stat
  <2>1. CASE Found /\ file.stamp = memory.stamp /\ Remember(memory.reply, memory.stamp)
             /\ UNCHANGED file
    <3>1. memory.reply = Said(file.text) /\ (memory.stamp # NoStamp => memory.stamp <= edits)
      BY <2>1 DEF Inv, MemoryHolds
    <3> QED BY <1>1, <2>1, <3>1, Shapes, RememberInv DEF Stat, Inv
  <2>2. CASE Found /\ info' = file.stamp /\ Goto("read")
    BY <1>1, <2>2, ToReadInv DEF Stat
  <2>3. CASE NotExist /\ Goto("lstat") /\ UNCHANGED info
    <3>1. file \in held /\ file.kind \in {"missing", "dangling"}
      BY <1>1, <2>3 DEF Stat, Inv, Seen, NotExist
    <3> QED BY <1>1, <2>3, <3>1, GotoInv DEF Stat, Creating
  <2>4. CASE Remember(CannotBeRead, NoStamp) /\ UNCHANGED file
    BY <1>1, <2>4, RememberInv DEF Stat
  <2> QED BY <1>1, <2>1, <2>2, <2>3, <2>4 DEF Stat
<1>2. CASE Restat
  <2>1. CASE Found
    BY <1>2, <2>1, ToReadInv DEF Restat
  <2>2. CASE ~Found
    BY <1>2, <2>2, RememberInv DEF Restat
  <2> QED BY <2>1, <2>2
<1>3. CASE Read
  <2>1. info \in 0..NoStamp /\ info # NoStamp /\ info <= edits
    BY <1>3, Shapes DEF Read, Inv, TypeOK, MemoryHolds
  <2>2. CASE file.kind = "regular"
    BY <1>3, <2>1, <2>2, Shapes, RememberInv DEF Read, Inv
  <2>3. CASE file.kind # "regular"
    BY <1>3, <2>3, RememberInv DEF Read
  <2> QED BY <2>2, <2>3
<1> QED BY <1>1, <1>2, <1>3

LEMMA CreatingInv == Inv /\ (Lstat \/ WriteTemporary \/ Recheck \/ RenameFails) => Inv'
<1> SUFFICES ASSUME Inv, Lstat \/ WriteTemporary \/ Recheck \/ RenameFails PROVE Inv'
  OBVIOUS
<1> USE StampFacts, ReplyFacts
<1>1. CASE NotCreated /\ UNCHANGED <<file, edits>>
  BY <1>1, RememberInv DEF NotCreated
<1>2. CASE ~(NotCreated /\ UNCHANGED <<file, edits>>)
  <2>1. /\ pc \in Creating \ {"rename", "restat"} /\ UNCHANGED <<edits, info, arrived>>
        /\ \E f \in held : f.kind \in {"missing", "dangling"}
    BY <1>2 DEF Lstat, WriteTemporary, Recheck, RenameFails, Inv, Seen, Creating
  <2>2. PICK label \in Creating : Goto(label) /\ (label = "rename" => ~Exists \/ file.kind = "hidden")
    BY <1>2 DEF Lstat, WriteTemporary, Recheck, RenameFails, Creating
  <2> QED BY <2>1, <2>2, GotoInv DEF Exists, Creating
<1> QED BY <1>1, <1>2

\* The guard's own file carries the stamp of the last edit; nothing remembered
\* carries it any more.
LEMMA RenameInv == Inv /\ Rename => Inv'
<1> SUFFICES ASSUME Inv, Rename PROVE Inv'
  OBVIOUS
<1>1. /\ file' \in Files /\ file'.stamp = edits /\ edits \in 0..MaxEdits
      /\ edits # NoStamp /\ edits <= edits /\ UNCHANGED <<edits, arrived>>
  <2>1. edits \in 0..MaxEdits /\ edits \in Nat
    BY Shapes DEF Inv
  <2>2. edits # NoStamp /\ edits <= edits
    BY <2>1, StampFacts
  <2> QED BY <2>1, <2>2 DEF Rename, Files, Kinds
<1>2. /\ pc' = "idle" /\ reply' = Reply(Default, "file", "") /\ info' = NoStamp
      /\ memory'.stamp = NoStamp /\ memory' \in [stamp: 0..NoStamp, reply: Replies]
  BY RememberFacts, StampFacts, ReplyFacts DEF Rename
<1>3. TypeOK'
  BY <1>1, <1>2, StampFacts, ReplyFacts DEF TypeOK
<1>4. MemoryHolds'
  BY <1>1, <1>2 DEF MemoryHolds
<1> QED BY <1>2, <1>3, <1>4 DEF Inv, Seen, Creating, Unobstructed

\* What the operator puts in place has a stamp of its own.
LEMMA EditInv == Inv /\ Edit => Inv'
<1> SUFFICES ASSUME Inv, Edit PROVE Inv'
  OBVIOUS
<1> USE StampFacts, FileShape
<1>1. /\ edits \in Nat /\ edits' = edits + 1 /\ edits' \in 0..MaxEdits
      /\ UNCHANGED <<pc, info, memory, reply>> /\ arrived' = pc
      /\ held' = IF pc = "idle" THEN held ELSE held \cup {file'}
  BY Shapes DEF Edit, Inv
<1>2. file' \in Files /\ (file' = Nowhere \/ file'.stamp = edits')
  BY DEF Edit
<1>3. TypeOK'
  BY <1>1, <1>2 DEF Inv, TypeOK
<1>4. MemoryHolds'
  <2>1. file'.stamp <= edits'
    BY <1>1, <1>2
  <2>2. info' # NoStamp => info' <= edits'
    BY <1>1, Shapes DEF Inv, MemoryHolds
  <2>3. memory'.stamp # NoStamp => memory'.stamp <= edits
    BY <1>1 DEF Inv, MemoryHolds
  <2>4. ~(Found' /\ file'.stamp = memory'.stamp)
    <3>1. CASE file' = Nowhere
      BY <3>1 DEF Found
    <3>2. CASE file'.stamp = edits'
      BY <1>1, <2>3, <3>2
    <3> QED BY <1>2, <3>1, <3>2
  <2>5. memory'.stamp # NoStamp => memory'.stamp <= edits'
    BY <1>1, <2>3, Shapes DEF Inv
  <2> QED BY <2>1, <2>2, <2>4, <2>5 DEF MemoryHolds
<1>5. Seen' /\ Unobstructed'
  BY <1>1 DEF Inv, Seen, Unobstructed, Creating
<1> QED BY <1>3, <1>4, <1>5 DEF Inv

LEMMA ChmodInv == Inv /\ Chmod => Inv'
<1> SUFFICES ASSUME Inv, Chmod PROVE Inv'
  OBVIOUS
<1>1. /\ file' \in Files /\ file'.stamp = file.stamp /\ file'.text = file.text
      /\ UNCHANGED <<pc, edits, info, memory, reply, arrived>>
      /\ held' = IF pc = "idle" THEN held ELSE held \cup {file'}
  BY DEF Chmod, Inv, TypeOK, Files, Kinds
<1>2. Found /\ file.kind \notin {"missing", "hidden"}
  BY DEF Chmod, Found
<1>3. TypeOK'
  BY <1>1 DEF Inv, TypeOK
<1>4. MemoryHolds'
  BY <1>1, <1>2 DEF Inv, MemoryHolds
<1>5. Seen' /\ Unobstructed'
  BY <1>1, <1>2 DEF Inv, Seen, Unobstructed, Creating
<1> QED BY <1>3, <1>4, <1>5 DEF Inv

LEMMA CrashInv == Inv /\ Crash => Inv'
<1> SUFFICES ASSUME Inv, Crash PROVE Inv'
  OBVIOUS
<1>1. memory' \in [stamp: 0..NoStamp, reply: Replies] /\ memory'.stamp = NoStamp
  BY StampFacts, ReplyFacts DEF Crash, Forgotten
<1>2. TypeOK'
  BY <1>1, StampFacts, ReplyFacts DEF Crash, Inv, TypeOK
<1>3. MemoryHolds'
  BY <1>1, StampFacts, Shapes DEF Crash, Inv, MemoryHolds
<1> QED BY <1>2, <1>3 DEF Crash, Inv, Seen, Creating, Unobstructed

LEMMA NextInv == Inv /\ [Next]_vars => Inv'
<1> SUFFICES ASSUME Inv, [Next]_vars PROVE Inv'
  OBVIOUS
<1>1. CASE UNCHANGED vars
  BY <1>1 DEF vars, Inv, TypeOK, MemoryHolds, Found, Seen, Unobstructed
<1> QED BY <1>1, CallInv, ReadingInv, CreatingInv, RenameInv, EditInv, ChmodInv, CrashInv DEF Next

LEMMA Invariance == Spec => []Inv
  BY InitInv, NextInv, PTL DEF Spec

-----------------------------------------------------------------------------

\* The guard's memory, the stamp in hand and the file keep their shapes, and a
\* stamp is in hand exactly between a stat and the read it is for
\* (message.go:36-103).
THEOREM TypeCorrect == Spec => []TypeOK
  BY Invariance, PTL DEF Inv

\* Whatever the operator writes, breaks or removes between its system calls, a
\* call returns what the file said at one moment of it: a remembered text is
\* returned only for the file it was read from, and the default only when a
\* file that says nothing else was met (message.go:59-103).
THEOREM Served == Spec => ServesTheFile
<1>1. Inv /\ [Next]_vars => [Returned => \E f \in held : reply'.message \in SaysOf(f)]_vars
  <2> SUFFICES ASSUME Inv, Next, Returned PROVE \E f \in held : reply'.message \in SaysOf(f)
    OBVIOUS
  <2> USE ReplyFacts
  <2>1. CASE Stat \/ Restat \/ Read
    <3>1. file \in held /\ file.kind \in Kinds
      BY <2>1, Shapes DEF Stat, Restat, Read, Inv, Seen
    <3>2. CASE reply' = memory.reply /\ Found /\ file.stamp = memory.stamp
      <4>1. reply' = Said(file.text)
        BY <3>2 DEF Inv, MemoryHolds
      <4> QED BY <3>1, <3>2, <4>1 DEF Found, SaysOf
    <3>3. CASE Read /\ file.kind = "regular"
      BY <3>1, <3>3 DEF Read, Remember, SaysOf
    <3>4. CASE reply' = CannotBeRead /\ file.kind # "regular"
      BY <3>1, <3>4 DEF CannotBeRead, SaysOf, Kinds
    <3> QED BY <2>1, <3>2, <3>3, <3>4
            DEF Stat, Restat, Read, Remember, Goto, Returned, Found
  <2>2. CASE Lstat \/ WriteTemporary \/ Recheck \/ Rename \/ RenameFails
    <3>1. PICK f \in held : f.kind \in {"missing", "dangling"}
      BY <2>2 DEF Lstat, WriteTemporary, Recheck, Rename, RenameFails, Inv, Seen, Creating
    <3>2. NotCreated => reply' = Reply(Default, "default", "could not be created")
      BY DEF NotCreated, Remember
    <3>3. Rename => reply' = Reply(Default, "file", "")
      BY DEF Rename, Remember
    <3>4. \A label : ~Goto(label)
      BY DEF Goto, Returned
    <3>5. NotCreated \/ Rename
      BY <2>2, <3>4 DEF Lstat, WriteTemporary, Recheck, RenameFails
    <3>6. reply'.message = Default
      BY <3>2, <3>3, <3>5
    <3> QED BY <3>1, <3>6 DEF SaysOf
  <2>3. CASE Call \/ Edit \/ Chmod \/ Crash
    BY <2>3 DEF Call, Edit, Chmod, Crash, Returned
  <2> QED BY <2>1, <2>2, <2>3 DEF Next
<1> QED BY <1>1, Invariance, PTL DEF Spec, ServesTheFile

\* The file that the guard's own replaces can only have arrived after the
\* re-check (message.go:146-190).
THEOREM LateFileKept == Spec => LateFileIsKept
<1>1. Inv /\ [Next]_vars => [Rename /\ file.kind # "missing" => arrived = "rename"]_vars
  BY DEF Inv, Unobstructed, Rename
<1> QED BY <1>1, Invariance, PTL DEF Spec, LateFileIsKept
=============================================================================
