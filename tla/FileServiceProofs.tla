------------------------- MODULE FileServiceProofs -------------------------
(***************************************************************************)
(* FileService implements FileStore, for any number of files, Delete calls *)
(* and retries.                                                            *)
(*                                                                         *)
(* FileStore asks of every step that a file somebody knows is stored until *)
(* its deletion is asked for. That is not inductive over rows, objects and *)
(* commands that arrive late: UploadInv and DeleteInv say which of them    *)
(* may still be under way for a file at every stage of its calls.          *)
(* RemovalInv adds whose object must be gone by then, for what a deletion  *)
(* leaves behind.                                                          *)
(***************************************************************************)
EXTENDS FileService, TLAPS

LateFor(command, f) == <<command, f>> \in late

\* What holds of a file, by the stage of its upload.
UploadInv(f) ==
    /\ pc[f] \in UploadStates
    /\ f \in known <=> pc[f] = "done"
    /\ f \in asked => f \in known
    /\ f \notin asked => ~LateFor("mark", f) /\ ~LateFor("delete", f)
    /\ pc[f] \in {"new", "put", "insert"} =>
          row[f] = "none" /\ ~LateFor("insert", f)
    /\ pc[f] = "insert" => object[f]
    /\ pc[f] \in {"readback", "answer"} => row[f] = "live" /\ object[f]
    /\ pc[f] = "done" =>
          /\ row[f] # "none"
          /\ row[f] = "live" => object[f]
          /\ f \notin asked => row[f] = "live"
    /\ LateFor("remove", f) =>
          \/ pc[f] \in {"cleanup", "failed"}
          \/ row[f] \in {"marked", "deleted"} /\ f \in asked

\* What holds of a Delete call.
DeleteInv(d) ==
    /\ pc[d] \in DeleteStates
    /\ pc[d] # "idle" => target[d] \in asked
    /\ pc[d] \in {"remove", "delete"} => row[target[d]] \in {"marked", "deleted"}

Inv ==
    /\ TypeOK
    /\ \A f \in Files : UploadInv(f)
    /\ \A d \in Deleters : DeleteInv(d)

-----------------------------------------------------------------------------
\* What a step of the upload of f leaves alone.
UploadFrame(f) ==
    /\ \A g \in Files \ {f} :
          /\ row'[g] = row[g] /\ object'[g] = object[g] /\ pc'[g] = pc[g]
          /\ g \in known' <=> g \in known
          /\ \A command \in Commands : LateFor(command, g)' <=> LateFor(command, g)
    /\ \A d \in Deleters : pc'[d] = pc[d]
    /\ UNCHANGED <<target, asked>>

\* What a step of the Delete call d, which works on f, leaves alone.
DeleteFrame(d, f) ==
    /\ \A g \in Files \ {f} :
          /\ row'[g] = row[g] /\ object'[g] = object[g]
          /\ g \in asked' <=> g \in asked
          /\ \A command \in Commands : LateFor(command, g)' <=> LateFor(command, g)
    /\ \A c \in Calls \ {d} : pc'[c] = pc[c]
    /\ \A e \in Deleters \ {d} : target'[e] = target[e]
    /\ UNCHANGED known

\* A command that takes effect or fails keeps the types of rows and objects.
LEMMA CommandTypes ==
    ASSUME TypeOK, NEW command \in Commands, NEW f \in Files,
           Takes(command, f) \/ Fails(command, f) \/ Succeeds(command, f)
    PROVE  /\ row' \in [Files -> RowStates]
           /\ object' \in [Files -> BOOLEAN]
           /\ row'[f] \in {row[f], RowAfter(command, row[f])}
           /\ object'[f] \in {object[f], ObjectAfter(command, object[f])}
           /\ \A g \in Files \ {f} : row'[g] = row[g] /\ object'[g] = object[g]
BY DEF TypeOK, Takes, Fails, Succeeds, RowAfter, ObjectAfter, RowStates, Commands

\* WithRetry tries the command once, moves the call on or counts the attempt.
LEMMA RetryTypes ==
    ASSUME TypeOK, NEW c \in Calls, NEW command \in Commands, NEW f \in Files,
           NEW next \in UploadStates \cup DeleteStates,
           NEW giveUp \in UploadStates \cup DeleteStates,
           WithRetry(c, command, f, next, giveUp)
    PROVE  /\ \/ Succeeds(command, f) /\ pc'[c] = next
              \/ Fails(command, f) /\ pc'[c] \in {pc[c], giveUp}
           /\ tries' \in [Calls -> 0 .. MaxRetries - 1]
           /\ pc' \in [Calls -> UploadStates \cup DeleteStates]
           /\ \A b \in Calls \ {c} : pc'[b] = pc[b]
BY RetriesAssumption DEF WithRetry, Goto, TypeOK

\* An upload touches its own file only, and keeps its invariant.
LEMMA UploadStep ==
    ASSUME Inv, NEW f \in Files, Upload(f)
    PROVE  TypeOK' /\ UploadFrame(f) /\ UploadInv(f)'
<1> USE CallsAssumption DEF UploadFrame, LateFor, Calls, ghosts, data
<1> SUFFICES ASSUME TypeOK, UploadInv(f) PROVE TypeOK' /\ UploadFrame(f) /\ UploadInv(f)'
  BY DEF Inv
<1>1. CASE Accept(f)
  BY <1>1 DEF Accept, Goto, TypeOK, UploadInv, UploadStates
<1>2. CASE PutObject(f)
  <2>1. /\ \/ Succeeds("put", f) /\ pc'[f] = "insert"
           \/ Fails("put", f) /\ pc'[f] \in {"put", "failed"}
        /\ tries' \in [Calls -> 0 .. MaxRetries - 1]
        /\ pc' \in [Calls -> UploadStates \cup DeleteStates]
        /\ \A b \in Calls \ {f} : pc'[b] = pc[b]
    BY <1>2, RetryTypes DEF PutObject, UploadStates, Commands
  <2>2. TypeOK'
    BY <1>2, <2>1, CommandTypes DEF PutObject, TypeOK, Succeeds, Fails, Commands
  <2>3. UploadFrame(f)
    BY <1>2, <2>1, CommandTypes DEF PutObject, Succeeds, Fails, Commands
  <2>4. UploadInv(f)'
    BY <1>2, <2>1, CommandTypes DEF PutObject, UploadInv, UploadStates, Succeeds, Fails, Takes, Commands, RowAfter, ObjectAfter, TypeOK
  <2> QED BY <2>2, <2>3, <2>4
<1>3. CASE Insert(f)
  <2>1. TypeOK'
    BY <1>3, CommandTypes DEF Insert, TypeOK, Succeeds, Fails, Commands, Goto, UploadStates
  <2>2. UploadFrame(f)
    BY <1>3, CommandTypes DEF Insert, TypeOK, Succeeds, Fails, Commands, Goto
  <2>3. UploadInv(f)'
    BY <1>3 DEF Insert, UploadInv, UploadStates, Succeeds, Fails, Takes, RowAfter, ObjectAfter, TypeOK, Goto
  <2> QED BY <2>1, <2>2, <2>3
<1>4. CASE Cleanup(f)
  <2>1. /\ \/ Succeeds("remove", f) /\ pc'[f] = "failed"
           \/ Fails("remove", f) /\ pc'[f] \in {"cleanup", "failed"}
        /\ tries' \in [Calls -> 0 .. MaxRetries - 1]
        /\ pc' \in [Calls -> UploadStates \cup DeleteStates]
        /\ \A b \in Calls \ {f} : pc'[b] = pc[b]
    BY <1>4, RetryTypes DEF Cleanup, UploadStates, Commands
  <2>2. TypeOK'
    BY <1>4, <2>1, CommandTypes DEF Cleanup, TypeOK, Succeeds, Fails, Commands
  <2>3. UploadFrame(f)
    BY <1>4, <2>1, CommandTypes DEF Cleanup, Succeeds, Fails, Commands
  <2>4. UploadInv(f)'
    BY <1>4, <2>1 DEF Cleanup, UploadInv, UploadStates, Succeeds, Fails, Takes, RowAfter, ObjectAfter, TypeOK
  <2> QED BY <2>2, <2>3, <2>4
<1>5. CASE ReadBack(f)
  BY <1>5 DEF ReadBack, Goto, TypeOK, UploadInv, UploadStates
<1>6. CASE Answer(f)
  BY <1>6 DEF Answer, Goto, TypeOK, UploadInv, UploadStates
<1> QED BY <1>1, <1>2, <1>3, <1>4, <1>5, <1>6 DEF Upload

\* A step of the Delete call d for the file f.
DeletesFile(d, f) ==
    \/ StartDelete(d, f)
    \/ Delete(d) /\ f = target[d]

\* A Delete call touches the file it works on, never revives it, and keeps the
\* invariants of both.
LEMMA DeleteStep ==
    ASSUME Inv, NEW d \in Deleters, NEW f \in Files, DeletesFile(d, f)
    PROVE  /\ TypeOK' /\ DeleteFrame(d, f) /\ UploadInv(f)' /\ DeleteInv(d)'
           /\ row[f] \in {"marked", "deleted"} => row'[f] \in {"marked", "deleted"}
<1> DEFINE Kept == row[f] \in {"marked", "deleted"} => row'[f] \in {"marked", "deleted"}
<1> USE CallsAssumption DEF DeleteFrame, LateFor, Calls, ghosts, data, DeleteStates
<1> SUFFICES ASSUME TypeOK, UploadInv(f), DeleteInv(d)
             PROVE  TypeOK' /\ DeleteFrame(d, f) /\ UploadInv(f)' /\ DeleteInv(d)' /\ Kept
  BY DEF Inv
<1>1. CASE StartDelete(d, f)
  BY <1>1 DEF StartDelete, Goto, TypeOK, UploadInv, DeleteInv, UploadStates
<1>2. CASE Lookup(d) /\ f = target[d]
  BY <1>2 DEF Lookup, Goto, TypeOK, UploadInv, DeleteInv, UploadStates
<1>3. CASE MarkDeleted(d) /\ f = target[d]
  <2>1. TypeOK'
    BY <1>3, CommandTypes DEF MarkDeleted, TypeOK, Succeeds, Fails, Commands, Goto
  <2>2. DeleteFrame(d, f)
    BY <1>3, CommandTypes DEF MarkDeleted, TypeOK, Succeeds, Fails, Commands, Goto
  <2>3. UploadInv(f)' /\ DeleteInv(d)' /\ Kept
    BY <1>3 DEF MarkDeleted, UploadInv, DeleteInv, UploadStates, Succeeds, Fails, Takes, RowAfter, ObjectAfter, TypeOK, Goto, RowStates
  <2> QED BY <2>1, <2>2, <2>3
<1>4. CASE RemoveObject(d) /\ f = target[d]
  <2>0. pc[d] = "remove" /\ WithRetry(d, "remove", f, "delete", "idle")
    BY <1>4 DEF RemoveObject
  <2>1. /\ \/ Succeeds("remove", f) /\ pc'[d] = "delete"
           \/ Fails("remove", f) /\ pc'[d] \in {"remove", "idle"}
        /\ tries' \in [Calls -> 0 .. MaxRetries - 1]
        /\ pc' \in [Calls -> UploadStates \cup DeleteStates]
        /\ \A b \in Calls \ {d} : pc'[b] = pc[b]
    BY <2>0, RetryTypes DEF Commands
  <2>2. TypeOK'
    BY <1>4, <2>1, CommandTypes DEF RemoveObject, TypeOK, Succeeds, Fails, Commands
  <2>3. DeleteFrame(d, f)
    BY <1>4, <2>1, CommandTypes DEF RemoveObject, Succeeds, Fails, Commands
  <2>4. UploadInv(f)' /\ DeleteInv(d)' /\ Kept
    BY <1>4, <2>1 DEF RemoveObject, UploadInv, DeleteInv, UploadStates, Succeeds, Fails, Takes, RowAfter, ObjectAfter, TypeOK
  <2> QED BY <2>2, <2>3, <2>4
<1>5. CASE DeleteRow(d) /\ f = target[d]
  <2>1. TypeOK'
    BY <1>5, CommandTypes DEF DeleteRow, TypeOK, Succeeds, Fails, Commands, Goto
  <2>2. DeleteFrame(d, f)
    BY <1>5, CommandTypes DEF DeleteRow, TypeOK, Succeeds, Fails, Commands, Goto
  <2>3. UploadInv(f)' /\ DeleteInv(d)' /\ Kept
    BY <1>5 DEF DeleteRow, UploadInv, DeleteInv, UploadStates, Succeeds, Fails, Takes, RowAfter, ObjectAfter, TypeOK, Goto
  <2> QED BY <2>1, <2>2, <2>3
<1> QED BY <1>1, <1>2, <1>3, <1>4, <1>5 DEF Delete, DeletesFile

\* A command that takes effect late finds its file in a state that it may
\* still change, or changes nothing.
LEMMA LateStep ==
    ASSUME Inv, NEW command \in Commands, NEW f \in Files, TakesLate(command, f)
    PROVE  /\ TypeOK' /\ UploadFrame(f) /\ UploadInv(f)'
           /\ row[f] \in {"marked", "deleted"} => row'[f] \in {"marked", "deleted"}
<1> USE DEF UploadFrame, LateFor, calls, ghosts
<1>1. TypeOK /\ UploadInv(f)
  BY DEF Inv
<1>2. TypeOK'
  BY <1>1, CommandTypes DEF TakesLate, TypeOK
<1>3. UploadFrame(f)
  BY <1>1, CommandTypes DEF TakesLate
<1>4. UploadInv(f)' /\ (row[f] \in {"marked", "deleted"} => row'[f] \in {"marked", "deleted"})
  BY <1>1 DEF TakesLate, Takes, RowAfter, ObjectAfter, TypeOK, UploadInv, UploadStates, Commands, Calls
<1> QED BY <1>2, <1>3, <1>4

\* The invariant of a file that a step does not touch.
LEMMA OtherFile ==
    ASSUME NEW f \in Files, NEW g \in Files \ {f}, UploadInv(g), UploadFrame(f)
    PROVE  UploadInv(g)'
BY DEF UploadFrame, UploadInv, Commands

\* A step of a Delete call keeps the invariant.
LEMMA DeleteKeepsInv ==
    ASSUME Inv, NEW d \in Deleters, NEW f \in Files, DeletesFile(d, f)
    PROVE  Inv'
<1>1. /\ TypeOK' /\ DeleteFrame(d, f) /\ UploadInv(f)' /\ DeleteInv(d)'
      /\ row[f] \in {"marked", "deleted"} => row'[f] \in {"marked", "deleted"}
  BY DeleteStep
<1>2. \A g \in Files \ {f} : UploadInv(g)'
  BY <1>1, CallsAssumption DEF Inv, UploadInv, DeleteFrame, Calls, Commands
<1>3. asked \subseteq asked'
  BY DEF DeletesFile, StartDelete, Delete, Lookup, MarkDeleted, RemoveObject, DeleteRow, ghosts
<1>4. \A e \in Deleters \ {d} : DeleteInv(e)'
  BY <1>1, <1>3, CallsAssumption DEF Inv, DeleteInv, DeleteFrame, Calls, TypeOK
<1> QED BY <1>1, <1>2, <1>4 DEF Inv

\* The invariant is inductive.
LEMMA InvNext ==
    ASSUME Inv, [Next]_vars
    PROVE  Inv'
<1>1. ASSUME NEW f \in Files, Upload(f) PROVE Inv'
  <2>1. TypeOK' /\ UploadFrame(f) /\ UploadInv(f)'
    BY <1>1, UploadStep
  <2>2. \A g \in Files : UploadInv(g)'
    BY <2>1, OtherFile DEF Inv
  <2>3. pc[f] # "done"
    BY <1>1 DEF Upload, Accept, PutObject, Insert, Cleanup, ReadBack, Answer
  <2>4. f \notin asked
    BY <2>3 DEF Inv, UploadInv
  <2>5. \A d \in Deleters : DeleteInv(d)'
    BY <2>1, <2>4 DEF Inv, DeleteInv, UploadFrame, TypeOK
  <2> QED BY <2>1, <2>2, <2>5 DEF Inv
<1>3. ASSUME NEW command \in Commands, NEW f \in Files, TakesLate(command, f) PROVE Inv'
  <2>1. /\ TypeOK' /\ UploadFrame(f) /\ UploadInv(f)'
        /\ row[f] \in {"marked", "deleted"} => row'[f] \in {"marked", "deleted"}
    BY <1>3, LateStep
  <2>2. \A g \in Files : UploadInv(g)'
    BY <2>1, OtherFile DEF Inv
  <2>3. \A d \in Deleters : DeleteInv(d)'
    BY <2>1 DEF Inv, DeleteInv, UploadFrame, TypeOK
  <2> QED BY <2>1, <2>2, <2>3 DEF Inv
<1>4. ASSUME Crash PROVE Inv'
  <2>1. TypeOK'
    BY <1>4, RetriesAssumption DEF Inv, Crash, TypeOK, data, ghosts, Calls, UploadStates, DeleteStates
  <2>2. \A f \in Files : UploadInv(f)'
    BY <1>4, CallsAssumption DEF Inv, Crash, UploadInv, data, ghosts, Calls, UploadStates, LateFor
  <2>3. \A d \in Deleters : DeleteInv(d)'
    BY <1>4 DEF Inv, Crash, DeleteInv, data, ghosts, Calls, DeleteStates
  <2> QED BY <2>1, <2>2, <2>3 DEF Inv
<1>5. ASSUME UNCHANGED vars PROVE Inv'
  BY <1>5 DEF Inv, vars, data, calls, ghosts, TypeOK, UploadInv, DeleteInv, LateFor
<1>6. \A d \in Deleters : target[d] \in Files
  BY DEF Inv, TypeOK
<1>7. ASSUME NEW d \in Deleters, Delete(d) PROVE Inv'
  <2>1. PICK f \in Files : f = target[d]
    BY <1>6
  <2>2. DeletesFile(d, f)
    BY <1>7, <2>1 DEF DeletesFile
  <2> QED BY <2>2, DeleteKeepsInv
<1>8. ASSUME NEW d \in Deleters, NEW f \in Files, StartDelete(d, f) PROVE Inv'
  <2>1. DeletesFile(d, f)
    BY <1>8 DEF DeletesFile
  <2> QED BY <2>1, DeleteKeepsInv
<1> QED BY <1>1, <1>3, <1>4, <1>5, <1>7, <1>8 DEF Next

\* The invariant holds at the start.
LEMMA InvInit == Init => Inv
BY CallsAssumption, RetriesAssumption
   DEF Init, Inv, TypeOK, UploadInv, DeleteInv, LateFor, Calls, UploadStates, DeleteStates, RowStates

\* Every value stays in its type: no call attempts an S3 command more often
\* than S3_MAX_RETRIES says, and a Delete call always works on some file.
THEOREM FileServiceTypeCorrect == Spec => []TypeOK
<1>1. Inv => TypeOK
  BY DEF Inv
<1> QED BY <1>1, InvInit, InvNext, PTL DEF Spec

-----------------------------------------------------------------------------
(***************************************************************************)
(* The refinement.                                                         *)
(***************************************************************************)

PromiseStep == [Promise!StoreNext]_(Promise!store)

\* A step that hands out nothing and asks for nothing may do to one file what
\* FileStore allows: anything before it is known, its removal once asked for.
LEMMA OneFileChanges ==
    ASSUME NEW f \in Files, UNCHANGED <<known, asked>>,
           \A g \in Files \ {f} : FileOf(g)' = FileOf(g),
           \/ f \notin known
           \/ FileOf(f)' = FileOf(f)
           \/ f \in asked /\ FileOf(f) = "stored" /\ FileOf(f)' = "gone"
    PROVE  PromiseStep
<1> DEFINE now == [g \in Files |-> FileOf(g)]
<1>1. FileOf(f)' \in {"absent", "stored", "gone"}
  BY DEF FileOf
<1>2. now' = [now EXCEPT ![f] = FileOf(f)']
  OBVIOUS
<1>3. CASE f \notin known
  BY <1>1, <1>2, <1>3 DEF PromiseStep, Promise!StoreNext, Promise!Unanswered, Promise!FileStates
<1>4. CASE FileOf(f)' = FileOf(f)
  BY <1>2, <1>4 DEF PromiseStep, Promise!store
<1>5. CASE f \in asked /\ FileOf(f) = "stored" /\ FileOf(f)' = "gone"
  BY <1>2, <1>5 DEF PromiseStep, Promise!StoreNext, Promise!Remove
<1> QED BY <1>3, <1>4, <1>5

\* Once a file is known it is stored exactly as long as its row is live, and a
\* row that is not live never becomes live again.
LEMMA KnownFile ==
    ASSUME Inv, Inv', [Next]_vars, NEW f \in Files, f \in known, f \in known',
           row'[f] = row[f] \/ (f \in asked /\ row'[f] \in {"marked", "deleted"})
    PROVE  \/ FileOf(f)' = FileOf(f)
           \/ f \in asked /\ FileOf(f) = "stored" /\ FileOf(f)' = "gone"
BY DEF Inv, UploadInv, FileOf, Readable, TypeOK, RowStates

\* Every step of the file service is a step of its promise, or none.
LEMMA StepKeepsPromise ==
    ASSUME Inv, [Next]_vars
    PROVE  PromiseStep
<1> USE DEF FileOf, Readable
<1>0. Inv'
  BY InvNext
<1>1. ASSUME NEW f \in Files, Upload(f) PROVE PromiseStep
  <2>1. UploadFrame(f)
    BY <1>1, UploadStep
  <2>2. pc[f] # "done"
    BY <1>1 DEF Upload, Accept, PutObject, Insert, Cleanup, ReadBack, Answer
  <2>3. f \notin known
    BY <2>2 DEF Inv, UploadInv
  <2>4. \A g \in Files \ {f} : FileOf(g)' = FileOf(g)
    BY <2>1 DEF UploadFrame
  <2>5. CASE UNCHANGED known
    BY <2>1, <2>3, <2>4, <2>5, OneFileChanges DEF UploadFrame
  <2>6. CASE known' # known
    <3>1. /\ Answer(f) /\ pc[f] = "answer" /\ known' = known \cup {f}
          /\ UNCHANGED <<row, object, asked>>
      BY <1>1, <2>6
         DEF Upload, Accept, PutObject, Insert, Cleanup, ReadBack, Answer, ghosts, data
    <3>2. FileOf(f) = "stored"
      BY <3>1 DEF Inv, UploadInv
    <3> QED BY <2>3, <3>1, <3>2 DEF PromiseStep, Promise!StoreNext, Promise!HandOut
  <2> QED BY <2>5, <2>6
<1>2. ASSUME NEW d \in Deleters, NEW f \in Files, StartDelete(d, f) PROVE PromiseStep
  BY <1>2 DEF StartDelete, data, PromiseStep, Promise!StoreNext, Promise!AskRemoval
<1>3. ASSUME NEW d \in Deleters, Delete(d) PROVE PromiseStep
  <2>1. PICK f \in Files : f = target[d]
    BY DEF Inv, TypeOK
  <2>2. DeletesFile(d, f)
    BY <1>3, <2>1 DEF DeletesFile
  <2>3. DeleteFrame(d, f)
    BY <2>2, DeleteStep
  <2>4. UNCHANGED <<known, asked>> /\ pc[d] # "idle"
    BY <1>3 DEF Delete, Lookup, MarkDeleted, RemoveObject, DeleteRow, ghosts
  <2>5. f \in asked /\ f \in known
    BY <2>1, <2>4 DEF Inv, DeleteInv, UploadInv
  <2>6. row'[f] = row[f] \/ row'[f] \in {"marked", "deleted"}
    <3>1. CASE Lookup(d)
      BY <3>1 DEF Lookup, data
    <3>2. CASE MarkDeleted(d)
      BY <2>1, <3>2 DEF MarkDeleted, Succeeds, Fails, Takes, RowAfter, Inv, TypeOK
    <3>3. CASE RemoveObject(d)
      BY <2>1, <3>3 DEF RemoveObject, WithRetry, Succeeds, Fails, Takes, RowAfter, Inv, TypeOK
    <3>4. CASE DeleteRow(d)
      BY <2>1, <3>4 DEF DeleteRow, Succeeds, Fails, Takes, RowAfter, Inv, TypeOK, data
    <3> QED BY <1>3, <3>1, <3>2, <3>3, <3>4 DEF Delete
  <2>7. \A g \in Files \ {f} : FileOf(g)' = FileOf(g)
    BY <2>3 DEF DeleteFrame
  <2> QED BY <1>0, <2>4, <2>5, <2>6, <2>7, KnownFile, OneFileChanges
<1>4. ASSUME NEW command \in Commands, NEW f \in Files, TakesLate(command, f)
      PROVE  PromiseStep
  <2>1. UploadFrame(f) /\ UNCHANGED <<known, asked>>
    BY <1>4, LateStep DEF TakesLate, ghosts
  <2>2. \A g \in Files \ {f} : FileOf(g)' = FileOf(g)
    BY <2>1 DEF UploadFrame
  <2>3. CASE f \in known
    <3>1. row'[f] = row[f] \/ (f \in asked /\ row'[f] \in {"marked", "deleted"})
      BY <1>4, <2>3 DEF TakesLate, Takes, RowAfter, Inv, TypeOK, UploadInv, LateFor
    <3> QED BY <1>0, <2>1, <2>2, <2>3, <3>1, KnownFile, OneFileChanges
  <2>4. CASE f \notin known
    BY <2>1, <2>2, <2>4, OneFileChanges
  <2> QED BY <2>3, <2>4
<1>5. ASSUME Crash \/ UNCHANGED vars PROVE PromiseStep
  BY <1>5 DEF Crash, vars, data, ghosts, PromiseStep, Promise!store
<1> QED BY <1>1, <1>2, <1>3, <1>4, <1>5 DEF Next

\* The file service implements FileStore: a file that it has handed out stays
\* readable until its deletion is asked for, and a file that is gone stays
\* gone, whatever fails, takes effect late or is cut off by a crash.
THEOREM FileServiceKeepsPromise == Spec => KeepsPromise
<1>1. Init => Promise!StoreInit
  BY DEF Init, Promise!StoreInit, FileOf, Readable
<1>2. Inv /\ [Next]_vars => [Promise!StoreNext]_(Promise!store)
  BY StepKeepsPromise DEF PromiseStep
<1> QED BY <1>1, <1>2, InvInit, InvNext, PTL DEF Spec, KeepsPromise, Promise!StoreSpec

-----------------------------------------------------------------------------
(***************************************************************************)
(* What deletion leaves behind.                                            *)
(***************************************************************************)

NoObject(f) == object[f] => f \in stray

\* Whoever may still delete the row of f has seen its object go.
RemovalInv(f) ==
    /\ LateFor("put", f) => f \in stray
    /\ row[f] = "deleted" \/ LateFor("delete", f) => NoObject(f)
    /\ f \in deleted => row[f] = "deleted"

AfterRemoval(d) == pc[d] = "delete" => NoObject(target[d])

RInv == (\A f \in Files : RemovalInv(f)) /\ (\A d \in Deleters : AfterRemoval(d))

\* What a step that stores no object, and deletes no row, leaves alone.
RemovalFrame ==
    /\ \A f \in Files :
          /\ object'[f] => object[f]
          /\ row'[f] = "deleted" <=> row[f] = "deleted"
          /\ LateFor("put", f)' => LateFor("put", f)
          /\ LateFor("delete", f)' => LateFor("delete", f)
    /\ \A d \in Deleters : pc'[d] = "delete" => pc[d] = "delete" /\ target'[d] = target[d]
    /\ UNCHANGED <<deleted, stray>>

LEMMA FrameKeepsRemoval ==
    ASSUME TypeOK, RInv, RemovalFrame
    PROVE  RInv'
BY DEF TypeOK, RInv, RemovalInv, AfterRemoval, NoObject, RemovalFrame, LateFor

\* An upload stores its object before anybody can ask for a deletion.
LEMMA UploadRemoval ==
    ASSUME Inv, RInv, NEW f \in Files, Upload(f)
    PROVE  RInv'
<1> USE CallsAssumption DEF LateFor, Calls, ghosts, data
<1>1. TypeOK /\ UploadInv(f) /\ UploadFrame(f)
  BY UploadStep DEF Inv
<1>2. CASE PutObject(f)
  <2>1. \/ Succeeds("put", f) /\ UNCHANGED stray
        \/ Fails("put", f) /\ f \in stray'
    BY <1>1, <1>2, RetryTypes DEF PutObject, UploadStates, Commands
  <2>2. pc[f] = "put" /\ row[f] = "none" /\ f \notin asked /\ ~LateFor("delete", f)
    BY <1>1, <1>2 DEF PutObject, UploadInv
  <2>3. stray \subseteq stray' /\ UNCHANGED deleted
    BY <1>2 DEF PutObject
  <2>4. row'[f] = "none" /\ ~LateFor("delete", f)' /\ (LateFor("put", f)' => f \in stray')
    BY <1>1, <2>1, <2>2 DEF Succeeds, Fails, Takes, RowAfter, TypeOK, RInv, RemovalInv
  <2>5. \A d \in Deleters : pc[d] = "delete" => target[d] # f
    BY <2>2 DEF Inv, DeleteInv
  <2>6. \A g \in Files : RemovalInv(g)'
    BY <1>1, <2>2, <2>3, <2>4 DEF RInv, RemovalInv, NoObject, UploadFrame, Commands
  <2>7. \A d \in Deleters : AfterRemoval(d)'
    BY <1>1, <2>3, <2>5 DEF RInv, AfterRemoval, NoObject, UploadFrame, TypeOK
  <2> QED BY <2>6, <2>7 DEF RInv
<1>3. CASE ~PutObject(f)
  <2>1. UNCHANGED <<deleted, stray>>
    BY <1>3 DEF Upload, Accept, Insert, Cleanup, ReadBack, Answer
  <2>2. object'[f] => object[f]
    <3>1. CASE Insert(f)
      BY <1>1, <3>1 DEF Insert, Succeeds, Fails, Takes, ObjectAfter, TypeOK
    <3>2. CASE Cleanup(f)
      BY <1>1, <3>2 DEF Cleanup, WithRetry, Succeeds, Fails, Takes, ObjectAfter, TypeOK
    <3> QED BY <1>3, <3>1, <3>2 DEF Upload, Accept, ReadBack, Answer
  <2>3. row'[f] = "deleted" <=> row[f] = "deleted"
    <3>1. CASE Insert(f)
      BY <1>1, <3>1 DEF Insert, Succeeds, Fails, Takes, RowAfter, TypeOK
    <3>2. CASE Cleanup(f)
      BY <1>1, <3>2 DEF Cleanup, WithRetry, Succeeds, Fails, Takes, RowAfter, TypeOK
    <3> QED BY <1>3, <3>1, <3>2 DEF Upload, Accept, ReadBack, Answer
  <2>4. (LateFor("put", f)' => LateFor("put", f)) /\ (LateFor("delete", f)' => LateFor("delete", f))
    <3>1. CASE Insert(f)
      BY <3>1 DEF Insert, Succeeds, Fails
    <3>2. CASE Cleanup(f)
      BY <3>2 DEF Cleanup, WithRetry, Succeeds, Fails
    <3> QED BY <1>3, <3>1, <3>2 DEF Upload, Accept, ReadBack, Answer
  <2> QED BY <1>1, <2>1, <2>2, <2>3, <2>4, FrameKeepsRemoval DEF RemovalFrame, UploadFrame, Commands
<1> QED BY <1>2, <1>3

\* A Delete call comes to the row only after the object is gone.
LEMMA DeleteRemoval ==
    ASSUME Inv, RInv, NEW d \in Deleters, NEW f \in Files, DeletesFile(d, f)
    PROVE  RInv'
<1> USE CallsAssumption DEF LateFor, Calls, ghosts, data
<1>1. TypeOK /\ DeleteInv(d) /\ DeleteFrame(d, f)
  BY DeleteStep DEF Inv
<1>2. UNCHANGED stray
  BY DEF DeletesFile, Delete, StartDelete, Lookup, MarkDeleted, RemoveObject, DeleteRow
<1>3. CASE StartDelete(d, f) \/ Lookup(d)
  BY <1>1, <1>3, FrameKeepsRemoval DEF StartDelete, Lookup, Goto, RemovalFrame, TypeOK
<1>4. CASE MarkDeleted(d) /\ f = target[d]
  <2>1. RemovalFrame
    BY <1>1, <1>4
       DEF MarkDeleted, Goto, RemovalFrame, Succeeds, Fails, Takes, RowAfter, ObjectAfter, TypeOK
  <2> QED BY <1>1, <2>1, FrameKeepsRemoval
<1>5. CASE RemoveObject(d) /\ f = target[d]
  <2>1. /\ \/ Succeeds("remove", f) /\ pc'[d] = "delete"
           \/ Fails("remove", f) /\ pc'[d] \in {"remove", "idle"}
        /\ \A b \in Calls \ {d} : pc'[b] = pc[b]
    BY <1>1, <1>5, RetryTypes DEF RemoveObject, DeleteStates, Commands
  <2>2. /\ \A g \in Files : /\ object'[g] => object[g]
                            /\ row'[g] = "deleted" <=> row[g] = "deleted"
                            /\ LateFor("put", g)' => LateFor("put", g)
                            /\ LateFor("delete", g)' => LateFor("delete", g)
        /\ UNCHANGED <<deleted, target>>
    BY <1>1, <1>5, <2>1 DEF RemoveObject, Succeeds, Fails, Takes, RowAfter, ObjectAfter, TypeOK
  <2>3. pc'[d] = "delete" => ~object'[f]
    BY <1>1, <2>1 DEF Succeeds, Takes, ObjectAfter, TypeOK
  <2>4. \A g \in Files : RemovalInv(g)'
    BY <1>2, <2>2 DEF RInv, RemovalInv, NoObject
  <2>5. \A e \in Deleters : AfterRemoval(e)'
    BY <1>1, <1>2, <1>5, <2>1, <2>2, <2>3 DEF RInv, AfterRemoval, NoObject, TypeOK
  <2> QED BY <2>4, <2>5 DEF RInv
<1>6. CASE DeleteRow(d) /\ f = target[d]
  <2>1. pc[d] = "delete" /\ NoObject(f) /\ row[f] \in {"marked", "deleted"}
    BY <1>1, <1>6 DEF DeleteRow, RInv, AfterRemoval, DeleteInv
  <2>2. /\ pc' = [pc EXCEPT ![d] = "idle"] /\ UNCHANGED target
        /\ object'[f] => object[f]
        /\ row[f] = "deleted" => row'[f] = "deleted"
        /\ deleted \subseteq deleted' /\ deleted' \subseteq deleted \cup {f}
        /\ f \in deleted' => f \in deleted \/ row'[f] = "deleted"
        /\ LateFor("put", f)' => LateFor("put", f)
    <3>1. CASE Succeeds("delete", f) /\ deleted' = deleted \cup {f}
      BY <1>1, <1>6, <2>1, <3>1 DEF DeleteRow, Goto, Succeeds, Takes, RowAfter, ObjectAfter, TypeOK
    <3>2. CASE Fails("delete", f) /\ UNCHANGED deleted
      BY <1>1, <1>6, <3>2 DEF DeleteRow, Goto, Fails, TypeOK
    <3>3. CASE UNCHANGED <<data, deleted>>
      BY <1>1, <1>6, <3>3 DEF DeleteRow, Goto, TypeOK
    <3> QED BY <1>6, <3>1, <3>2, <3>3 DEF DeleteRow
  <2>3. \A g \in Files : RemovalInv(g)'
    BY <1>1, <1>2, <2>1, <2>2 DEF RInv, RemovalInv, NoObject, DeleteFrame, Commands
  <2>4. \A e \in Deleters : AfterRemoval(e)'
    BY <1>1, <1>2, <2>2 DEF RInv, AfterRemoval, NoObject, DeleteFrame, TypeOK
  <2> QED BY <2>3, <2>4 DEF RInv
<1> QED BY <1>3, <1>4, <1>5, <1>6 DEF DeletesFile, Delete

\* The only command that can bring an object back late is a failed PutObject.
LEMMA LateRemoval ==
    ASSUME Inv, RInv, NEW command \in Commands, NEW f \in Files, TakesLate(command, f)
    PROVE  RInv'
<1> USE DEF LateFor, calls, ghosts
<1>1. TypeOK /\ UploadFrame(f) /\ UNCHANGED <<pc, target, deleted, stray>>
  BY LateStep DEF Inv, TakesLate
<1>2. /\ object'[f] => object[f] \/ f \in stray
      /\ row[f] = "deleted" => row'[f] = "deleted"
      /\ row'[f] = "deleted" => row[f] = "deleted" \/ LateFor("delete", f)
      /\ \A other \in Commands : LateFor(other, f)' => LateFor(other, f)
  BY <1>1 DEF TakesLate, Takes, RowAfter, ObjectAfter, TypeOK, RInv, RemovalInv, Commands
<1>3. \A g \in Files : RemovalInv(g)'
  <2>1. RemovalInv(f)'
    BY <1>1, <1>2 DEF RInv, RemovalInv, NoObject, Commands
  <2>2. \A g \in Files \ {f} : RemovalInv(g)'
    BY <1>1 DEF RInv, RemovalInv, NoObject, UploadFrame, Commands
  <2> QED BY <2>1, <2>2
<1>4. \A g \in Files : object'[g] => object[g] \/ g \in stray
  BY <1>1, <1>2 DEF UploadFrame
<1>5. \A d \in Deleters : AfterRemoval(d)'
  BY <1>1, <1>4 DEF RInv, AfterRemoval, NoObject, TypeOK
<1> QED BY <1>3, <1>5 DEF RInv

LEMMA RInvNext ==
    ASSUME Inv, RInv, [Next]_vars
    PROVE  RInv'
<1>1. ASSUME NEW d \in Deleters, Delete(d) PROVE RInv'
  <2>1. PICK f \in Files : f = target[d]
    BY DEF Inv, TypeOK
  <2> QED BY <1>1, <2>1, DeleteRemoval DEF DeletesFile
<1>2. ASSUME NEW d \in Deleters, NEW f \in Files, StartDelete(d, f) PROVE RInv'
  BY <1>2, DeleteRemoval DEF DeletesFile
<1>3. ASSUME Crash \/ UNCHANGED vars PROVE RInv'
  <2>1. RemovalFrame
    BY <1>3 DEF Crash, RemovalFrame, LateFor, vars, data, calls, ghosts, Calls
  <2> QED BY <2>1, FrameKeepsRemoval DEF Inv
<1> QED BY <1>1, <1>2, <1>3, UploadRemoval, LateRemoval DEF Next

\* The object goes before the row it is found by: only a failed PutObject that
\* lands late leaves an object without a row.
THEOREM DeletionLeavesNothing == Spec => []NoObjectOutlivesItsRow
<1>1. Init => RInv
  BY CallsAssumption DEF Init, RInv, RemovalInv, AfterRemoval, NoObject, LateFor, Calls
<1>2. RInv => NoObjectOutlivesItsRow
  BY DEF RInv, RemovalInv, NoObject, NoObjectOutlivesItsRow
<1> QED BY <1>1, <1>2, InvInit, InvNext, RInvNext, PTL DEF Spec

\* A Delete that was answered 204 is final for every reader, retry and late
\* command.
THEOREM AnsweredDeletesAreFinal == Spec => []AnsweredDeleteIsFinal
<1>1. Init => RInv
  BY CallsAssumption DEF Init, RInv, RemovalInv, AfterRemoval, NoObject, LateFor, Calls
<1>2. Inv /\ RInv => AnsweredDeleteIsFinal
  BY DEF Inv, TypeOK, RInv, RemovalInv, NoObject, AnsweredDeleteIsFinal
<1> QED BY <1>1, <1>2, InvInit, InvNext, RInvNext, PTL DEF Spec
=============================================================================
