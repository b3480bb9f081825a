------------------------- MODULE MessageFilesProofs -------------------------
(***************************************************************************)
(* For any number of calls, files and files per message: a saved message   *)
(* is whole, a message that somebody was told of keeps its files, and a    *)
(* stored file without a message has a cause. For any number of readers:   *)
(* what is streamed belongs to a saved message of the reader's chat, and a *)
(* 404 is never the answer for a file that somebody was told of.           *)
(*                                                                         *)
(* None is inductive: what a commit will make visible is decided by the    *)
(* rows that the call wrote before, and whose files a Delete takes by who  *)
(* uploaded them. CallInv follows a call from its first upload to its end. *)
(* The verdict on a reader's access is used long after it was given, and   *)
(* stays true because of CallInv: the rows of a saved message do not       *)
(* change, and a file is asked to be deleted only by a call that           *)
(* compensates.                                                            *)
(***************************************************************************)
EXTENDS FileDownloads, FiniteSetTheorems, TLAPS

-----------------------------------------------------------------------------
(***************************************************************************)
(* Sending: FileMessages.                                                  *)
(***************************************************************************)

\* The files of two calls are different files.
FilesDisjoint ==
    \A s, t \in Senders : s # t => uploaded[s] \cap uploaded[t] = {}

Whole(s) == attached[s] = uploaded[s] /\ Cardinality(uploaded[s]) = want[s]

\* What holds of a call at each of its stages.
CallInv(s) ==
    /\ IsFiniteSet(uploaded[s])
    /\ pc[s] \in {"new", "upload"} =>
          attached[s] = {} /\ Cardinality(uploaded[s]) < want[s]
    /\ pc[s] = "insert" =>
          attached[s] \cup todo[s] = uploaded[s] /\ Cardinality(uploaded[s]) = want[s]
    /\ pc[s] \in {"commit", "announce", "done"} => Whole(s)
    /\ s \in saved \cup late =>
          Whole(s) /\ pc[s] \notin {"new", "upload", "insert", "commit"}
    /\ pc[s] \in {"announce", "done"} => s \in saved
    /\ s \in told => pc[s] = "done"
    /\ uploaded[s] \cap asked # {} => pc[s] \in {"undo", "deleting", "failed", "crashed"}

Inv ==
    /\ TypeOK
    /\ KnownIsStored
    /\ FilesDisjoint
    /\ \A s \in Senders : CallInv(s)

-----------------------------------------------------------------------------
\* What a step of the call s leaves alone.
Frame(s) ==
    /\ \A t \in Senders \ {s} :
          /\ pc'[t] = pc[t] /\ uploaded'[t] = uploaded[t]
          /\ todo'[t] = todo[t] /\ attached'[t] = attached[t]
          /\ t \in saved' <=> t \in saved
          /\ t \in late' <=> t \in late
          /\ t \in told' <=> t \in told
    /\ want' = want
    /\ asked' \subseteq asked \cup uploaded[s]

\* Every step of the store keeps what FileStore promises.
LEMMA StoreStep ==
    ASSUME StoreTypeOK, KnownIsStored, [StoreNext]_store
    PROVE  StoreTypeOK' /\ KnownIsStored'
BY DEF StoreTypeOK, KnownIsStored, StoreNext, store, Unanswered, HandOut, AskRemoval, Remove,
       FileStates

\* What a file can be is a promise of the store, for every caller of it.
THEOREM StoreKeepsKnownFiles == StoreSpec => []KnownIsStored
<1>1. StoreInit => StoreTypeOK /\ KnownIsStored
  BY DEF StoreInit, StoreTypeOK, KnownIsStored, FileStates
<1>2. StoreTypeOK /\ KnownIsStored /\ [StoreNext]_store => StoreTypeOK' /\ KnownIsStored'
  BY StoreStep
<1> QED BY <1>1, <1>2, PTL DEF StoreSpec

\* The invariant of a call that a step does not belong to.
LEMMA OtherCall ==
    ASSUME FilesDisjoint, NEW s \in Senders, NEW t \in Senders \ {s}, CallInv(t), Frame(s)
    PROVE  CallInv(t)'
BY DEF CallInv, Frame, Whole, FilesDisjoint

-----------------------------------------------------------------------------
(***************************************************************************)
(* The steps of a call that leave the store and what was uploaded alone.   *)
(***************************************************************************)

StoreUntouched(s) ==
    \/ Check(s) \/ (\E f \in Files : SendFile(s, f)) \/ UploadFails(s)
    \/ InsertRows(s) \/ InsertFails(s) \/ Commit(s) \/ CommitFails(s) \/ CommitsLate(s)
    \/ Announce(s) \/ DeleteAnswers(s) \/ SkipDeletes(s) \/ Fail(s) \/ Disconnect(s)

LEMMA LocalStep ==
    ASSUME Inv, NEW s \in Senders, StoreUntouched(s)
    PROVE  Inv'
<1> SUFFICES ASSUME TypeOK, CallInv(s) PROVE TypeOK' /\ Frame(s) /\ CallInv(s)' /\ UNCHANGED <<store, uploaded>>
  <2>1. TypeOK' /\ Frame(s) /\ CallInv(s)' /\ UNCHANGED <<store, uploaded>>
    BY DEF Inv
  <2>2. \A t \in Senders : CallInv(t)'
    BY <2>1, OtherCall DEF Inv
  <2>3. KnownIsStored' /\ FilesDisjoint'
    BY <2>1 DEF Inv, KnownIsStored, FilesDisjoint, store
  <2> QED BY <2>1, <2>2, <2>3 DEF Inv
<1> USE DEF TypeOK, StoreTypeOK, Running, Frame, CallInv, Whole, store, calls, tables, ghosts, Goto, Compensate
<1>1. CASE Check(s)
  BY <1>1 DEF Check
<1>2. CASE UploadFails(s)
  BY <1>2 DEF UploadFails
<1>3. CASE InsertRows(s)
  <2>1. CASE todo[s] = {}
    BY <1>3, <2>1 DEF InsertRows
  <2>2. CASE todo[s] # {}
    <3>1. PICK f \in todo[s] :
            /\ attached' = [attached EXCEPT ![s] = @ \cup {f}]
            /\ todo' = [todo EXCEPT ![s] = @ \ {f}]
      BY <1>3, <2>2 DEF InsertRows
    <3>2. UNCHANGED <<store, pc, live, want, sent, uploaded, saved, late, ghosts>>
      BY <1>3, <2>2 DEF InsertRows
    <3>3. TypeOK' /\ Frame(s) /\ UNCHANGED <<store, uploaded>>
      BY <3>1, <3>2
    <3>4. pc[s] = "insert" /\ attached'[s] = attached[s] \cup {f} /\ todo'[s] = todo[s] \ {f}
      BY <1>3, <3>1 DEF InsertRows
    <3>5. CallInv(s)'
      BY <3>1, <3>2, <3>4
    <3> QED BY <3>3, <3>5
  <2> QED BY <2>1, <2>2
<1>4. CASE InsertFails(s)
  BY <1>4 DEF InsertFails
<1>5. CASE Commit(s)
  BY <1>5 DEF Commit
<1>6. CASE CommitFails(s)
  BY <1>6 DEF CommitFails
<1>7. CASE CommitsLate(s)
  BY <1>7 DEF CommitsLate
<1>8. CASE Announce(s)
  BY <1>8 DEF Announce
<1>9. CASE DeleteAnswers(s)
  BY <1>9 DEF DeleteAnswers
<1>10. CASE SkipDeletes(s)
  BY <1>10 DEF SkipDeletes
<1>11. CASE Fail(s)
  BY <1>11 DEF Fail
<1>12. CASE Disconnect(s)
  BY <1>12 DEF Disconnect
<1>13. CASE \E f \in Files : SendFile(s, f)
  BY <1>13 DEF SendFile
<1> QED BY <1>1, <1>2, <1>3, <1>4, <1>5, <1>6, <1>7, <1>8, <1>9, <1>10, <1>11, <1>12, <1>13
        DEF StoreUntouched

-----------------------------------------------------------------------------
(***************************************************************************)
(* The steps that touch the store.                                         *)
(***************************************************************************)

\* An upload adds a file that no call had before.
LEMMA UploadKeepsInv ==
    ASSUME Inv, NEW s \in Senders, NEW f \in Files, UploadFile(s, f)
    PROVE  Inv'
<1> USE DEF TypeOK, StoreTypeOK, Goto, HandOut
<1>1. /\ pc[s] = "upload" /\ f \in sent[s] /\ f \notin known /\ known' = known \cup {f} /\ UNCHANGED asked
      /\ uploaded' = [uploaded EXCEPT ![s] = @ \cup {f}]
      /\ UNCHANGED <<live, want, sent, tables, ghosts>>
  BY DEF UploadFile
<1>2. /\ IsFiniteSet(uploaded[s]) /\ Cardinality(uploaded[s]) < want[s] /\ f \notin uploaded[s]
      /\ attached[s] = {} /\ want[s] \in Nat
  BY <1>1, MaxFilesAssumption DEF Inv, CallInv
<1>3. /\ uploaded'[s] = uploaded[s] \cup {f} /\ IsFiniteSet(uploaded'[s])
      /\ Cardinality(uploaded'[s]) = Cardinality(uploaded[s]) + 1
      /\ Cardinality(uploaded[s]) \in Nat
  BY <1>1, <1>2, FS_AddElement, FS_CardinalityType DEF Inv
<1>4. \/ /\ Cardinality(uploaded'[s]) < want[s] /\ UNCHANGED <<pc, todo>>
      \/ /\ Cardinality(uploaded'[s]) = want[s] /\ pc' = [pc EXCEPT ![s] = "insert"]
         /\ todo' = [todo EXCEPT ![s] = uploaded'[s]]
  BY <1>2, <1>3 DEF UploadFile
<1>5. StoreTypeOK' /\ KnownIsStored'
  BY StoreStep DEF Inv, UploadFile, StoreNext
<1>6. TypeOK'
  <2>1. \A t \in Senders \ {s} :
           /\ uploaded'[t] = uploaded[t] /\ todo'[t] = todo[t] /\ attached'[t] = attached[t]
    BY <1>1, <1>4 DEF Inv, tables
  <2>2. \A t \in Senders :
           /\ todo'[t] \cup attached'[t] \subseteq uploaded'[t]
           /\ uploaded'[t] \subseteq sent'[t]
           /\ Cardinality(uploaded'[t]) <= want'[t]
    BY <1>1, <1>2, <1>3, <1>4, <2>1 DEF Inv, tables
  <2> QED BY <1>1, <1>3, <1>4, <1>5, <2>2 DEF Inv, tables, ghosts, Running
<1>7. Frame(s)
  BY <1>1, <1>4 DEF Inv, Frame, tables, ghosts
<1>8. CallInv(s)'
  BY <1>1, <1>2, <1>3, <1>4 DEF Inv, CallInv, Whole, tables, ghosts
<1>9. FilesDisjoint'
  BY <1>1 DEF Inv, FilesDisjoint
<1>10. \A t \in Senders : CallInv(t)'
  BY <1>7, <1>8, OtherCall DEF Inv
<1> QED BY <1>5, <1>6, <1>9, <1>10 DEF Inv

\* A deletion is asked for a file of the call that compensates.
LEMMA AskKeepsInv ==
    ASSUME Inv, NEW s \in Senders, NEW f \in Files, AskDelete(s, f)
    PROVE  Inv'
<1> USE DEF TypeOK, Goto, AskRemoval, AskDelete
<1>1. StoreTypeOK' /\ KnownIsStored'
  BY StoreStep DEF Inv, StoreNext
<1>2. f \in uploaded[s]
  BY DEF Inv
<1>3. TypeOK'
  BY <1>1 DEF Inv, tables, ghosts, Running
<1>4. Frame(s)
  BY <1>2 DEF Inv, Frame, tables, ghosts
<1>5. CallInv(s)'
  BY DEF Inv, CallInv, Whole, tables, ghosts
<1>6. \A t \in Senders : CallInv(t)'
  BY <1>4, <1>5, OtherCall DEF Inv
<1>7. FilesDisjoint'
  BY DEF Inv, FilesDisjoint
<1> QED BY <1>1, <1>3, <1>6, <1>7 DEF Inv

\* A crash ends the calls; a COMMIT it cuts off is one of a whole message.
LEMMA CrashKeepsInv ==
    ASSUME Inv, Crash
    PROVE  Inv'
<1>1. PICK S \in SUBSET {s \in Senders : pc[s] = "commit"} : late' = late \cup S
  BY DEF Crash
<1>2. /\ UNCHANGED <<store, live, want, sent, uploaded, todo, attached, saved, ghosts>>
      /\ pc' = [s \in Senders |-> IF pc[s] \in Running THEN "crashed" ELSE pc[s]]
  BY DEF Crash
<1>3. TypeOK'
  BY <1>1, <1>2 DEF Inv, TypeOK, StoreTypeOK, store, ghosts
<1>4. KnownIsStored' /\ FilesDisjoint'
  BY <1>2 DEF Inv, KnownIsStored, FilesDisjoint, store
<1>5. \A s \in Senders : CallInv(s)'
  BY <1>1, <1>2 DEF Inv, CallInv, Whole, store, ghosts, Running
<1> QED BY <1>3, <1>4, <1>5 DEF Inv

\* What the file service does on its own changes no call.
LEMMA ServiceKeepsInv ==
    ASSUME Inv, FileServiceStep
    PROVE  Inv'
<1>1. StoreNext /\ UNCHANGED <<known, asked, calls, tables, ghosts>>
  BY DEF Inv, TypeOK, FileServiceStep, StoreNext, Unanswered, Remove
<1>2. StoreTypeOK' /\ KnownIsStored'
  BY <1>1, StoreStep DEF Inv, TypeOK
<1>3. TypeOK'
  BY <1>1, <1>2 DEF Inv, TypeOK, calls, tables, ghosts
<1>4. FilesDisjoint' /\ \A s \in Senders : CallInv(s)'
  BY <1>1 DEF Inv, FilesDisjoint, CallInv, Whole, calls, tables, ghosts
<1> QED BY <1>2, <1>3, <1>4 DEF Inv

\* The invariant is inductive.
LEMMA InvNext ==
    ASSUME Inv, [Next]_vars
    PROVE  Inv'
<1>1. ASSUME NEW s \in Senders, SendFileMessage(s) \/ CommitsLate(s) \/ Disconnect(s) PROVE Inv'
  <2>1. CASE \E f \in Files : UploadFile(s, f)
    BY <2>1, UploadKeepsInv
  <2>2. CASE \E f \in Files : AskDelete(s, f)
    BY <2>2, AskKeepsInv
  <2>3. CASE StoreUntouched(s)
    BY <2>3, LocalStep
  <2> QED BY <1>1, <2>1, <2>2, <2>3
          DEF SendFileMessage, CreateFileMessage, CompensateUploadedFiles, StoreUntouched
<1>2. CASE UNCHANGED vars
  BY <1>2 DEF Inv, TypeOK, StoreTypeOK, KnownIsStored, FilesDisjoint, CallInv, Whole, vars, store,
              calls, tables, ghosts
<1> QED BY <1>1, <1>2, CrashKeepsInv, ServiceKeepsInv DEF Next

\* The invariant holds at the start.
LEMMA InvInit == Init => Inv
<1> SUFFICES ASSUME Init PROVE Inv
  OBVIOUS
<1>1. IsFiniteSet({}) /\ Cardinality({}) = 0
  BY FS_EmptySet
<1>2. StoreTypeOK /\ KnownIsStored
  BY DEF Init, StoreInit, StoreTypeOK, KnownIsStored, FileStates
<1>3. TypeOK
  BY <1>1, <1>2, MaxFilesAssumption DEF Init, TypeOK, StoreInit
<1>4. FilesDisjoint /\ \A s \in Senders : CallInv(s)
  BY <1>1, MaxFilesAssumption DEF Init, StoreInit, FilesDisjoint, CallInv, Whole
<1> QED BY <1>2, <1>3, <1>4 DEF Inv

-----------------------------------------------------------------------------
(***************************************************************************)
(* What compensation has still to do, or has a reason for not doing.       *)
(***************************************************************************)

Accounted(s, f) ==
    \/ f \in todo[s]
    \/ file[f] # "stored"
    \/ s \notin live
    \/ f \in refused

OrphanInv(s) ==
    /\ pc[s] = "new" => uploaded[s] = {}
    /\ pc[s] = "failed" => todo[s] = {}
    /\ pc[s] \in {"undo", "deleting", "failed"} => \A f \in uploaded[s] : Accounted(s, f)

\* The file service has only what somebody sent.
SentFirst == \A f \in Files : file[f] # "absent" => \E s \in Senders : f \in sent[s]

CInv == Inv /\ SentFirst /\ \A s \in Senders : OrphanInv(s)

\* A file that was handed out and is gone stays gone, and a Delete that failed
\* has failed.
Settled ==
    /\ known \subseteq known'
    /\ refused \subseteq refused'
    /\ \A f \in known : file[f] # "stored" => file'[f] # "stored"

\* What a step of the call s leaves alone of the other calls.
OrphanFrame(s) ==
    \A t \in Senders \ {s} :
        /\ pc'[t] = pc[t] /\ uploaded'[t] = uploaded[t] /\ todo'[t] = todo[t]
        /\ t \in live' <=> t \in live

LEMMA OtherOrphans ==
    ASSUME CInv, NEW s \in Senders, Settled, OrphanFrame(s)
    PROVE  \A t \in Senders \ {s} : OrphanInv(t)'
BY DEF CInv, Inv, TypeOK, OrphanInv, Accounted, Settled, OrphanFrame

LEMMA CallOrphans ==
    ASSUME CInv, NEW s \in Senders, SendFileMessage(s) \/ CommitsLate(s) \/ Disconnect(s)
    PROVE  \A t \in Senders : OrphanInv(t)'
<1> SUFFICES Settled /\ OrphanFrame(s) /\ OrphanInv(s)'
  BY OtherOrphans
<1> USE DEF CInv, Inv, TypeOK, StoreTypeOK, Settled, OrphanFrame, OrphanInv, Accounted, store, calls,
            tables, ghosts, Goto, Compensate
<1>1. CASE Check(s)
  BY <1>1 DEF Check
<1>2. CASE \E f \in Files : UploadFile(s, f)
  <2>1. PICK f \in Files : UploadFile(s, f)
    BY <1>2
  <2>2. /\ pc[s] = "upload" /\ HandOut(f) /\ uploaded' = [uploaded EXCEPT ![s] = @ \cup {f}]
        /\ UNCHANGED <<live, refused>>
    BY <2>1 DEF UploadFile
  <2>3. \/ UNCHANGED <<pc, todo>>
        \/ pc' = [pc EXCEPT ![s] = "insert"] /\ todo' = [todo EXCEPT ![s] = uploaded'[s]]
    BY <2>1 DEF UploadFile
  <2> QED BY <2>2, <2>3 DEF HandOut
<1>3. CASE UploadFails(s)
  BY <1>3 DEF UploadFails
<1>4. CASE InsertRows(s)
  <2>1. CASE todo[s] = {}
    BY <1>4, <2>1 DEF InsertRows
  <2>2. CASE todo[s] # {}
    <3>1. PICK f \in todo[s] : todo' = [todo EXCEPT ![s] = @ \ {f}]
      BY <1>4, <2>2 DEF InsertRows
    <3> QED BY <1>4, <2>2, <3>1 DEF InsertRows
  <2> QED BY <2>1, <2>2
<1>5. CASE InsertFails(s) \/ Commit(s) \/ CommitFails(s) \/ CommitsLate(s)
  BY <1>5 DEF InsertFails, Commit, CommitFails, CommitsLate
<1>6. CASE Announce(s)
  BY <1>6 DEF Announce
<1>7. CASE \E f \in Files : AskDelete(s, f)
  BY <1>7 DEF AskDelete, AskRemoval
<1>8. CASE DeleteAnswers(s)
  <2>1. PICK f \in todo[s] \cap asked :
          /\ \/ file[f] = "gone" /\ UNCHANGED refused
             \/ refused' = refused \cup {f}
          /\ todo' = [todo EXCEPT ![s] = @ \ {f}]
    BY <1>8 DEF DeleteAnswers
  <2> QED BY <1>8, <2>1 DEF DeleteAnswers
<1>9. CASE SkipDeletes(s)
  BY <1>9 DEF SkipDeletes
<1>10. CASE Fail(s)
  BY <1>10 DEF Fail
<1>11. CASE Disconnect(s)
  BY <1>11 DEF Disconnect
<1>12. CASE \E f \in Files : SendFile(s, f)
  BY <1>12 DEF SendFile
<1> QED BY <1>1, <1>2, <1>3, <1>4, <1>5, <1>6, <1>7, <1>8, <1>9, <1>10, <1>11, <1>12
        DEF SendFileMessage, CreateFileMessage, CompensateUploadedFiles

\* Only the file service changes a file, and what was sent stays sent.
LEMMA SentBefore ==
    ASSUME CInv, [Next]_vars
    PROVE  SentFirst'
<1> USE DEF CInv, Inv, TypeOK, StoreTypeOK, SentFirst, store, calls, tables, ghosts
<1>1. ASSUME NEW s \in Senders, SendFileMessage(s) \/ CommitsLate(s) \/ Disconnect(s) PROVE SentFirst'
  <2>1. CASE \E f \in Files : SendFile(s, f)
    BY <2>1 DEF SendFile
  <2>2. CASE \E f \in Files : UploadFile(s, f) \/ AskDelete(s, f)
    BY <2>2 DEF UploadFile, AskDelete, HandOut, AskRemoval
  <2>3. CASE Check(s) \/ UploadFails(s) \/ CreateFileMessage(s) \/ Announce(s) \/ CommitsLate(s)
    <3>1. UNCHANGED <<file, sent>>
      BY <2>3 DEF Check, UploadFails, CreateFileMessage, InsertRows, InsertFails, Commit,
                  CommitFails, CommitsLate, Announce
    <3> QED BY <3>1
  <2>4. CASE DeleteAnswers(s) \/ SkipDeletes(s) \/ Fail(s) \/ Disconnect(s)
    BY <2>4 DEF DeleteAnswers, SkipDeletes, Fail, Disconnect
  <2> QED BY <1>1, <2>1, <2>2, <2>3, <2>4 DEF SendFileMessage, CompensateUploadedFiles
<1>2. CASE Crash
  BY <1>2 DEF Crash
<1>3. CASE FileServiceStep
  BY <1>3 DEF FileServiceStep, Unanswered, Remove
<1>4. CASE UNCHANGED vars
  BY <1>4 DEF vars
<1> QED BY <1>1, <1>2, <1>3, <1>4 DEF Next

LEMMA CInvNext ==
    ASSUME CInv, [Next]_vars
    PROVE  CInv'
<1>1. Inv' /\ SentFirst'
  BY InvNext, SentBefore DEF CInv
<1>2. CASE \E s \in Senders : SendFileMessage(s) \/ CommitsLate(s) \/ Disconnect(s)
  BY <1>1, <1>2, CallOrphans DEF CInv
<1>3. CASE Crash
  <2>1. /\ pc' = [s \in Senders |-> IF pc[s] \in Running THEN "crashed" ELSE pc[s]]
        /\ UNCHANGED <<store, live, uploaded, todo, ghosts>>
    BY <1>3 DEF Crash
  <2>2. \A s \in Senders : OrphanInv(s)'
    BY <2>1 DEF CInv, OrphanInv, Accounted, Running, store, ghosts
  <2> QED BY <1>1, <2>2 DEF CInv
<1>4. CASE FileServiceStep
  <2>1. Settled /\ UNCHANGED <<calls, ghosts>>
    BY <1>4 DEF FileServiceStep, Unanswered, Remove, Settled, CInv, Inv, TypeOK, StoreTypeOK, ghosts
  <2>2. \A s \in Senders : OrphanInv(s)'
    BY <2>1 DEF CInv, Inv, TypeOK, OrphanInv, Accounted, Settled, calls, ghosts
  <2> QED BY <1>1, <2>2 DEF CInv
<1>5. CASE UNCHANGED vars
  BY <1>1, <1>5 DEF CInv, OrphanInv, Accounted, vars, store, calls, ghosts
<1> QED BY <1>1, <1>2, <1>3, <1>4, <1>5 DEF Next, CInv

-----------------------------------------------------------------------------
\* No call uploads more files than its request carries, and it attaches and
\* deletes only files that it has uploaded.
THEOREM FileMessagesTypeCorrect == Spec => []TypeOK
<1>1. Inv => TypeOK
  BY DEF Inv
<1> QED BY <1>1, InvInit, InvNext, PTL DEF Spec

\* A message is saved with all its files or not at all, and nobody is told of
\* one that is not saved, however its transaction ends.
THEOREM MessagesAreWhole == Spec => []SavedMessageIsWhole
<1>1. Inv => SavedMessageIsWhole
  BY DEF Inv, TypeOK, CallInv, Whole, SavedMessageIsWhole
<1> QED BY <1>1, InvInit, InvNext, PTL DEF Spec

\* Compensation, wherever it fails or stops, never takes a file of a message
\* that somebody was told of.
THEOREM AnnouncedFilesStay == Spec => []ToldFilesAreStored
<1>1. Inv => ToldFilesAreStored
  BY DEF Inv, TypeOK, CallInv, Whole, KnownIsStored, ToldFilesAreStored
<1> QED BY <1>1, InvInit, InvNext, PTL DEF Spec

\* Every stored file belongs to a message or a running call, or has a cause: a
\* crash, an upload whose answer was lost, a cut-off request, or a deletion of it
\* that was answered by an error.
THEOREM OrphansAreExplained == Spec => []OrphansHaveACause
<1>1. Init => CInv
  BY InvInit DEF Init, StoreInit, CInv, SentFirst, OrphanInv
<1>2. CInv => OrphansHaveACause
  <2> SUFFICES ASSUME CInv, NEW f \in Files, file[f] = "stored"
               PROVE  \E s \in Senders :
                         /\ f \in sent[s]
                         /\ \/ s \in saved /\ f \in attached[s]
                            \/ pc[s] \in Running \cup {"crashed"}
                            \/ f \notin uploaded[s]
                            \/ s \notin live
                            \/ f \in refused
    BY DEF OrphansHaveACause
  <2>1. PICK s \in Senders : f \in sent[s]
    BY DEF CInv, SentFirst
  <2>2. CASE f \in uploaded[s]
    BY <2>1, <2>2 DEF CInv, Inv, TypeOK, CallInv, Whole, OrphanInv, Accounted, Running
  <2> QED BY <2>1, <2>2
<1> QED BY <1>1, <1>2, CInvNext, PTL DEF Spec

-----------------------------------------------------------------------------
(***************************************************************************)
(* Reading: FileDownloads.                                                 *)
(***************************************************************************)

\* What the gateway has been told of the file of a request.
Admitted == {"allowed", "row", "object", "stream", "notFound"}

OfSavedMessage(f) == \E s \in saved : f \in attached[s]

ReaderInv(r) ==
    /\ reading[r] \in Admitted => r \in member /\ OfSavedMessage(wanted[r])
    /\ reading[r] = "notFound" => wanted[r] \in asked

DInv ==
    /\ Inv
    /\ ReadersTypeOK
    /\ \A r \in Readers : ReaderInv(r)

-----------------------------------------------------------------------------
(***************************************************************************)
(* The steps of FileMessages.                                              *)
(***************************************************************************)

\* No step takes a message back, or a request to delete a file.
LEMMA MessagesOnlyGrow ==
    ASSUME Inv, Next
    PROVE  saved \subseteq saved' /\ asked \subseteq asked'
<1> USE DEF calls, tables, ghosts, store
<1>1. ASSUME NEW s \in Senders, SendFileMessage(s) PROVE saved \subseteq saved' /\ asked \subseteq asked'
  <2>1. CASE \E f \in Files : UploadFile(s, f)
    BY <2>1 DEF UploadFile, HandOut
  <2>2. CASE \E f \in Files : AskDelete(s, f)
    BY <2>2 DEF AskDelete, AskRemoval
  <2>3. CASE StoreUntouched(s)
    BY <2>3 DEF StoreUntouched, Check, SendFile, UploadFails, InsertRows, InsertFails, Commit, CommitFails,
                CommitsLate, Announce, DeleteAnswers, SkipDeletes, Fail, Disconnect
  <2> QED BY <1>1, <2>1, <2>2, <2>3
          DEF SendFileMessage, CreateFileMessage, CompensateUploadedFiles, StoreUntouched
<1>2. ASSUME NEW s \in Senders, CommitsLate(s) \/ Disconnect(s) PROVE saved \subseteq saved' /\ asked \subseteq asked'
  BY <1>2 DEF CommitsLate, Disconnect
<1>3. CASE Crash
  BY <1>3 DEF Crash
<1>4. CASE FileServiceStep
  BY <1>4 DEF FileServiceStep, Unanswered, Remove
<1> QED BY <1>1, <1>2, <1>3, <1>4 DEF Next

\* The attachments of a saved message are never touched again.
LEMMA SavedRowsStay ==
    ASSUME Inv, Next, NEW s \in saved
    PROVE  attached'[s] = attached[s]
<1> USE DEF calls, tables, ghosts, store
<1>1. s \in Senders /\ pc[s] # "insert" /\ attached \in [Senders -> SUBSET known]
  BY DEF Inv, TypeOK, CallInv
<1>2. ASSUME NEW t \in Senders, SendFileMessage(t) PROVE attached'[s] = attached[s]
  <2>1. CASE InsertRows(t)
    <3>1. pc[t] = "insert"
      BY <2>1 DEF InsertRows
    <3>2. CASE todo[t] = {}
      BY <2>1, <3>2 DEF InsertRows
    <3>3. CASE todo[t] # {}
      <4>1. PICK f \in todo[t] : attached' = [attached EXCEPT ![t] = @ \cup {f}]
        BY <2>1, <3>3 DEF InsertRows
      <4> QED BY <1>1, <3>1, <4>1
    <3> QED BY <3>2, <3>3
  <2>2. CASE InsertFails(t)
    BY <1>1, <2>2 DEF InsertFails
  <2>3. CASE \E f \in Files : SendFile(t, f) \/ UploadFile(t, f) \/ AskDelete(t, f)
    BY <2>3 DEF SendFile, UploadFile, AskDelete
  <2>4. CASE Check(t) \/ UploadFails(t) \/ Commit(t) \/ CommitFails(t) \/ Announce(t)
    BY <2>4 DEF Check, UploadFails, Commit, CommitFails, Announce
  <2>5. CASE DeleteAnswers(t) \/ SkipDeletes(t) \/ Fail(t)
    BY <2>5 DEF DeleteAnswers, SkipDeletes, Fail
  <2> QED BY <1>2, <2>1, <2>2, <2>3, <2>4, <2>5
          DEF SendFileMessage, CreateFileMessage, CompensateUploadedFiles
<1>3. ASSUME NEW t \in Senders, CommitsLate(t) \/ Disconnect(t) PROVE attached'[s] = attached[s]
  BY <1>3 DEF CommitsLate, Disconnect
<1>4. CASE Crash
  BY <1>4 DEF Crash
<1>5. CASE FileServiceStep
  BY <1>5 DEF FileServiceStep
<1> QED BY <1>2, <1>3, <1>4, <1>5 DEF Next

\* A verdict on access outlives every step of the message service.
LEMMA VerdictStays ==
    ASSUME Inv, Next, NEW f, OfSavedMessage(f)
    PROVE  OfSavedMessage(f)'
<1>1. PICK s \in saved : f \in attached[s]
  BY DEF OfSavedMessage
<1>2. s \in saved' /\ f \in attached'[s]
  BY <1>1, MessagesOnlyGrow, SavedRowsStay
<1> QED BY <1>2 DEF OfSavedMessage

LEMMA MessageStep ==
    ASSUME DInv, Next, UNCHANGED readers
    PROVE  DInv'
<1>1. Inv'
  BY InvNext DEF DInv
<1>2. ReadersTypeOK'
  BY DEF DInv, ReadersTypeOK, readers
<1>3. ASSUME NEW r \in Readers PROVE ReaderInv(r)'
  <2>1. reading'[r] = reading[r] /\ wanted'[r] = wanted[r] /\ member' = member
    BY DEF readers
  <2>2. ReaderInv(r)
    BY DEF DInv
  <2>3. PICK f \in Files \cup {NoFile} : f = wanted[r]
    BY DEF DInv, ReadersTypeOK
  <2>4. reading[r] \in Admitted => OfSavedMessage(f)
    BY <2>2, <2>3 DEF ReaderInv
  <2>5. reading[r] \in Admitted => OfSavedMessage(f)'
    BY <2>4, VerdictStays DEF DInv
  <2>6. wanted'[r] = f /\ asked \subseteq asked'
    BY <2>1, <2>3, MessagesOnlyGrow DEF DInv
  <2> QED BY <2>1, <2>2, <2>5, <2>6 DEF ReaderInv, OfSavedMessage
<1> QED BY <1>1, <1>2, <1>3 DEF DInv

-----------------------------------------------------------------------------
(***************************************************************************)
(* The steps of a request.                                                 *)
(***************************************************************************)

\* A file of a saved message that is not stored was asked to be deleted.
LEMMA MissingWasAsked ==
    ASSUME Inv, NEW f, OfSavedMessage(f), file[f] # "stored"
    PROVE  f \in asked
BY DEF Inv, TypeOK, OfSavedMessage, KnownIsStored

\* The state of one request changes, and the new state is justified.
LEMMA BecomesKeepsInv ==
    ASSUME DInv, NEW r \in Readers, NEW state \in ReadingStates \ {"none"},
           reading[r] # "none", Becomes(r, state),
           state \in Admitted => r \in member /\ OfSavedMessage(wanted[r]),
           state = "notFound" => wanted[r] \in asked
    PROVE  DInv'
<1> USE DEF Becomes, ReadersTypeOK
<1>1. Inv'
  <2>1. UNCHANGED vars
    OBVIOUS
  <2> QED BY <2>1, InvNext DEF DInv
<1>2. ReadersTypeOK'
  BY DEF DInv
<1>3. ASSUME NEW q \in Readers PROVE ReaderInv(q)'
  BY DEF DInv, ReaderInv, OfSavedMessage, vars, store, calls, tables
<1> QED BY <1>1, <1>2, <1>3 DEF DInv

LEMMA EndsKeepsInv ==
    ASSUME DInv, NEW r \in Readers, Ends(r)
    PROVE  DInv'
<1> USE DEF Ends, ReadersTypeOK
<1>1. Inv'
  BY InvNext DEF DInv
<1>2. ReadersTypeOK'
  BY NoFileAssumption DEF DInv, ReadingStates
<1>3. ASSUME NEW q \in Readers PROVE ReaderInv(q)'
  BY DEF DInv, ReaderInv, OfSavedMessage, vars, store, calls, tables, Admitted
<1> QED BY <1>1, <1>2, <1>3 DEF DInv

LEMMA JoinKeepsInv ==
    ASSUME DInv, NEW r \in Readers, Join(r)
    PROVE  DInv'
<1> USE DEF Join, ReadersTypeOK
<1>1. Inv'
  BY InvNext DEF DInv
<1>2. ReadersTypeOK'
  BY DEF DInv
<1>3. ASSUME NEW q \in Readers PROVE ReaderInv(q)'
  BY DEF DInv, ReaderInv, OfSavedMessage, vars, store, calls, tables
<1> QED BY <1>1, <1>2, <1>3 DEF DInv

LEMMA RequestKeepsInv ==
    ASSUME DInv, NEW r \in Readers, ContentFile(r)
    PROVE  DInv'
<1> USE DEF ContentFile, ReadersTypeOK
<1>1. Inv'
  BY InvNext DEF DInv
<1>2. PICK f \in Files : wanted' = [wanted EXCEPT ![r] = f]
  OBVIOUS
<1>3. ReadersTypeOK'
  BY <1>2, NoFileAssumption DEF DInv, ReadingStates
<1>4. ASSUME NEW q \in Readers PROVE ReaderInv(q)'
  BY <1>2 DEF DInv, ReaderInv, OfSavedMessage, vars, store, calls, tables, Admitted
<1> QED BY <1>1, <1>3, <1>4 DEF DInv

LEMMA ReadStep ==
    ASSUME DInv, NEW r \in Readers, Read(r)
    PROVE  DInv'
<1> USE DEF ReadingStates, Admitted
<1>1. CASE CheckFileAccess(r)
  <2>1. reading[r] = "access" /\ Becomes(r, "allowed") /\ r \in member /\ OfSavedMessage(wanted[r])
    BY <1>1 DEF CheckFileAccess, UserHasAccessToFile, OfSavedMessage
  <2> QED BY <2>1, BecomesKeepsInv
<1>2. CASE CanAccessFile(r)
  <2>1. r \in member /\ OfSavedMessage(wanted[r])
    BY <1>2 DEF CanAccessFile, DInv, ReaderInv
  <2> QED BY <1>2, <2>1, BecomesKeepsInv DEF CanAccessFile
<1>3. CASE GetByID(r)
  <2>1. reading[r] = "row" /\ r \in member /\ OfSavedMessage(wanted[r])
    BY <1>3 DEF GetByID, DInv, ReaderInv
  <2>2. CASE file[wanted[r]] = "stored"
    <3>1. Becomes(r, "object")
      BY <1>3, <2>2 DEF GetByID
    <3> QED BY <2>1, <3>1, BecomesKeepsInv
  <2>3. CASE file[wanted[r]] # "stored"
    <3>1. Becomes(r, "notFound")
      BY <1>3, <2>3 DEF GetByID
    <3>2. wanted[r] \in asked
      BY <2>1, <2>3, MissingWasAsked DEF DInv
    <3> QED BY <2>1, <3>1, <3>2, BecomesKeepsInv
  <2> QED BY <2>2, <2>3
<1>4. CASE GetObject(r)
  <2>1. reading[r] = "object" /\ r \in member /\ OfSavedMessage(wanted[r])
    BY <1>4 DEF GetObject, DInv, ReaderInv
  <2>2. CASE Becomes(r, "stream")
    BY <2>1, <2>2, BecomesKeepsInv
  <2>3. CASE file[wanted[r]] # "stored" /\ Becomes(r, "notFound")
    <3>1. wanted[r] \in asked
      BY <2>1, <2>3, MissingWasAsked DEF DInv
    <3> QED BY <2>1, <2>3, <3>1, BecomesKeepsInv
  <2> QED BY <1>4, <2>2, <2>3 DEF GetObject
<1>5. CASE Ends(r)
  BY <1>5, EndsKeepsInv
<1> QED BY <1>1, <1>2, <1>3, <1>4, <1>5, JoinKeepsInv, RequestKeepsInv
        DEF Read, EnsureFileAccess, ProxyFails, WriteFileResponse, NotFound

\* The invariant is inductive.
LEMMA DInvNext ==
    ASSUME DInv, [DNext]_allVars
    PROVE  DInv'
<1>1. CASE Next /\ UNCHANGED readers
  BY <1>1, MessageStep
<1>2. CASE \E r \in Readers : Read(r)
  BY <1>2, ReadStep
<1>3. CASE UNCHANGED allVars
  <2>1. Inv'
    BY <1>3, InvNext DEF DInv, allVars
  <2> QED BY <1>3, <2>1 DEF DInv, ReadersTypeOK, ReaderInv, OfSavedMessage, allVars, readers, vars,
                            store, tables
<1> QED BY <1>1, <1>2, <1>3 DEF DNext

LEMMA DInvInit == DInit => DInv
<1> SUFFICES ASSUME DInit PROVE DInv
  OBVIOUS
<1>1. Inv
  BY InvInit DEF DInit
<1>2. ReadersTypeOK /\ \A r \in Readers : ReaderInv(r)
  BY DEF DInit, ReadersTypeOK, ReadingStates, ReaderInv, Admitted
<1> QED BY <1>1, <1>2 DEF DInv

-----------------------------------------------------------------------------
\* What is streamed is a file of a committed message of the reader's chat, even
\* though access is checked before the row and the object are read.
THEOREM OnlyFilesOfMessages == DSpec => []ServedFileIsOfAMessage
<1>1. DInv => ServedFileIsOfAMessage
  BY DEF DInv, Inv, TypeOK, ReaderInv, Admitted, OfSavedMessage, ServedFileIsOfAMessage
<1> QED BY <1>1, DInvInit, DInvNext, PTL DEF DSpec

\* A 404 is the end only of a file whose message failed or was cut off.
THEOREM AnnouncedFilesAreServed == DSpec => []AnnouncedFileIsServed
<1>1. DInv => AnnouncedFileIsServed
  BY DEF DInv, Inv, TypeOK, CallInv, ReaderInv, AnnouncedFileIsServed
<1> QED BY <1>1, DInvInit, DInvNext, PTL DEF DSpec
=============================================================================
