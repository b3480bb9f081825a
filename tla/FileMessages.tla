---------------------------- MODULE FileMessages ----------------------------
(***************************************************************************)
(* SendFileMessage: the files of a message are uploaded one by one to the  *)
(* file service, then the message and its attachments are written in one   *)
(* transaction, then the message is fanned out and answered. On a failure  *)
(* the uploaded files are deleted again, under the context of the request, *)
(* which ends with the browser's connection.                               *)
(*                                                                         *)
(* The file service is the promise of FileStore, which FileService         *)
(* implements.                                                             *)
(***************************************************************************)
EXTENDS FileStore, Naturals, FiniteSets

CONSTANTS
    Senders,    \* calls of SendFileMessage that overlap
    MaxFiles    \* maxFilesPerMessage

ASSUME MaxFilesAssumption == MaxFiles \in Nat \ {0}

VARIABLES
    pc,         \* the next step of every call
    live,       \* calls whose request context is not done
    want,       \* how many files the request carries
    sent,       \* the files that were sent to the file service, answered or not
    uploaded,   \* uploadedFiles: the files the call has an identifier of
    todo,       \* files still to attach, or still to delete
    attached,   \* message_attachment: rows of the call's message
    saved,      \* message: calls whose message is committed
    late,       \* commits that were given up and may still take effect
    told,       \* calls whose message reached somebody: an event, or the 201
    refused     \* history: files with a Delete that answered an error

calls == <<pc, live, want, sent, uploaded, todo>>
tables == <<attached, saved, late>>
ghosts == <<told, refused>>
vars == <<store, calls, tables, ghosts>>

Running == {"upload", "insert", "commit", "announce", "undo", "deleting"}

\* An attachment is always a file that the call has uploaded, and a call never
\* uploads more files than its request carries.
TypeOK ==
    /\ StoreTypeOK
    /\ pc \in [Senders -> Running \cup {"new", "done", "failed", "crashed"}]
    /\ live \subseteq Senders
    /\ want \in [Senders -> 1 .. MaxFiles]
    /\ sent \in [Senders -> SUBSET Files]
    /\ uploaded \in [Senders -> SUBSET known]
    /\ todo \in [Senders -> SUBSET known]
    /\ attached \in [Senders -> SUBSET known]
    /\ \A s \in Senders :
          /\ todo[s] \cup attached[s] \subseteq uploaded[s]
          /\ uploaded[s] \subseteq sent[s]
          /\ Cardinality(uploaded[s]) <= want[s]
    /\ saved \cup late \cup told \subseteq Senders
    /\ refused \subseteq known

Init ==
    /\ StoreInit
    /\ pc = [s \in Senders |-> "new"]
    /\ live = Senders
    /\ want \in [Senders -> 1 .. MaxFiles]
    /\ sent = [s \in Senders |-> {}]
    /\ uploaded = [s \in Senders |-> {}]
    /\ todo = [s \in Senders |-> {}]
    /\ attached = [s \in Senders |-> {}]
    /\ saved = {}
    /\ late = {}
    /\ told = {}
    /\ refused = {}

Goto(s, state) == pc' = [pc EXCEPT ![s] = state]

\* compensateUploadedFiles is called with what was uploaded so far.
Compensate(s) ==
    /\ Goto(s, "undo")
    /\ todo' = [todo EXCEPT ![s] = uploaded[s]]

-----------------------------------------------------------------------------
\* Between one and maxFilesPerMessage files, a chat that exists and a sender
\* who is a member; otherwise an error.
Check(s) ==
    /\ pc[s] = "new"
    /\ \/ s \in live /\ Goto(s, "upload")
       \/ Goto(s, "failed")
    /\ UNCHANGED <<store, live, want, sent, uploaded, todo, tables, ghosts>>

\* The next file is sent. Until the answer comes, nobody knows its identifier.
SendFile(s, f) ==
    /\ pc[s] = "upload"
    /\ s \in live
    /\ sent[s] = uploaded[s]
    /\ file[f] = "absent"
    /\ \A t \in Senders : f \notin sent[t]
    /\ sent' = [sent EXCEPT ![s] = @ \cup {f}]
    /\ UNCHANGED <<store, pc, live, want, uploaded, todo, tables, ghosts>>

\* Mutant: the loop runs once too often.
UploadFileTooMany(s, f) ==
    /\ pc[s] = "upload"
    /\ s \in live
    /\ f \in sent[s]
    /\ HandOut(f)
    /\ uploaded' = [uploaded EXCEPT ![s] = @ \cup {f}]
    /\ IF Cardinality(uploaded'[s]) <= want[s]
       THEN UNCHANGED <<pc, todo>>
       ELSE Goto(s, "insert") /\ todo' = [todo EXCEPT ![s] = uploaded'[s]]
    /\ UNCHANGED <<live, want, sent, tables, ghosts>>

\* The upload is answered with 201 and the identifier of the file.
UploadFile(s, f) ==
    /\ pc[s] = "upload"
    /\ s \in live
    /\ f \in sent[s]
    /\ HandOut(f)
    /\ uploaded' = [uploaded EXCEPT ![s] = @ \cup {f}]
    /\ IF Cardinality(uploaded'[s]) < want[s]
       THEN UNCHANGED <<pc, todo>>
       ELSE Goto(s, "insert") /\ todo' = [todo EXCEPT ![s] = uploaded'[s]]
    /\ UNCHANGED <<live, want, sent, tables, ghosts>>

\* Mutant: the error is returned without compensation.
UploadFailsOutright(s) ==
    /\ pc[s] = "upload"
    /\ Goto(s, "failed")
    /\ UNCHANGED <<store, live, want, sent, uploaded, todo, tables, ghosts>>

\* A validation error before the next file is sent; or an error of the file
\* service, or no answer: then the service may have stored the file, or may still
\* store it, and nobody learns its identifier.
UploadFails(s) ==
    /\ pc[s] = "upload"
    /\ Compensate(s)
    /\ UNCHANGED <<store, live, want, sent, uploaded, tables, ghosts>>

-----------------------------------------------------------------------------
(***************************************************************************)
(* CreateFileMessage: nothing is visible before the commit.                *)
(***************************************************************************)

\* Mutant: the rows are written through the pool, not through tx.
InsertRowsOutsideTransaction(s) ==
    /\ pc[s] = "insert"
    /\ s \in live
    /\ IF todo[s] = {}
       THEN Goto(s, "commit") /\ UNCHANGED <<todo, attached, saved>>
       ELSE \E f \in todo[s] :
              /\ attached' = [attached EXCEPT ![s] = @ \cup {f}]
              /\ saved' = saved \cup {s}
              /\ todo' = [todo EXCEPT ![s] = @ \ {f}]
              /\ UNCHANGED pc
    /\ UNCHANGED <<store, live, want, sent, uploaded, late, ghosts>>

\* The row of message, then one row of message_attachment for each file. They
\* are the rows of `attached` only once s is in `saved`.
InsertRows(s) ==
    /\ pc[s] = "insert"
    /\ s \in live
    /\ IF todo[s] = {}
       THEN Goto(s, "commit") /\ UNCHANGED <<todo, attached>>
       ELSE \E f \in todo[s] :
              /\ attached' = [attached EXCEPT ![s] = @ \cup {f}]
              /\ todo' = [todo EXCEPT ![s] = @ \ {f}]
              /\ UNCHANGED pc
    /\ UNCHANGED <<store, live, want, sent, uploaded, saved, late, ghosts>>

\* Begin or an insert fails; the transaction is rolled back.
InsertFails(s) ==
    /\ pc[s] = "insert"
    /\ Compensate(s)
    /\ attached' = [attached EXCEPT ![s] = {}]
    /\ UNCHANGED <<store, live, want, sent, uploaded, saved, late, ghosts>>

Commit(s) ==
    /\ pc[s] = "commit"
    /\ s \in live
    /\ saved' = saved \cup {s}
    /\ Goto(s, "announce")
    /\ UNCHANGED <<store, live, want, sent, uploaded, todo, attached, late, ghosts>>

\* tx.Commit returns an error: COMMIT was not sent, or was sent and its answer
\* did not come in time; then it takes effect, now or later.
CommitFails(s) ==
    /\ pc[s] = "commit"
    /\ \/ UNCHANGED <<saved, late>>
       \/ s \in live /\ saved' = saved \cup {s} /\ UNCHANGED late
       \/ s \in live /\ late' = late \cup {s} /\ UNCHANGED saved
    /\ Compensate(s)
    /\ UNCHANGED <<store, live, want, sent, uploaded, attached, ghosts>>

CommitsLate(s) ==
    /\ s \in late
    /\ late' = late \ {s}
    /\ saved' = saved \cup {s}
    /\ UNCHANGED <<store, calls, attached, ghosts>>

\* Mutant: an error of fanOutMessage fails the call.
AnnounceOrCompensate(s) ==
    /\ pc[s] = "announce"
    /\ told' \in {told, told \cup {s}}
    /\ \/ Goto(s, "done") /\ UNCHANGED todo
       \/ Compensate(s)
    /\ UNCHANGED <<store, live, want, sent, uploaded, tables, refused>>

\* fanOutMessage, whose error is only logged, and the answer 201: the message
\* reaches somebody, or nobody.
Announce(s) ==
    /\ pc[s] = "announce"
    /\ Goto(s, "done")
    /\ told' \in {told, told \cup {s}}
    /\ UNCHANGED <<store, live, want, sent, uploaded, todo, tables, refused>>

-----------------------------------------------------------------------------
(***************************************************************************)
(* compensateUploadedFiles: an error of Delete is logged, and the loop     *)
(* goes on.                                                                *)
(***************************************************************************)

AskDelete(s, f) ==
    /\ pc[s] = "undo"
    /\ s \in live
    /\ f \in todo[s]
    /\ AskRemoval(f)
    /\ Goto(s, "deleting")
    /\ UNCHANGED <<live, want, sent, uploaded, todo, tables, ghosts>>

\* 204 only when the file is gone; an error whether it is or not.
DeleteAnswers(s) ==
    /\ pc[s] = "deleting"
    /\ \E f \in todo[s] \cap asked :
          /\ \/ file[f] = "gone" /\ UNCHANGED refused
             \/ refused' = refused \cup {f}
          /\ todo' = [todo EXCEPT ![s] = @ \ {f}]
    /\ Goto(s, "undo")
    /\ UNCHANGED <<store, live, want, sent, uploaded, tables, told>>

\* Every Delete fails at once when the context is done.
SkipDeletes(s) ==
    /\ pc[s] = "undo"
    /\ s \notin live
    /\ todo[s] # {}
    /\ todo' = [todo EXCEPT ![s] = {}]
    /\ UNCHANGED <<store, pc, live, want, sent, uploaded, tables, ghosts>>

Fail(s) ==
    /\ pc[s] = "undo"
    /\ todo[s] = {}
    /\ Goto(s, "failed")
    /\ UNCHANGED <<store, live, want, sent, uploaded, todo, tables, ghosts>>

-----------------------------------------------------------------------------
\* The browser's connection ends: the context of the request is done.
Disconnect(s) ==
    /\ s \in live
    /\ pc[s] \in Running
    /\ live' = live \ {s}
    /\ UNCHANGED <<store, pc, want, sent, uploaded, todo, tables, ghosts>>

\* The message service stops. A COMMIT under way may still take effect, and so
\* may a Delete that was sent; every other transaction is rolled back.
Crash ==
    LET running == {s \in Senders : pc[s] \in Running}
        committing == {s \in running \cap live : pc[s] = "commit"} IN
    /\ running # {}
    /\ pc' = [s \in Senders |-> IF s \in running THEN "crashed" ELSE pc[s]]
    /\ late' \in {late \cup S : S \in SUBSET committing}
    /\ UNCHANGED <<store, live, want, sent, uploaded, todo, attached, saved, ghosts>>

\* The file service works on its own: on uploads that were sent, whether anybody
\* still waits for the answer or not, and on deletions.
FileServiceStep ==
    /\ \/ \E s \in Senders : \E f \in sent[s] : Unanswered(f)
       \/ \E f \in Files : Remove(f)
    /\ UNCHANGED <<calls, tables, ghosts>>

CreateFileMessage(s) ==
    InsertRows(s) \/ InsertFails(s) \/ Commit(s) \/ CommitFails(s)

CompensateUploadedFiles(s) ==
    \/ \E f \in Files : AskDelete(s, f)
    \/ DeleteAnswers(s) \/ SkipDeletes(s) \/ Fail(s)

SendFileMessage(s) ==
    \/ Check(s)
    \/ \E f \in Files : SendFile(s, f) \/ UploadFile(s, f)
    \/ UploadFails(s)
    \/ CreateFileMessage(s)
    \/ Announce(s)
    \/ CompensateUploadedFiles(s)

Next ==
    \/ \E s \in Senders : SendFileMessage(s) \/ CommitsLate(s) \/ Disconnect(s)
    \/ Crash
    \/ FileServiceStep

Spec == Init /\ [][Next]_vars

-----------------------------------------------------------------------------
(***************************************************************************)
(* Properties.                                                             *)
(***************************************************************************)

\* A message is there with all its files or not at all, however its
\* transaction ended, and nobody is told of a message that is not there.
SavedMessageIsWhole ==
    /\ told \subseteq saved
    /\ \A s \in saved : Cardinality(attached[s]) = want[s]

\* Whoever was told of a file message finds every file of it: compensation
\* never reaches the files of a message that was announced.
ToldFilesAreStored ==
    \A s \in told : \A f \in attached[s] : file[f] = "stored"

\* Every file that the file service keeps belongs to a message or to a call that
\* is under way, or it has a cause: the message service stopped, the answer to the
\* upload was lost, the request was cut off, or a Delete of this file failed.
OrphansHaveACause ==
    \A f \in Files : file[f] = "stored" =>
        \E s \in Senders :
            /\ f \in sent[s]
            /\ \/ s \in saved /\ f \in attached[s]
               \/ pc[s] \in Running \cup {"crashed"}
               \/ f \notin uploaded[s]
               \/ s \notin live
               \/ f \in refused

\* sendFileMessage.go says of a failed save: "save file message failed".
FailedSaveIsNotCommitted ==
    \A s \in Senders : pc[s] = "failed" => s \notin saved
=============================================================================
