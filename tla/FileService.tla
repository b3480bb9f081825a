---------------------------- MODULE FileService ----------------------------
(***************************************************************************)
(* The file service: a row of file_metadata and an object in S3 for every  *)
(* file, written and removed by calls that are not transactional across    *)
(* the two. Any command on either may fail, and a command that failed (a   *)
(* timeout, a lost answer) may still take effect, now or at any later      *)
(* time. The process may stop between any two commands.                    *)
(*                                                                         *)
(* Upload makes a fresh identifier, so an upload call and its file share   *)
(* one name of Files.                                                      *)
(***************************************************************************)
EXTENDS Naturals

CONSTANTS
    Files,
    Deleters,   \* calls of Delete that overlap
    MaxRetries  \* attempts that withRetry makes: S3_MAX_RETRIES

ASSUME CallsAssumption == Files \cap Deleters = {}

ASSUME RetriesAssumption == MaxRetries \in Nat \ {0}

VARIABLES
    row,        \* file_metadata: none, live, marked (deleted_at set), deleted
    object,     \* the object is in the bucket
    late,       \* failed commands that may still take effect
    pc,         \* the next command of every upload and delete call
    tries,      \* failed attempts of the S3 command under way
    target,     \* the file that a Delete call works on
    known,      \* files whose upload was answered with 201 and the identifier
    asked,      \* files that some Delete call was made for
    deleted,    \* files that some Delete call answered 204 for
    stray       \* history: files that a PutObject of failed

data == <<row, object, late>>
calls == <<pc, tries, target>>
ghosts == <<known, asked, deleted, stray>>
vars == <<data, calls, ghosts>>

Calls == Files \cup Deleters
Commands == {"put", "insert", "mark", "remove", "delete"}
RowStates == {"none", "live", "marked", "deleted"}
UploadStates == {"new", "put", "insert", "cleanup", "readback", "answer", "done", "failed"}
DeleteStates == {"idle", "lookup", "mark", "remove", "delete"}

\* A call never attempts an S3 command more often than MaxRetries says, and a
\* Delete call works on a file that exists.
TypeOK ==
    /\ row \in [Files -> RowStates]
    /\ object \in [Files -> BOOLEAN]
    /\ late \subseteq Commands \X Files
    /\ pc \in [Calls -> UploadStates \cup DeleteStates]
    /\ tries \in [Calls -> 0 .. MaxRetries - 1]
    /\ target \in [Deleters -> Files]
    /\ known \subseteq Files
    /\ asked \subseteq Files
    /\ deleted \subseteq Files
    /\ stray \subseteq Files

Init ==
    /\ row = [f \in Files |-> "none"]
    /\ object = [f \in Files |-> FALSE]
    /\ late = {}
    /\ pc = [c \in Calls |-> IF c \in Files THEN "new" ELSE "idle"]
    /\ tries = [c \in Calls |-> 0]
    /\ target \in [Deleters -> Files]
    /\ known = {}
    /\ asked = {}
    /\ deleted = {}
    /\ stray = {}

-----------------------------------------------------------------------------
(***************************************************************************)
(* PostgreSQL and S3.                                                      *)
(***************************************************************************)

Goto(c, state) == pc' = [pc EXCEPT ![c] = state]

\* The effect of a command on the file f. `insert` and `mark` apply only to a
\* row that is absent and not yet marked, `delete` only to one that exists.
RowAfter(command, before) ==
    IF command = "insert" /\ before = "none" THEN "live"
    ELSE IF command = "mark" /\ before = "live" THEN "marked"
    ELSE IF command = "delete" /\ before \in {"live", "marked"} THEN "deleted"
    ELSE before

ObjectAfter(command, before) ==
    IF command = "put" THEN TRUE ELSE command # "remove" /\ before

Takes(command, f) ==
    /\ row' = [row EXCEPT ![f] = RowAfter(command, @)]
    /\ object' = [object EXCEPT ![f] = ObjectAfter(command, @)]

Succeeds(command, f) == Takes(command, f) /\ UNCHANGED late

Fails(command, f) == late' \in {late, late \cup {<<command, f>>}} /\ UNCHANGED <<row, object>>

TakesLate(command, f) ==
    /\ <<command, f>> \in late
    /\ Takes(command, f)
    /\ late' = late \ {<<command, f>>}
    /\ UNCHANGED <<calls, ghosts>>

\* Mutant: the loop ends without the error.
WithRetryForgetsError(c, command, f, next, giveUp) ==
    \/ /\ Succeeds(command, f)
       /\ Goto(c, next)
       /\ tries' = [tries EXCEPT ![c] = 0]
    \/ /\ Fails(command, f)
       /\ IF tries[c] + 1 < MaxRetries
          THEN tries' = [tries EXCEPT ![c] = @ + 1] /\ UNCHANGED pc
          ELSE tries' = [tries EXCEPT ![c] = 0] /\ Goto(c, next)

\* Mutant: <= instead of <.
WithRetryOnceMore(c, command, f, next, giveUp) ==
    \/ /\ Succeeds(command, f)
       /\ Goto(c, next)
       /\ tries' = [tries EXCEPT ![c] = 0]
    \/ /\ Fails(command, f)
       /\ IF tries[c] + 1 <= MaxRetries
          THEN tries' = [tries EXCEPT ![c] = @ + 1] /\ UNCHANGED pc
          ELSE tries' = [tries EXCEPT ![c] = 0] /\ Goto(c, giveUp)

\* withRetry: up to MaxRetries attempts, then the last error.
WithRetry(c, command, f, next, giveUp) ==
    \/ /\ Succeeds(command, f)
       /\ Goto(c, next)
       /\ tries' = [tries EXCEPT ![c] = 0]
    \/ /\ Fails(command, f)
       /\ IF tries[c] + 1 < MaxRetries
          THEN tries' = [tries EXCEPT ![c] = @ + 1] /\ UNCHANGED pc
          ELSE tries' = [tries EXCEPT ![c] = 0] /\ Goto(c, giveUp)

-----------------------------------------------------------------------------
(***************************************************************************)
(* Upload.                                                                 *)
(***************************************************************************)

\* Size, name, content and MIME type are checked before anything is stored.
Accept(f) ==
    /\ pc[f] = "new"
    /\ Goto(f, "put") \/ Goto(f, "failed")
    /\ UNCHANGED <<data, tries, target, ghosts>>

PutObject(f) ==
    /\ pc[f] = "put"
    /\ WithRetry(f, "put", f, "insert", "failed")
    /\ stray' = IF pc'[f] = "insert" THEN stray ELSE stray \cup {f}
    /\ UNCHANGED <<target, known, asked, deleted>>

\* Mutant: the error of repository.Create is logged only.
InsertIgnoringError(f) ==
    /\ pc[f] = "insert"
    /\ Succeeds("insert", f) \/ Fails("insert", f)
    /\ Goto(f, "answer")
    /\ UNCHANGED <<tries, target, ghosts>>

Insert(f) ==
    /\ pc[f] = "insert"
    /\ \/ Succeeds("insert", f) /\ Goto(f, "readback")
       \/ Fails("insert", f) /\ Goto(f, "cleanup")
    /\ UNCHANGED <<tries, target, ghosts>>

\* The object is removed again; whether that works or not, Upload fails.
Cleanup(f) ==
    /\ pc[f] = "cleanup"
    /\ WithRetry(f, "remove", f, "failed", "failed")
    /\ UNCHANGED <<target, ghosts>>

\* GetByID of the row just inserted. On an error the row and the object stay.
ReadBack(f) ==
    /\ pc[f] = "readback"
    /\ \/ row[f] = "live" /\ Goto(f, "answer")
       \/ Goto(f, "failed")
    /\ UNCHANGED <<data, tries, target, ghosts>>

\* The answer 201 with the identifier reaches the caller, or is lost.
Answer(f) ==
    /\ pc[f] = "answer"
    /\ \/ Goto(f, "done") /\ known' = known \cup {f}
       \/ Goto(f, "failed") /\ UNCHANGED known
    /\ UNCHANGED <<data, tries, target, asked, deleted, stray>>

-----------------------------------------------------------------------------
(***************************************************************************)
(* Delete. A call that failed can be repeated: GetByIDForDeletion finds a  *)
(* row that is already marked.                                             *)
(***************************************************************************)

StartDelete(d, f) ==
    /\ pc[d] = "idle"
    /\ f \in known
    /\ target' = [target EXCEPT ![d] = f]
    /\ asked' = asked \cup {f}
    /\ Goto(d, "lookup")
    /\ UNCHANGED <<data, tries, known, deleted, stray>>

\* GetByIDForDeletion: no row, or an error, ends the call.
Lookup(d) ==
    /\ pc[d] = "lookup"
    /\ \/ row[target[d]] \in {"live", "marked"} /\ Goto(d, "mark")
       \/ Goto(d, "idle")
    /\ UNCHANGED <<data, tries, target, ghosts>>

\* MarkDeleted reports no error when there was nothing to mark.
MarkDeleted(d) ==
    /\ pc[d] = "mark"
    /\ \/ Succeeds("mark", target[d]) /\ Goto(d, "remove")
       \/ Fails("mark", target[d]) /\ Goto(d, "idle")
    /\ UNCHANGED <<tries, target, ghosts>>

RemoveObject(d) ==
    /\ pc[d] = "remove"
    /\ WithRetry(d, "remove", target[d], "delete", "idle")
    /\ UNCHANGED <<target, ghosts>>

\* Mutant: the error of repository.Delete is logged only.
DeleteRowIgnoringError(d) ==
    LET f == target[d] IN
    /\ pc[d] = "delete"
    /\ Succeeds("delete", f) \/ Fails("delete", f)
    /\ deleted' = deleted \cup {f}
    /\ Goto(d, "idle")
    /\ UNCHANGED <<tries, target, known, asked, stray>>

\* repository.Delete; a row that another call has deleted is reported as an
\* error.
DeleteRow(d) ==
    LET f == target[d] IN
    /\ pc[d] = "delete"
    /\ \/ row[f] # "deleted" /\ Succeeds("delete", f) /\ deleted' = deleted \cup {f}
       \/ row[f] = "deleted" /\ UNCHANGED <<data, deleted>>
       \/ Fails("delete", f) /\ UNCHANGED deleted
    /\ Goto(d, "idle")
    /\ UNCHANGED <<tries, target, known, asked, stray>>

-----------------------------------------------------------------------------
\* The process stops: every call is lost, nothing resumes it.
Crash ==
    /\ \E c \in Calls : pc[c] \notin {"new", "done", "failed", "idle"}
    /\ pc' = [c \in Calls |->
                 IF c \in Deleters THEN "idle"
                 ELSE IF pc[c] \in {"new", "done"} THEN pc[c] ELSE "failed"]
    /\ tries' = [c \in Calls |-> 0]
    /\ UNCHANGED <<data, target, ghosts>>

Upload(f) ==
    Accept(f) \/ PutObject(f) \/ Insert(f) \/ Cleanup(f) \/ ReadBack(f) \/ Answer(f)

Delete(d) == Lookup(d) \/ MarkDeleted(d) \/ RemoveObject(d) \/ DeleteRow(d)

Next ==
    \/ \E f \in Files : Upload(f)
    \/ \E d \in Deleters : Delete(d) \/ \E f \in Files : StartDelete(d, f)
    \/ \E command \in Commands, f \in Files : TakesLate(command, f)
    \/ Crash

Spec == Init /\ [][Next]_vars

-----------------------------------------------------------------------------
(***************************************************************************)
(* Properties.                                                             *)
(***************************************************************************)

\* A reader (GetMetadata, GetContent, and GetDownloadLink, which streams the
\* content too) needs a live row and the object.
Readable(f) == row[f] = "live" /\ object[f]

FileOf(f) == IF Readable(f) THEN "stored" ELSE IF row[f] = "none" THEN "absent" ELSE "gone"

\* The service keeps the promise of FileStore: what it handed out is readable
\* until its deletion is asked for, and what was removed never comes back,
\* whatever fails, arrives late or is cut off by a crash.
Promise == INSTANCE FileStore WITH file <- [f \in Files |-> FileOf(f)]

KeepsPromise == Promise!StoreSpec

\* A deletion leaves nothing behind: the row, which is what a repeated Delete
\* finds the object by, goes after the object. The only object without a row is
\* one that a failed PutObject wrote after all.
NoObjectOutlivesItsRow ==
    \A f \in Files : row[f] = "deleted" /\ object[f] => f \in stray

\* 204 is the truth: once a Delete has answered it, no reader finds the file, no
\* late command revives it, and the object is gone (with the same exception).
AnsweredDeleteIsFinal ==
    \A f \in deleted : row[f] = "deleted" /\ (object[f] => f \in stray)
=============================================================================
