--------------------------- MODULE FileDownloads ---------------------------
(***************************************************************************)
(* Reading the files of messages, while FileMessages sends, fails and      *)
(* compensates: GET /files/{id}/content and /download. The gateway asks    *)
(* the message service whether the user is in a chat with the file, then   *)
(* passes the request on to the file service, which reads the row and the  *)
(* object and streams it. Nothing holds the answers together.              *)
(***************************************************************************)
EXTENDS FileMessages

CONSTANTS
    Readers,    \* browsers, each of a user of its own
    NoFile

ASSUME NoFileAssumption == NoFile \notin Files

VARIABLES
    member,     \* users who are in the chat of the messages
    reading,    \* what the request of a browser waits for
    wanted      \* the identifier in its URL

readers == <<member, reading, wanted>>
allVars == <<vars, readers>>

ReadingStates == {"none", "access", "allowed", "row", "object", "stream", "notFound"}

\* A browser waits for an answer exactly while its request names a file.
ReadersTypeOK ==
    /\ member \subseteq Readers
    /\ reading \in [Readers -> ReadingStates]
    /\ wanted \in [Readers -> Files \cup {NoFile}]
    /\ \A r \in Readers : wanted[r] = NoFile <=> reading[r] = "none"

DInit ==
    /\ Init
    /\ member = {}
    /\ reading = [r \in Readers |-> "none"]
    /\ wanted = [r \in Readers |-> NoFile]

Becomes(r, state) ==
    /\ reading' = [reading EXCEPT ![r] = state]
    /\ UNCHANGED <<vars, member, wanted>>

\* Any answer but 404; the user may ask for the same or another file again.
Ends(r) ==
    /\ reading' = [reading EXCEPT ![r] = "none"]
    /\ wanted' = [wanted EXCEPT ![r] = NoFile]
    /\ UNCHANGED <<vars, member>>

\* AddUserToChat. Nobody ever leaves a chat.
Join(r) ==
    /\ r \notin member
    /\ member' = member \cup {r}
    /\ UNCHANGED <<vars, reading, wanted>>

\* ContentFile, DownloadFile, with a valid token (400 without).
ContentFile(r) ==
    /\ reading[r] = "none"
    /\ reading' = [reading EXCEPT ![r] = "access"]
    /\ \E f \in Files : wanted' = [wanted EXCEPT ![r] = f]
    /\ UNCHANGED <<vars, member>>

\* Mutant: the join on the file is missing.
InAnyChat(r) == r \in member /\ saved # {}

\* The user is a member of a chat with a message that has the file.
UserHasAccessToFile(r) == r \in member /\ \E s \in saved : wanted[r] \in attached[s]

\* The message service answers 204; the gateway has not read the answer yet.
CheckFileAccess(r) ==
    /\ reading[r] = "access"
    /\ UserHasAccessToFile(r)
    /\ Becomes(r, "allowed")

\* The gateway reads 204.
CanAccessFile(r) == reading[r] = "allowed" /\ Becomes(r, "row")

\* ensureFileAccess: 403, or 502 when the message service fails or takes more
\* than five seconds.
EnsureFileAccess(r) ==
    \/ CanAccessFile(r)
    \/ reading[r] \in {"access", "allowed"} /\ Ends(r)

\* GetContent: the row, unless a Delete has marked it, then the object, which a
\* Delete removes some time after it has marked the row.
GetByID(r) ==
    /\ reading[r] = "row"
    /\ Becomes(r, IF file[wanted[r]] = "stored" THEN "object" ELSE "notFound")

GetObject(r) ==
    /\ reading[r] = "object"
    /\ \/ Becomes(r, "stream")
       \/ file[wanted[r]] # "stored" /\ Becomes(r, "notFound")

\* Any 5xx: the file service, one of its stores or the way to it fails.
ProxyFails(r) == reading[r] \in {"row", "object"} /\ Ends(r)

\* writeFileResponse: the copy ends, or fails when 200 has been sent.
WriteFileResponse(r) == reading[r] = "stream" /\ Ends(r)

NotFound(r) == reading[r] = "notFound" /\ Ends(r)

Read(r) ==
    \/ Join(r) \/ ContentFile(r) \/ CheckFileAccess(r) \/ EnsureFileAccess(r)
    \/ GetByID(r) \/ GetObject(r) \/ ProxyFails(r) \/ WriteFileResponse(r) \/ NotFound(r)

DNext ==
    \/ Next /\ UNCHANGED readers
    \/ \E r \in Readers : Read(r)

DSpec == DInit /\ [][DNext]_allVars

-----------------------------------------------------------------------------
(***************************************************************************)
(* Properties.                                                             *)
(***************************************************************************)

\* A link to a file ends in 404 only for a message whose sending failed, or was
\* cut off by a crash, although it is in the history: never for one that
\* somebody was told of.
AnnouncedFileIsServed ==
    \A r \in Readers : reading[r] = "notFound" =>
        \A s \in Senders : wanted[r] \in attached[s] =>
            s \notin told /\ pc[s] \in {"undo", "deleting", "failed", "crashed"}

\* What is streamed belongs to a message of the user's chat: not to a
\* transaction under way or rolled back, nor to an upload whose answer was lost.
ServedFileIsOfAMessage ==
    \A r \in Readers : reading[r] = "stream" =>
        r \in member /\ wanted[r] \in known /\ \E s \in saved : wanted[r] \in attached[s]
=============================================================================
