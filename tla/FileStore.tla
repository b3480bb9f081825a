----------------------------- MODULE FileStore -----------------------------
(***************************************************************************)
(* What the file service promises to its callers: an identifier that it    *)
(* has handed out denotes a stored file until somebody asks for its        *)
(* deletion; a file that was removed never comes back. Nothing is promised *)
(* of an upload that was not answered.                                     *)
(***************************************************************************)
CONSTANT Files

VARIABLES
    file,   \* whether a file can be read
    known,  \* identifiers that were handed out
    asked   \* identifiers whose deletion was requested

store == <<file, known, asked>>

FileStates == {"absent", "stored", "gone"}

StoreTypeOK ==
    /\ file \in [Files -> FileStates]
    /\ known \subseteq Files
    /\ asked \subseteq known

StoreInit ==
    /\ file = [f \in Files |-> "absent"]
    /\ known = {}
    /\ asked = {}

\* The service works on an upload that it has not answered.
Unanswered(f) ==
    /\ f \notin known
    /\ \E state \in FileStates : file' = [file EXCEPT ![f] = state]
    /\ UNCHANGED <<known, asked>>

HandOut(f) ==
    /\ f \notin known
    /\ file[f] = "stored"
    /\ known' = known \cup {f}
    /\ UNCHANGED <<file, asked>>

AskRemoval(f) ==
    /\ f \in known
    /\ asked' = asked \cup {f}
    /\ UNCHANGED <<file, known>>

Remove(f) ==
    /\ f \in asked
    /\ file[f] = "stored"
    /\ file' = [file EXCEPT ![f] = "gone"]
    /\ UNCHANGED <<known, asked>>

StoreNext == \E f \in Files : Unanswered(f) \/ HandOut(f) \/ AskRemoval(f) \/ Remove(f)

StoreSpec == StoreInit /\ [][StoreNext]_store

\* The promise, as a state predicate.
KnownIsStored == \A f \in known \ asked : file[f] = "stored"
=============================================================================
