------------------------ MODULE ClientSessionsProofs ------------------------
(***************************************************************************)
(* The registry of online clients for any number of sockets, requests,     *)
(* logins and any channel capacity: type correctness, one close per        *)
(* channel, no registered client without its reader and writer, and who    *)
(* may evict whom.                                                         *)
(***************************************************************************)
EXTENDS ClientSessions, TLAPS

Held(k) == reader[k] \in {"checking", "reading", "looking", "sending"}
Writes(k) == writer[k] \in {"select", "writing"}

\* A socket that InitConnection has not accepted has no goroutine and no context.
Untouched ==
    \A k \in Conns : conn[k] = "none" =>
        reader[k] = "none" /\ writer[k] = "none" /\ ctx[k] = "live"

\* A running goroutine holds a client, and it is one of its own login.
HoldsClient ==
    \A k \in Conns :
        /\ Held(k) => readerOf[k] \in Conns /\ LoginOf[readerOf[k]] = LoginOf[k]
        /\ Writes(k) => writerOf[k] \in Conns /\ LoginOf[writerOf[k]] = LoginOf[k]

\* The registered client is the last one saved for its login.
RegisteredIsLatest ==
    \A l \in Logins : storage[l] # NoClient =>
        \A k \in Conns : conn[k] # "none" /\ LoginOf[k] = l =>
            k = storage[l] \/ k \in before[storage[l]]

\* A client that a goroutine holds was saved.
HeldIsSaved ==
    \A k \in Conns :
        /\ readerOf[k] # NoClient => conn[readerOf[k]] # "none"
        /\ writerOf[k] # NoClient => conn[writerOf[k]] # "none"

\* The inductive invariant, beside TypeOK: the properties and what their
\* induction needs.
Safe ==
    /\ RegistryConsistent
    /\ RegisteredIsServed
    /\ GoroutinesNeverOlder
    /\ Untouched
    /\ HoldsClient
    /\ RegisteredIsLatest
    /\ HeldIsSaved

Jobs == [kind : Kinds, todo : SUBSET Logins, dest : Clients]

\* A delivery that goes on, falls back on sendHistoryError or returns leaves
\* every process with a well-formed job and program counter.
LEMMA JobUpdates ==
    ASSUME NEW p \in Procs, job \in [Procs -> Jobs], reader \in [Procs -> ReaderStates]
    PROVE  /\ \A left \in SUBSET Logins : Continue(p, left) =>
                 job' \in [Procs -> Jobs] /\ reader' \in [Procs -> ReaderStates]
           /\ HistoryFails(p) => job' \in [Procs -> Jobs] /\ reader' \in [Procs -> ReaderStates]
           /\ Return(p) => job' \in [Procs -> Jobs] /\ reader' \in [Procs -> ReaderStates]
<1>1. Return(p) => job' \in [Procs -> Jobs] /\ reader' \in [Procs -> ReaderStates]
  BY DEF Return, Idle, Jobs, Kinds, Clients, ReaderStates
<1>2. HistoryFails(p) => job' \in [Procs -> Jobs] /\ reader' \in [Procs -> ReaderStates]
  BY DEF HistoryFails, Jobs, Kinds, Clients, ReaderStates
<1>3. ASSUME NEW left \in SUBSET Logins, Continue(p, left)
      PROVE  job' \in [Procs -> Jobs] /\ reader' \in [Procs -> ReaderStates]
  <2>1. CASE left = {}
    BY <1>1, <1>3, <2>1 DEF Continue
  <2>2. CASE left # {}
    BY <1>3, <2>2 DEF Continue, Jobs, Clients, ReaderStates
  <2> QED BY <2>1, <2>2
<1> QED BY <1>1, <1>2, <1>3

\* What is left after a panic is well-formed.
LEMMA CrashTypeOK ==
    ASSUME NEW why \in {"sendOnClosed", "concurrentWrite"}, Crash(why)
    PROVE  TypeOK'
BY NamesAssumption, BoundsAssumption
   DEF Crash, Idle, TypeOK, Clients, Procs, Kinds, ReaderStates, WriterStates

\* Every variable keeps its type: no channel of the service ever holds more than
\* its capacity, whatever the handlers and the writers do (clientStorage.go:37).
THEOREM TypeCorrect == Spec => []TypeOK
<1> USE NamesAssumption, BoundsAssumption DEF Clients, Kinds, ReaderStates, WriterStates
<1>1. Init => TypeOK
  BY DEF Procs, Init, TypeOK, Idle
<1>2. TypeOK /\ [Next]_vars => TypeOK'
  <2> SUFFICES ASSUME TypeOK, [Next]_vars PROVE TypeOK'
    OBVIOUS
  <2>1. ASSUME NEW k \in Conns, InitConnection(k) PROVE TypeOK'
    BY <2>1 DEF TypeOK, InitConnection, SaveClient
  <2>2. ASSUME NEW k \in Conns, PeerGone(k) PROVE TypeOK'
    BY <2>2 DEF TypeOK, PeerGone, readers, writers
  <2>3. ASSUME NEW k \in Conns, ReaderStart(k) PROVE TypeOK'
    BY <2>3 DEF TypeOK, ReaderStart, channels, writers
  <2>4. ASSUME NEW k \in Conns, ReaderCheck(k) PROVE TypeOK'
    BY <2>4 DEF TypeOK, ReaderCheck, ReaderExits, channels, writers
  <2>5. ASSUME NEW k \in Conns, ReaderFails(k) PROVE TypeOK'
    BY <2>5 DEF TypeOK, ReaderFails, ReaderExits, DeleteClient, writers
  <2>6. ASSUME NEW k \in Conns, ReadEvent(k) PROVE TypeOK'
    BY <2>6 DEF TypeOK, Procs, ReadEvent, channels, writers
  <2>7. ASSUME NEW r \in Requests, StartRequest(r) PROVE TypeOK'
    BY <2>7 DEF TypeOK, Procs, StartRequest, channels, writers
  <2>8. ASSUME NEW p \in Procs, Delivery(p) PROVE TypeOK'
    <3> USE DEF Jobs
    <3>1. CASE LookupOffline(p)
      <4>1. job' \in [Procs -> Jobs] /\ reader' \in [Procs -> ReaderStates]
        <5>1. PICK l \in job[p].todo :
                 IF job[p].kind = "history" THEN HistoryFails(p) ELSE Continue(p, job[p].todo \ {l})
          BY <3>1 DEF LookupOffline
        <5>2. job[p].todo \ {l} \in SUBSET Logins
          BY DEF TypeOK
        <5> QED BY <5>1, <5>2, JobUpdates DEF TypeOK
      <4> QED BY <3>1, <4>1 DEF TypeOK, LookupOffline, channels, writers
    <3>2. CASE LookupOnline(p)
      BY <3>2 DEF TypeOK, LookupOnline, channels, writers
    <3>3. CASE SendEvent(p)
      <4>1. job' \in [Procs -> Jobs] /\ reader' \in [Procs -> ReaderStates]
        <5>1. job[p].todo \ {LoginOf[job[p].dest]} \in SUBSET Logins
          BY DEF TypeOK
        <5> QED BY <3>3, <5>1, JobUpdates DEF TypeOK, SendEvent
      <4>2. queued' \in [Conns -> 0 .. SendCap]
        <5> DEFINE c == job[p].dest
        <5>1. queued' = [queued EXCEPT ![c] = queued[c] + 1] /\ queued[c] < SendCap
          BY <3>3 DEF SendEvent, HasRoom
        <5>2. queued \in [Conns -> 0 .. SendCap]
          BY DEF TypeOK
        <5>3. ASSUME NEW k \in Conns PROVE queued'[k] \in 0 .. SendCap
          BY <5>1, <5>2
        <5> HIDE DEF c
        <5> QED BY <5>1, <5>2, <5>3
      <4> QED BY <3>3, <4>1, <4>2 DEF TypeOK, SendEvent, writers
    <3>4. CASE SendTimeout(p)
      <4>1. job' \in [Procs -> Jobs] /\ reader' \in [Procs -> ReaderStates]
        BY <3>4, JobUpdates DEF TypeOK, SendTimeout
      <4> QED BY <3>4, <4>1 DEF TypeOK, SendTimeout, channels, writers
    <3>5. CASE SendPanics(p)
      <4>1. CASE p \in Conns
        BY <3>5, <4>1, CrashTypeOK DEF SendPanics
      <4>2. CASE p \notin Conns
        <5>1. job' \in [Procs -> Jobs] /\ reader' \in [Procs -> ReaderStates]
          BY <3>5, <4>2, JobUpdates DEF TypeOK, SendPanics
        <5> QED BY <3>5, <4>2, <5>1 DEF TypeOK, SendPanics, channels, writers
      <4> QED BY <4>1, <4>2
    <3> QED BY <2>8, <3>1, <3>2, <3>3, <3>4, <3>5 DEF Delivery
  <2>9. ASSUME NEW k \in Conns, WriterStart(k) PROVE TypeOK'
    BY <2>9 DEF TypeOK, WriterStart, channels, readers
  <2>10. ASSUME NEW k \in Conns, WriterCancelled(k) PROVE TypeOK'
    BY <2>10 DEF TypeOK, WriterCancelled, WriterExits, channels, readers
  <2>11. ASSUME NEW k \in Conns, WriterTakes(k) PROVE TypeOK'
    <3>1. queued' \in [Conns -> 0 .. SendCap]
      <4> DEFINE c == writerOf[k]
      <4>1. queued' = [queued EXCEPT ![c] = queued[c] - 1] /\ queued[c] > 0
        BY <2>11 DEF WriterTakes
      <4>2. queued \in [Conns -> 0 .. SendCap]
        BY DEF TypeOK
      <4>3. ASSUME NEW j \in Conns PROVE queued'[j] \in 0 .. SendCap
        BY <4>1, <4>2
      <4> HIDE DEF c
      <4> QED BY <4>1, <4>2, <4>3
    <3> QED BY <2>11, <3>1 DEF TypeOK, WriterTakes, readers
  <2>12. ASSUME NEW k \in Conns, WriterWrote(k) PROVE TypeOK'
    BY <2>12 DEF TypeOK, WriterWrote, channels, readers
  <2>13. ASSUME NEW k \in Conns, WriteRace(k) PROVE TypeOK'
    BY <2>13, CrashTypeOK DEF WriteRace
  <2>14. ASSUME NEW k \in Conns, WriterFails(k) PROVE TypeOK'
    BY <2>14 DEF TypeOK, WriterFails, WriterExits, DeleteClient, readers
  <2>15. CASE UNCHANGED vars
    BY <2>15 DEF TypeOK, vars
  <2> QED
    BY <2>1, <2>2, <2>3, <2>4, <2>5, <2>6, <2>7, <2>8, <2>9, <2>10, <2>11, <2>12,
       <2>13, <2>14, <2>15
    DEF Next, Procs, ReaderStep, WriterStep, ReadError, ReadRace, WriterSeesClose, HeartbeatError
<1>3. QED
  BY <1>1, <1>2, PTL DEF Spec

-----------------------------------------------------------------------------
\* What a panic leaves satisfies the invariant: nothing is registered.
LEMMA CrashSafe == ASSUME NEW why, Crash(why) PROVE Safe'
BY NamesAssumption
   DEF Crash, Safe, RegistryConsistent, RegisteredIsServed, GoroutinesNeverOlder, NeverOlder,
       Untouched, HoldsClient, RegisteredIsLatest, HeldIsSaved, Held, Writes, Procs

\* DeleteClient(l), executed by a reader or a writer that then ends.
LEMMA DeleteSafe ==
    ASSUME TypeOK, TypeOK', Safe, NEW k \in Conns, conn[k] # "none", DeleteClient(LoginOf[k]),
           UNCHANGED before,
           \/ ReaderExits(k) /\ UNCHANGED <<writer, writerOf>>
           \/ WriterExits(k) /\ UNCHANGED <<reader, readerOf>>
    PROVE  Safe'
<1> USE NamesAssumption
<1> DEFINE l == LoginOf[k]
<1>a. l \in Logins /\ storage'[l] = NoClient
  BY DEF DeleteClient, TypeOK
<1>b. ASSUME NEW m \in Logins \ {l}, storage[m] # NoClient
      PROVE  /\ storage'[m] = storage[m]
             /\ storage[m] \in Conns
             /\ LoginOf[storage[m]] = m
             /\ storage[m] # storage[l]
             /\ storage[m] # k
  BY <1>a, <1>b DEF DeleteClient, Safe, RegistryConsistent, TypeOK, Clients
<1>c. \A m \in Logins \ {l} : storage'[m] = storage[m]
  BY DEF DeleteClient, TypeOK
<1>d. \A j \in Conns : j # storage[l] =>
         conn'[j] = conn[j] /\ ctx'[j] = ctx[j] /\ closed'[j] = closed[j]
  BY DEF DeleteClient, TypeOK
<1>e. \A j \in Conns : j = storage[l] => conn'[j] = "closed" /\ ctx'[j] = "cancelled" /\ closed'[j]
  BY DEF DeleteClient
<1>1. RegistryConsistent'
  <2>1. ASSUME NEW m \in Logins, storage'[m] # NoClient
        PROVE  /\ LoginOf[storage'[m]] = m
               /\ conn'[storage'[m]] \in {"open", "broken"}
               /\ ctx'[storage'[m]] = "live"
               /\ ~closed'[storage'[m]]
    <3>1. m # l /\ storage[m] # NoClient
      BY <2>1, <1>a, <1>c
    <3> QED BY <3>1, <1>b, <1>d DEF Safe, RegistryConsistent
  <2>2. ASSUME NEW j \in Conns
        PROVE  (closed'[j] <=> ctx'[j] = "cancelled") /\ (closed'[j] <=> conn'[j] = "closed")
    BY <1>d, <1>e DEF Safe, RegistryConsistent
  <2> QED BY <2>1, <2>2 DEF RegistryConsistent
<1>2. RegisteredIsServed'
  <2> SUFFICES ASSUME NEW m \in Logins, storage'[m] # NoClient
               PROVE  (ReaderServes(storage[m]) /\ WriterServes(storage[m]))' /\ storage'[m] = storage[m]
    BY DEF RegisteredIsServed, ReaderServes, WriterServes
  <2>1. m # l /\ storage[m] # NoClient
    BY <1>a, <1>c
  <2>2. ReaderServes(storage[m]) /\ WriterServes(storage[m])
    BY <2>1 DEF Safe, RegisteredIsServed
  <2> QED
    BY <1>b, <2>1, <2>2 DEF ReaderExits, WriterExits, ReaderServes, WriterServes, TypeOK, Procs
<1>f. \A j \in Conns :
         /\ \/ reader'[j] = reader[j] /\ readerOf'[j] = readerOf[j]
            \/ j = k /\ reader'[j] = "done" /\ readerOf'[j] = NoClient
         /\ \/ writer'[j] = writer[j] /\ writerOf'[j] = writerOf[j]
            \/ j = k /\ writer'[j] = "done" /\ writerOf'[j] = NoClient
  BY DEF ReaderExits, WriterExits, TypeOK, Procs
<1>g. \A j \in Conns : conn'[j] = "none" <=> conn[j] = "none"
  BY <1>d, <1>e DEF Safe, RegistryConsistent, TypeOK, Clients
<1>3. GoroutinesNeverOlder'
  BY <1>f DEF Safe, GoroutinesNeverOlder, NeverOlder
<1>4. HeldIsSaved'
  BY <1>f, <1>g DEF Safe, HeldIsSaved, TypeOK, Clients
<1>5. Untouched'
  BY <1>d, <1>f, <1>g, <1>e DEF Safe, Untouched
<1>7. HoldsClient'
  BY <1>f DEF Safe, HoldsClient, Held, Writes
<1>6. RegisteredIsLatest'
  BY <1>a, <1>c, <1>g DEF Safe, RegisteredIsLatest
<1> QED BY <1>1, <1>2, <1>3, <1>4, <1>5, <1>6, <1>7 DEF Safe

\* A step that leaves the registry, the sockets and the contexts alone, and
\* moves the readers and writers only from one place where they hold a client
\* to another, or out of the process of a request.
LEMMA DeliverySafe ==
    ASSUME TypeOK, TypeOK', Safe, NEW p \in Procs,
           UNCHANGED <<storage, conn, ctx, closed, before, readerOf, writer, writerOf>>,
           \A k \in Conns : reader'[k] = reader[k] \/ (k = p /\ Held(k) /\ Held(k)')
    PROVE  Safe'
<1> USE NamesAssumption
<1>1. RegistryConsistent' /\ GoroutinesNeverOlder' /\ RegisteredIsLatest' /\ HeldIsSaved'
  BY DEF Safe, RegistryConsistent, GoroutinesNeverOlder, NeverOlder, RegisteredIsLatest, HeldIsSaved
<1>2. RegisteredIsServed'
  BY DEF Safe, RegisteredIsServed, ReaderServes, WriterServes, Held, TypeOK, Clients
<1>3. Untouched' /\ HoldsClient'
  BY DEF Safe, Untouched, HoldsClient, Held, Writes, TypeOK
<1> QED BY <1>1, <1>2, <1>3 DEF Safe

\* GetClient at the start of a goroutine: the registered client, or the end.
LEMMA StartSafe ==
    ASSUME TypeOK, TypeOK', Safe, NEW k \in Conns, ReaderStart(k) \/ WriterStart(k)
    PROVE  Safe'
<1> USE NamesAssumption
<1> DEFINE c == storage[LoginOf[k]]
<1>1. UNCHANGED <<storage, conn, ctx, closed, before>>
  BY DEF ReaderStart, WriterStart, channels
<1>2. conn[k] # "none"
  BY DEF ReaderStart, WriterStart, Safe, Untouched
<1>f. \A j \in Conns :
         /\ \/ reader'[j] = reader[j] /\ readerOf'[j] = readerOf[j]
            \/ j = k /\ reader'[j] \in {"done", "checking"} /\ readerOf'[j] = c
               /\ (reader'[j] = "done" <=> c = NoClient)
         /\ \/ writer'[j] = writer[j] /\ writerOf'[j] = writerOf[j]
            \/ j = k /\ writer'[j] \in {"done", "select"} /\ writerOf'[j] = c
               /\ (writer'[j] = "done" <=> c = NoClient)
  BY DEF ReaderStart, WriterStart, readers, writers, TypeOK, Procs
<1>3. c # NoClient =>
         c \in Conns /\ LoginOf[c] = LoginOf[k] /\ conn[c] # "none" /\ (k = c \/ k \in before[c])
  BY <1>2 DEF Safe, RegistryConsistent, RegisteredIsLatest, TypeOK, Clients
<1>4. RegistryConsistent' /\ RegisteredIsLatest'
  BY <1>1 DEF Safe, RegistryConsistent, RegisteredIsLatest
<1>5. RegisteredIsServed'
  <2> SUFFICES ASSUME NEW m \in Logins, storage[m] # NoClient
               PROVE  (ReaderServes(storage[m]) /\ WriterServes(storage[m]))'
    BY <1>1 DEF RegisteredIsServed, ReaderServes, WriterServes
  <2>1. ReaderServes(storage[m]) /\ WriterServes(storage[m]) /\ LoginOf[storage[m]] = m
        /\ storage[m] \in Conns
    BY DEF Safe, RegisteredIsServed, RegistryConsistent, TypeOK, Clients
  <2>2. storage[m] = k => c = k
    BY <2>1
  <2> QED BY <1>1, <1>f, <2>1, <2>2 DEF ReaderServes, WriterServes
<1>6. GoroutinesNeverOlder' /\ HeldIsSaved'
  BY <1>1, <1>3, <1>f DEF Safe, GoroutinesNeverOlder, NeverOlder, HeldIsSaved
<1>7. Untouched' /\ HoldsClient'
  BY <1>1, <1>2, <1>3, <1>f DEF Safe, Untouched, HoldsClient, Held, Writes
<1> QED BY <1>4, <1>5, <1>6, <1>7 DEF Safe

\* A goroutine of a cancelled context ends: its client is not registered.
LEMMA CancelledSafe ==
    ASSUME TypeOK, TypeOK', Safe, NEW k \in Conns, ctx[k] = "cancelled",
           UNCHANGED <<storage, conn, ctx, closed, before>>,
           \/ ReaderExits(k) /\ UNCHANGED <<writer, writerOf>>
           \/ WriterExits(k) /\ UNCHANGED <<reader, readerOf>>
    PROVE  Safe'
<1> USE NamesAssumption
<1>1. conn[k] # "none" /\ \A m \in Logins : storage[m] # k
  BY DEF Safe, Untouched, RegistryConsistent
<1>f. \A j \in Conns :
         /\ \/ reader'[j] = reader[j] /\ readerOf'[j] = readerOf[j]
            \/ j = k /\ reader'[j] = "done" /\ readerOf'[j] = NoClient
         /\ \/ writer'[j] = writer[j] /\ writerOf'[j] = writerOf[j]
            \/ j = k /\ writer'[j] = "done" /\ writerOf'[j] = NoClient
  BY DEF ReaderExits, WriterExits, TypeOK, Procs
<1>2. RegistryConsistent' /\ RegisteredIsLatest'
  BY DEF Safe, RegistryConsistent, RegisteredIsLatest
<1>3. RegisteredIsServed'
  <2> SUFFICES ASSUME NEW m \in Logins, storage[m] # NoClient
               PROVE  (ReaderServes(storage[m]) /\ WriterServes(storage[m]))'
    BY DEF RegisteredIsServed, ReaderServes, WriterServes
  <2>1. ReaderServes(storage[m]) /\ WriterServes(storage[m])
        /\ storage[m] # k /\ storage[m] \in Conns
    BY <1>1 DEF Safe, RegisteredIsServed, TypeOK, Clients
  <2> QED BY <1>f, <2>1 DEF ReaderServes, WriterServes
<1>4. GoroutinesNeverOlder' /\ HeldIsSaved'
  BY <1>f DEF Safe, GoroutinesNeverOlder, NeverOlder, HeldIsSaved
<1>5. Untouched' /\ HoldsClient'
  BY <1>1, <1>f DEF Safe, Untouched, HoldsClient, Held, Writes
<1> QED BY <1>2, <1>3, <1>4, <1>5 DEF Safe

\* A writer moves between its select and conn.WriteMessage.
LEMMA WritingSafe ==
    ASSUME TypeOK, TypeOK', Safe, NEW k \in Conns,
           UNCHANGED <<storage, conn, ctx, closed, before, reader, readerOf, writerOf>>,
           Writes(k), Writes(k)', \A j \in Conns \ {k} : writer'[j] = writer[j]
    PROVE  Safe'
<1> USE NamesAssumption
<1>1. RegistryConsistent' /\ GoroutinesNeverOlder' /\ RegisteredIsLatest' /\ HeldIsSaved'
  BY DEF Safe, RegistryConsistent, GoroutinesNeverOlder, NeverOlder, RegisteredIsLatest, HeldIsSaved
<1>2. RegisteredIsServed'
  BY DEF Safe, RegisteredIsServed, ReaderServes, WriterServes, Writes, TypeOK, Clients
<1>3. Untouched' /\ HoldsClient'
  BY DEF Safe, Untouched, HoldsClient, Held, Writes, TypeOK
<1> QED BY <1>1, <1>2, <1>3 DEF Safe

\* However a delivery goes on, a reader stays inside ReadMessage's loop.
LEMMA MovesHeld ==
    ASSUME TypeOK, NEW p \in Procs, reader[p] \in {"looking", "sending"},
           HistoryFails(p) \/ Return(p) \/ \E left : Continue(p, left)
    PROVE  \A k \in Conns : reader'[k] = reader[k] \/ (k = p /\ Held(k) /\ Held(k)')
<1>1. reader' \in {[reader EXCEPT ![p] = "looking"],
                  [reader EXCEPT ![p] = IF p \in Conns THEN "checking" ELSE "done"]}
  BY DEF HistoryFails, Return, Continue
<1> QED BY <1>1 DEF TypeOK, Procs, Held

\* Safe is inductive, given the types.
LEMMA SafeInductive == TypeOK /\ TypeOK' /\ Safe /\ [Next]_vars => Safe'
<1> SUFFICES ASSUME TypeOK, TypeOK', Safe, [Next]_vars PROVE Safe'
  OBVIOUS
<1> USE NamesAssumption
<1> USE DEF Held, Writes
<1>1. ASSUME NEW k \in Conns, InitConnection(k) PROVE Safe'
  <2> USE DEF InitConnection, SaveClient
  <2> DEFINE l == LoginOf[k]
  <2>1. l \in Logins /\ conn[k] = "none" /\ reader[k] = "none" /\ writer[k] = "none"
    BY <1>1 DEF Safe, Untouched
  <2>2. storage'[l] = k /\ \A m \in Logins \ {l} : storage'[m] = storage[m] /\ storage[m] # k
    BY <1>1, <2>1 DEF Safe, RegistryConsistent, TypeOK
  <2>3. \A j \in Conns \ {k} :
           /\ conn'[j] = conn[j] /\ before'[j] = before[j]
           /\ reader'[j] = reader[j] /\ writer'[j] = writer[j]
    BY <1>1 DEF TypeOK, Procs
  <2>4. /\ conn'[k] = "open" /\ reader'[k] = "starting" /\ writer'[k] = "starting"
        /\ before'[k] = {j \in Conns : conn[j] # "none"}
    BY <1>1 DEF TypeOK, Procs
  <2>5. RegistryConsistent'
    BY <1>1, <2>1, <2>2, <2>3, <2>4 DEF Safe, RegistryConsistent, Untouched, TypeOK, Clients
  <2>6. RegisteredIsServed'
    BY <1>1, <2>1, <2>2, <2>3, <2>4
       DEF Safe, RegisteredIsServed, ReaderServes, WriterServes, TypeOK, Clients
  <2>7. GoroutinesNeverOlder'
    BY <1>1, <2>3, <2>4 DEF Safe, GoroutinesNeverOlder, NeverOlder, HeldIsSaved
  <2>8. Untouched' /\ HoldsClient'
    BY <1>1, <2>3, <2>4 DEF Safe, Untouched, HoldsClient
  <2>9. RegisteredIsLatest'
    BY <1>1, <2>1, <2>2, <2>3, <2>4 DEF Safe, RegisteredIsLatest, RegistryConsistent, TypeOK, Clients
  <2>10. HeldIsSaved'
    BY <1>1, <2>3, <2>4 DEF Safe, HeldIsSaved
  <2> QED BY <2>5, <2>6, <2>7, <2>8, <2>9, <2>10 DEF Safe
<1>2. ASSUME NEW k \in Conns, PeerGone(k) PROVE Safe'
  <2>1. RegistryConsistent' /\ Untouched' /\ RegisteredIsLatest' /\ HeldIsSaved'
    BY <1>2 DEF PeerGone, readers, writers, Safe, RegistryConsistent, Untouched,
                RegisteredIsLatest, HeldIsSaved, TypeOK
  <2>2. RegisteredIsServed' /\ GoroutinesNeverOlder' /\ HoldsClient'
    BY <1>2 DEF PeerGone, readers, writers, Safe, RegisteredIsServed, ReaderServes, WriterServes,
                GoroutinesNeverOlder, NeverOlder, HoldsClient
  <2> QED BY <2>1, <2>2 DEF Safe
<1>3. ASSUME NEW k \in Conns, ReaderStart(k) PROVE Safe'
  BY <1>3, StartSafe DEF ReaderStart, channels, writers
<1>4. ASSUME NEW k \in Conns, ReaderCheck(k) PROVE Safe'
  <2>1. CASE ctx[k] = "cancelled"
    BY <1>4, <2>1, CancelledSafe DEF ReaderCheck, channels, writers, ReaderExits
  <2>2. CASE ctx[k] # "cancelled"
    BY <1>4, <2>2, DeliverySafe DEF ReaderCheck, channels, writers, TypeOK, Procs
  <2> QED BY <2>1, <2>2
<1>5. ASSUME NEW k \in Conns, reader[k] = "reading", ReaderFails(k) PROVE Safe'
  BY <1>5, DeleteSafe DEF ReaderFails, writers, Safe, HoldsClient, Untouched
<1>6. ASSUME NEW k \in Conns, ReadEvent(k) PROVE Safe'
  BY <1>6, DeliverySafe DEF ReadEvent, channels, writers, TypeOK, Procs
<1>7. ASSUME NEW r \in Requests, StartRequest(r) PROVE Safe'
  BY <1>7, DeliverySafe DEF StartRequest, channels, writers, TypeOK, Procs
<1>8. ASSUME NEW p \in Procs, Delivery(p) PROVE Safe'
  <2>1. CASE LookupOffline(p)
    <3>1. reader[p] = "looking" /\ (HistoryFails(p) \/ \E left : Continue(p, left))
      BY <2>1 DEF LookupOffline
    <3>2. \A k \in Conns : reader'[k] = reader[k] \/ (k = p /\ Held(k) /\ Held(k)')
      BY <3>1, MovesHeld
    <3> QED BY <2>1, <3>2, DeliverySafe DEF LookupOffline, channels, writers
  <2>2. CASE LookupOnline(p)
    BY <2>2, DeliverySafe DEF LookupOnline, channels, writers, TypeOK
  <2>3. CASE SendEvent(p)
    <3>1. \A k \in Conns : reader'[k] = reader[k] \/ (k = p /\ Held(k) /\ Held(k)')
      BY <2>3, MovesHeld DEF SendEvent
    <3> QED BY <2>3, <3>1, DeliverySafe DEF SendEvent, writers
  <2>4. CASE SendTimeout(p)
    <3>1. \A k \in Conns : reader'[k] = reader[k] \/ (k = p /\ Held(k) /\ Held(k)')
      BY <2>4, MovesHeld DEF SendTimeout
    <3> QED BY <2>4, <3>1, DeliverySafe DEF SendTimeout, channels, writers
  <2>5. CASE SendPanics(p)
    <3>1. CASE p \in Conns
      BY <2>5, <3>1, CrashSafe DEF SendPanics
    <3>2. CASE p \notin Conns
      <4>1. \A k \in Conns : reader'[k] = reader[k] \/ (k = p /\ Held(k) /\ Held(k)')
        BY <2>5, <3>2, MovesHeld DEF SendPanics
      <4> QED BY <2>5, <3>2, <4>1, DeliverySafe DEF SendPanics, channels, writers
    <3> QED BY <3>1, <3>2
  <2> QED BY <1>8, <2>1, <2>2, <2>3, <2>4, <2>5 DEF Delivery
<1>9. ASSUME NEW k \in Conns, WriterStart(k) PROVE Safe'
  BY <1>9, StartSafe DEF WriterStart, channels, readers
<1>10. ASSUME NEW k \in Conns, WriterCancelled(k) PROVE Safe'
  BY <1>10, CancelledSafe DEF WriterCancelled, channels, readers, WriterExits
<1>11. ASSUME NEW k \in Conns, WriterTakes(k) \/ WriterWrote(k) PROVE Safe'
  <2>1. Writes(k) /\ Writes(k)' /\ \A j \in Conns \ {k} : writer'[j] = writer[j]
    BY <1>11 DEF WriterTakes, WriterWrote, Writes, TypeOK
  <2> QED BY <1>11, <2>1, WritingSafe DEF WriterTakes, WriterWrote, channels, readers
<1>12. ASSUME NEW k \in Conns, WriteRace(k) PROVE Safe'
  BY <1>12, CrashSafe DEF WriteRace
<1>13. ASSUME NEW k \in Conns, writer[k] = "select", WriterFails(k) PROVE Safe'
  BY <1>13, DeleteSafe DEF WriterFails, readers, Safe, Untouched
<1>14. CASE UNCHANGED vars
  BY <1>14 DEF vars, Safe, RegistryConsistent, RegisteredIsServed, ReaderServes, WriterServes,
               GoroutinesNeverOlder, NeverOlder, Untouched, HoldsClient, RegisteredIsLatest, HeldIsSaved
<1> QED
  BY <1>1, <1>2, <1>3, <1>4, <1>5, <1>6, <1>7, <1>8, <1>9, <1>10, <1>11, <1>12, <1>13, <1>14
  DEF Next, Procs, ReaderStep, WriterStep, ReadError, ReadRace, WriterSeesClose, HeartbeatError

\* The registry is sound: DeleteClient never closes a channel twice and never
\* leaves half of a client open (clientStorage.go:58-75), no registered client
\* is without its goroutines, and a late goroutine never takes an older client.
THEOREM RegistrySafe == Spec => [](RegistryConsistent /\ RegisteredIsServed /\ GoroutinesNeverOlder)
<1>1. Init => Safe
  BY NamesAssumption
     DEF Init, Safe, RegistryConsistent, RegisteredIsServed, GoroutinesNeverOlder, NeverOlder,
         Untouched, HoldsClient, RegisteredIsLatest, HeldIsSaved, Held, Writes, Procs
<1>2. Safe => RegistryConsistent /\ RegisteredIsServed /\ GoroutinesNeverOlder
  BY DEF Safe
<1>3. QED
  BY <1>1, <1>2, SafeInductive, TypeCorrect, PTL DEF Spec

\* A client that GetClient can still find is read and written by its own two
\* goroutines (ReadMessage, WriteMessage).
THEOREM RegisteredServed == Spec => []RegisteredIsServed
BY RegistrySafe, PTL

\* A goroutine that was scheduled late never works on a client older than its
\* own (GetClient by login, messageService.go:50 and 86).
THEOREM NeverAnOlderClient == Spec => []GoroutinesNeverOlder
BY RegistrySafe, PTL

\* The goroutine that executes DeleteClient evicts its own or a newer session.
LEMMA DeleteEvicts ==
    ASSUME TypeOK, Safe, NEW k \in Conns, DeleteClient(LoginOf[k]),
           \/ reader[k] = "reading" /\ ReaderExits(k)
           \/ writer[k] = "select" /\ WriterExits(k)
    PROVE  OwnOrEarlierEvicts
<1> SUFFICES ASSUME NEW l \in Logins, storage[l] # NoClient, storage'[l] = NoClient
             PROVE  /\ \/ reader[k] = "reading" /\ reader'[k] = "done"
                       \/ writer[k] = "select" /\ writer'[k] = "done"
                    /\ LoginOf[k] = l
                    /\ k = storage[l] \/ k \in before[storage[l]]
  BY DEF OwnOrEarlierEvicts
<1>1. LoginOf[k] = l
  BY NamesAssumption DEF DeleteClient, TypeOK
<1>2. conn[k] # "none"
  BY DEF Safe, Untouched
<1>3. k = storage[l] \/ k \in before[storage[l]]
  BY <1>1, <1>2 DEF Safe, RegisteredIsLatest
<1>4. \/ reader[k] = "reading" /\ reader'[k] = "done"
      \/ writer[k] = "select" /\ writer'[k] = "done"
  BY DEF ReaderExits, WriterExits, TypeOK, Procs
<1> QED BY <1>1, <1>3, <1>4

\* A session is evicted only by a goroutine of its own or of an earlier session
\* of the same login (DeleteClient takes a login, not a client:
\* messageService.go:65, 77 and 99).
THEOREM EvictionIsOwnOrEarlier == Spec => EvictedByOwnOrEarlierSession
<1>1. TypeOK /\ Safe /\ [Next]_vars => [OwnOrEarlierEvicts]_vars
  <2> SUFFICES ASSUME TypeOK, Safe, Next PROVE OwnOrEarlierEvicts
    OBVIOUS
  <2>1. CASE UNCHANGED storage
    BY <2>1 DEF OwnOrEarlierEvicts
  <2>2. ASSUME NEW k \in Conns, InitConnection(k) PROVE OwnOrEarlierEvicts
    <3>1. \A l \in Logins : storage'[l] \in {storage[l], k}
      BY <2>2 DEF InitConnection, SaveClient, TypeOK
    <3> QED BY <3>1, NamesAssumption DEF OwnOrEarlierEvicts
  <2>3. ASSUME NEW k \in Conns, reader[k] = "reading", ReaderFails(k) PROVE OwnOrEarlierEvicts
    <3>1. LoginOf[readerOf[k]] = LoginOf[k]
      BY <2>3 DEF Safe, HoldsClient, Held
    <3> QED BY <2>3, <3>1, DeleteEvicts DEF ReaderFails
  <2>4. ASSUME NEW k \in Conns, writer[k] = "select", WriterFails(k) PROVE OwnOrEarlierEvicts
    BY <2>4, DeleteEvicts DEF WriterFails
  <2>5. ASSUME NEW why \in {"sendOnClosed", "concurrentWrite"}, Crash(why) PROVE OwnOrEarlierEvicts
    BY <2>5 DEF Crash, OwnOrEarlierEvicts
  <2> QED
    BY <2>1, <2>2, <2>3, <2>4, <2>5
    DEF Next, ReaderStep, WriterStep, Delivery, PeerGone, ReaderStart, ReaderCheck, ReadEvent,
        ReadError, ReadRace, StartRequest, LookupOffline, LookupOnline, SendEvent, SendTimeout,
        SendPanics, WriterStart, WriterCancelled, WriterTakes, WriterWrote, WriteRace,
        WriterSeesClose, HeartbeatError
<1>2. Init => Safe
  BY NamesAssumption
     DEF Init, Safe, RegistryConsistent, RegisteredIsServed, GoroutinesNeverOlder, NeverOlder,
         Untouched, HoldsClient, RegisteredIsLatest, HeldIsSaved, Held, Writes, Procs
<1>3. QED
  BY <1>1, <1>2, SafeInductive, TypeCorrect, PTL DEF Spec, EvictedByOwnOrEarlierSession
=============================================================================
