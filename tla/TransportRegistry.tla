------------------------- MODULE TransportRegistry -------------------------
(***************************************************************************)
(* The transport sessions of one HTTP server process after the other       *)
(* (transports/http/registry.py and the routes of app.py), over the file   *)
(* of one agent session (module SessionStore).  Each transport session has *)
(* a backend of its own with a store of its own, so a store stands for its *)
(* transport session and its backend.                                      *)
(*                                                                         *)
(* The routes run on one event loop, so a request that waits keeps every   *)
(* other request waiting; the backends' workers go on writing meanwhile.   *)
(* Sessions with other files only occupy the active slot and are left out. *)
(***************************************************************************)
EXTENDS SessionStore

VARIABLES
  transport,  \* per session: "none"; while it is open, how far its event
              \* pump got: "open" (no thread), "starting" (a thread that is
              \* not started yet) or "streaming"; then how it was closed:
              \* "deleting"   a DELETE waits for its backend
              \* "deleted"    the DELETE was answered 204
              \* "commanded"  a CloseSession was answered 202
              \* "stranded"   the close raised, and was answered 500
              \* "forgotten"  stranded, and a second DELETE answered 204
  active,     \* TransportSessionRegistry._active_id, as a set of at most one
  request,    \* the request in progress: its kind and its session, as a set
  overlapped  \* history: a session was posted beside a backend that lingered

registryVars == <<transport, active, request>>
allVars      == <<storeVars, registryVars, overlapped>>

Request(kind, s) == [kind |-> kind, session |-> s]

RegistryInit ==
  /\ StoreInit
  /\ transport = [s \in Stores |-> "none"]
  /\ active = {} /\ request = {} /\ overlapped = FALSE

Idle == request = {}

-----------------------------------------------------------------------------
(* Creating a session. *)

(* Mutant of Vacant: any session may be followed by another. *)
VacantAlways == TRUE

IsOpen(s) == transport[s] \in {"open", "starting", "streaming"}

(* create refuses while the active session is not closed. *)
Vacant == \A s \in active : ~IsOpen(s)

(* The backend is there, and its session takes the active slot. *)
Activate(s) ==
  /\ Open(s)
  /\ transport' = [transport EXCEPT ![s] = "open"]
  /\ active' = {s} /\ request' = {}

(* POST without a session to resume. *)
CreateNew(s) ==
  /\ Idle /\ Vacant
  /\ \A t \in Stores : transport[t] = "none"
  /\ Activate(s)

(* POST with a session to resume: its file must be readable and have an    *)
(* event; an interrupted last append is cut off before the store opens it. *)
MayResume(s) ==
  /\ Idle /\ Vacant /\ transport[s] = "none"
  /\ Readable(file) /\ Recovered(file) # {}

PrepareResume(s) ==
  /\ MayResume(s) /\ DiscardTail
  /\ request' = {Request("resume", s)}
  /\ UNCHANGED <<transport, active>>

CompleteResume(s) ==
  /\ (MayResume(s) /\ ~HasTail(file)) \/ Request("resume", s) \in request
  /\ Activate(s)

(* Another backend has spoiled the file since it was prepared. *)
FailResume(s) ==
  /\ Request("resume", s) \in request /\ ~Readable(file)
  /\ request' = {}
  /\ UNCHANGED <<storeVars, transport, active>>

-----------------------------------------------------------------------------
(* The first event stream, on a thread of its own: subscribe publishes the *)
(* thread of the event pump under the lock, and starts it after that.      *)

OpenStream(s) ==
  /\ transport[s] = "open"
  /\ transport' = [transport EXCEPT ![s] = "starting"]
  /\ UNCHANGED <<storeVars, active, request>>

StartPump(s) ==
  /\ transport[s] = "starting"
  /\ transport' = [transport EXCEPT ![s] = "streaming"]
  /\ UNCHANGED <<storeVars, active, request>>

-----------------------------------------------------------------------------
(* Closing a session: it is marked, and gives the active slot free, before *)
(* anybody asks its backend.                                               *)

Release(s, how) ==
  /\ transport' = [transport EXCEPT ![s] = how]
  /\ active' = active \ {s}

(* The command is delivered, and the backend closed without waiting for it. *)
CloseByCommand(s) ==
  /\ Idle /\ transport[s] \in {"open", "streaming"}
  /\ Release(s, "commanded")
  /\ UNCHANGED <<storeVars, request>>

(* DELETE waits for the backend, also for the close a command began.       *)
Delete(s) ==
  /\ Idle
  /\ \/ transport[s] \in {"open", "streaming"} /\ Release(s, "deleting")
     \/ transport[s] = "commanded" /\ Release(s, "commanded")
  /\ request' = {Request("delete", s)}
  /\ UNCHANGED storeVars

(* A command or a DELETE whose close raises: the thread of the event pump  *)
(* cannot be joined before it is started, and the backend is never asked   *)
(* to close.                                                               *)
CloseRaises(s) ==
  /\ Idle /\ transport[s] = "starting"
  /\ Release(s, "stranded")
  /\ UNCHANGED <<storeVars, request>>

(* A session that is marked as closed and has no thread closing it is      *)
(* deleted at once; when it was deleted before, nothing changes.           *)
DeleteAgain(s) ==
  /\ Idle /\ transport[s] = "stranded"
  /\ Release(s, "forgotten")
  /\ UNCHANGED <<storeVars, request>>

BackendClosed(s) == mode[s] = "closed"

(* The DELETE of session s is answered 204. *)
AnswerDelete(s) ==
  /\ Request("delete", s) \in request /\ request' = {}
  /\ transport' = [transport EXCEPT ![s] = "deleted"]
  /\ UNCHANGED <<storeVars, active>>

Deleted(s) == BackendClosed(s) /\ AnswerDelete(s)

(* The wait for the backend is bounded, by the time the backend allows its *)
(* own worker, and the answer does not tell how it ended.                  *)
DeleteGivesUp(s) == ~BackendClosed(s) /\ AnswerDelete(s)

(* AgentBackendService.close, on a thread of its own: the store closes     *)
(* when the worker has ended or has had its time.                          *)
CloseBackend(s) ==
  /\ transport[s] \in {"commanded", "deleting", "deleted"}
  /\ Close(s)
  /\ UNCHANGED registryVars

-----------------------------------------------------------------------------
(* The worker of a backend writes until its store is closed. *)
Work(s) == (AppendEvent(s) \/ FailAppend(s)) /\ UNCHANGED registryVars

(* The store of session s has its file open. *)
Held(s) == mode[s] \in {"open", "failed"}

(* The server process ends, and the next one knows no transport session.   *)
(* At most one of its writes is cut.                                       *)
EndProcess ==
  LET held == {s \in Stores : Held(s)}
  IN  /\ held # {}
      /\ \E s \in held : Cut(s)
      /\ mode' = [s \in Stores |-> IF s \in held THEN "closed" ELSE mode[s]]
      /\ transport' = [s \in Stores |-> IF transport[s] = "none" THEN "none"
                                        ELSE "deleted"]
      /\ active' = {} /\ request' = {}
      /\ UNCHANGED <<memory, acked>>

(* A session the frontend was told is closed, or was told nothing good of, *)
(* while its backend still has the file.                                   *)
Lingers(s) ==
  Held(s) /\ transport[s] \in {"commanded", "deleted", "stranded", "forgotten"}

(* A request for a session, new or resumed. *)
Post(s) ==
  /\ CreateNew(s) \/ PrepareResume(s) \/ CompleteResume(s)
  /\ overlapped' = (overlapped \/ \E t \in Stores : Lingers(t))

(* What else a frontend asks for, and what becomes of it. *)
Manage(s) ==
  \/ FailResume(s) \/ OpenStream(s) \/ StartPump(s)
  \/ CloseByCommand(s) \/ Delete(s) \/ CloseRaises(s) \/ DeleteAgain(s)
  \/ Deleted(s) \/ DeleteGivesUp(s)

(* Everything but a new request for a session. *)
GoOn ==
  /\ \/ EndProcess
     \/ \E s \in Stores : Manage(s) \/ CloseBackend(s) \/ Work(s)
  /\ UNCHANGED overlapped

(* What the interface allows any frontend. *)
RegistryNext == GoOn \/ \E s \in Stores : Post(s)

RegistrySpec == RegistryInit /\ [][RegistryNext]_allVars

(* Every session that is closed was answered with the 204 of a DELETE. *)
NoneAbandoned ==
  \A s \in Stores : transport[s] \notin {"commanded", "stranded"}

(* Frontends that replace a session as the web client is meant to: they    *)
(* delete what they know until that is answered, and post only then.       *)
PatientNext == GoOn \/ (NoneAbandoned /\ \E s \in Stores : Post(s))

PatientSpec == RegistryInit /\ [][PatientNext]_allVars

-----------------------------------------------------------------------------
(* Properties. *)

Transports ==
  {"none", "open", "starting", "streaming", "deleting", "deleted",
   "commanded", "stranded", "forgotten"}

RegistryTypeOK ==
  /\ StoreTypeOK
  /\ transport \in [Stores -> Transports]
  /\ active \subseteq Stores /\ Cardinality(active) =< 1
  /\ request \subseteq [kind : {"resume", "delete"}, session : Stores]
  /\ Cardinality(request) =< 1 /\ overlapped \in BOOLEAN

(* The registry itself never lets two backends at one file: whatever is    *)
(* posted, resumed, deleted or cut by the end of the process, in whatever  *)
(* order, to the file the sessions are one store after the other, as       *)
(* StoreSpec allows, until a session is posted beside a backend that       *)
(* lingers behind its answer (registry.py, create and close_session).      *)
(* That this happens is what SequencesMonotonic and OneBackend show.       *)
ImplementsStore == StoreInit /\ [][~overlapped' => StoreNext]_storeVars

(* Until then the file keeps what SessionStore states of it, also while a  *)
(* backend that lingers writes on: it can be read again wherever a write   *)
(* was cut by a failing disk or by the end of the process ...              *)
FileReadable == overlapped \/ AlwaysReadable

(* ... no event whose append returned is lost, to a later append, to a     *)
(* resume that cuts off a tail or to the next process ...                  *)
FileComplete == overlapped \/ AcknowledgedRecovered

(* ... and no record a reader can see moves (session.py, append and        *)
(* discard_incomplete_tail).                                               *)
FileFinal == [][overlapped' \/ RecordsStay]_storeVars

(* "The sequences of a session are assigned by its store, and stay         *)
(* monotonic and without duplicates also under concurrent writes"          *)
(* (requirements baseline, FR-34).                                         *)
SequencesMonotonic ==
  LET lines == SelectSeq(file, Parses)
  IN  \A i \in 2 .. Len(lines) : lines[i - 1].sequence < lines[i].sequence

(* "New and resume both DELETE the known current transport before they     *)
(* POST; no second backend may be built for a concurrent switch"           *)
(* (webgui-history-sidebar, ARCHITECTURE).                                 *)
OneBackend == \A s, t \in Stores : Held(s) /\ Held(t) => s = t
=============================================================================
