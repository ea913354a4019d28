---------------------------- MODULE StdioBridge ----------------------------
(***************************************************************************)
(* StdioJsonlBridge and StdioBinaryBridge: one reader takes request frames *)
(* from the host, reserves a place for each, answers initialize requests   *)
(* itself and hands every other request to a task of its own; at the end   *)
(* of the input it waits for the tasks, and cancels them when they do not  *)
(* end in time.                                                            *)
(*                                                                         *)
(* All of it runs on one event loop.  Reading a frame ends in the reader's *)
(* next read, and a task made for a frame takes its first step before that *)
(* read can return, so one action stands for both: a request that fails    *)
(* without waiting (before the handshake, or for want of a resource        *)
(* handler) is answered and released before the next frame is seen.        *)
(* Writing an answer does not yield, so answers are never interleaved.     *)
(***************************************************************************)
EXTENDS WireLimits, FiniteSets

CONSTANTS
  LocalLimits,   \* the limits the bridge may be constructed with
  Offers,        \* the hellos the host may send
  RequestIds,    \* the request ids the host uses, again after an answer too
  Tasks,         \* the tasks of the event loop
  HasResources,  \* a resource handler was injected
  IsJsonl,       \* the JSONL bridge rather than the binary one
  ReplySize      \* the length of the bridge's longest reply of its own

ASSUME BridgeAssumption ==
  /\ \A l \in LocalLimits : l \in Limits /\ Valid(l)
  /\ \A h \in Offers : h \in Hellos
  /\ HasResources \in BOOLEAN
  /\ IsJsonl \in BOOLEAN
  /\ ReplySize \in Nat

VARIABLES
  configured,  \* the limits the bridge was constructed with
  limits,      \* _limits of the bridge and of its dispatcher
  negotiated,  \* _negotiated of the dispatcher
  reader,      \* where _serve_protocol is
  activeIds,   \* _active_ids
  activeWork,  \* _active_non_management
  task         \* what each task works on

vars == <<configured, limits, negotiated, reader, activeIds, activeWork, task>>

(* The opcodes, as far as the bridge tells them apart.                     *)
Kinds == {"run", "resource", "management"}
Free == <<>>
Requests == [id : RequestIds, kind : Kinds]

(* Why serve has raised: over a reply that is too long, or over a line.    *)
Failed == {"overlong", "garbled"}

Live == {t \in Tasks : task[t] # Free}
LiveWork == {t \in Live : task[t].kind # "management"}
LiveManagement == {t \in Live : task[t].kind = "management"}

Init ==
  /\ configured \in LocalLimits
  /\ limits = configured
  /\ negotiated = FALSE
  /\ reader = "reading"
  /\ activeIds = {}
  /\ activeWork = 0
  /\ task = [t \in Tasks |-> Free]

-----------------------------------------------------------------------------
(* Wrong variants of the definitions below, each a bug the code could have. *)
FullOneLate(id, kind) ==                                      \* Full
  \/ Cardinality(activeIds) > limits.inflight
  \/ kind # "management" /\ activeWork > limits.inflight - limits.reserved
FullUnreserved(id, kind) == Cardinality(activeIds) >= limits.inflight  \* Full
UnservedResourceOnly(kind) == kind = "resource" /\ ~HasResources       \* Unserved
ReleasedIdOnly(t) ==                                          \* Released
  /\ task' = [task EXCEPT ![t] = Free]
  /\ activeIds' = activeIds \ {task[t].id}
  /\ UNCHANGED activeWork
StopAtTimeout ==                                              \* ShutdownTimeout
  /\ reader = "draining"
  /\ Live # {}
  /\ reader' = "stopped"
  /\ UNCHANGED <<configured, limits, negotiated, activeIds, activeWork, task>>
WaitForever ==                                                \* ShutdownTimeout
  /\ FALSE
  /\ UNCHANGED vars

-----------------------------------------------------------------------------
(* _reserve finds the request's place taken.                               *)
Duplicate(id) == id \in activeIds

(* _reserve finds no capacity left: none at all, or none for work beside   *)
(* the places kept free for management requests.                           *)
Full(id, kind) ==
  \/ Cardinality(activeIds) >= limits.inflight
  \/ kind # "management" /\ activeWork >= limits.inflight - limits.reserved

Refused(id, kind) == Duplicate(id) \/ Full(id, kind)

(* dispatch raises before it waits for anything.                           *)
Unserved(kind) ==
  \/ ~negotiated
  \/ kind = "resource" /\ ~HasResources

(* An error reply of the bridge may be longer than the limits let it be.   *)
ReplyMayNotFit ==
  \/ ReplySize > limits.payload
  \/ IsJsonl /\ ReplySize > limits.line

(* The reader writes a reply itself, whose text is the bridge's own or has *)
(* passed decode_request.  If it is too long, encoding it raises in        *)
(* _serve_protocol, which ends there, and asyncio.run cancels what still   *)
(* runs.                                                                   *)
ReaderReplies ==
  \/ reader' = "reading"
  \/ ReplyMayNotFit /\ reader' = "overlong"

(* A frame of an initialize request.  While dispatch answers it, the       *)
(* reservation it holds is seen by nobody.                                 *)
ReadInitialize(id, h) ==
  /\ reader = "reading"
  /\ IF ~Refused(id, "management") /\ ~negotiated /\ Agrees(h, limits)
     THEN /\ limits' = Negotiated(limits, Ack(h, limits))
          /\ negotiated' = TRUE
     ELSE UNCHANGED <<limits, negotiated>>
  /\ ReaderReplies
  /\ UNCHANGED <<configured, activeIds, activeWork, task>>

(* A frame of any other request that is not refused, and the first step of *)
(* the task made for it.                                                   *)
Accept(t, id, kind) ==
  /\ reader = "reading"
  /\ ~Refused(id, kind)
  /\ ~Unserved(kind)
  /\ task[t] = Free
  /\ task' = [task EXCEPT ![t] = [id |-> id, kind |-> kind]]
  /\ activeIds' = activeIds \cup {id}
  /\ activeWork' = IF kind = "management" THEN activeWork ELSE activeWork + 1
  /\ UNCHANGED <<configured, limits, negotiated, reader>>

(* A frame that _reserve refuses: the reader writes the error reply.       *)
Reject(id, kind) ==
  /\ reader = "reading"
  /\ Refused(id, kind)
  /\ ReaderReplies
  /\ UNCHANGED <<configured, limits, negotiated, activeIds, activeWork, task>>

(* A JSONL line that cannot be decoded.  It is skipped when it names no    *)
(* request, and answered with an error when it names one.  But some lines  *)
(* raise where nothing catches it: in readline or line.encode(), when they *)
(* are no UTF-8 text; in _safe_json_identity, when json.loads raises more  *)
(* than a JSONDecodeError (nested too deeply, a number of too many digits); *)
(* in encode_jsonl_response, when the error quotes a method that holds a   *)
(* lone surrogate.                                                         *)
Undecodable ==
  /\ reader = "reading"
  /\ IsJsonl
  /\ ReaderReplies \/ reader' = "garbled"
  /\ UNCHANGED <<configured, limits, negotiated, activeIds, activeWork, task>>

(* The input ends, or no more of it is read: an oversized JSONL line, any  *)
(* malformed binary frame.                                                 *)
EndOfInput ==
  /\ reader = "reading"
  /\ reader' = "draining"
  /\ UNCHANGED <<configured, limits, negotiated, activeIds, activeWork, task>>

(* _release. *)
Released(t) ==
  /\ task' = [task EXCEPT ![t] = Free]
  /\ activeIds' = activeIds \ {task[t].id}
  /\ activeWork' =
       IF task[t].kind = "management" THEN activeWork ELSE activeWork - 1

(* _dispatch_and_write ends: with the result or an error reply written, or *)
(* with neither, when the error reply cannot be encoded or the task was    *)
(* cancelled.  The finally clause releases the request in every case.      *)
TaskEnds(t) ==
  /\ t \in Live
  /\ Released(t)
  /\ UNCHANGED <<configured, limits, negotiated, reader>>

(* The shutdown timeout passes: the tasks that are left are cancelled.     *)
ShutdownTimeout ==
  /\ reader = "draining"
  /\ Live # {}
  /\ reader' = "cancelling"
  /\ UNCHANGED <<configured, limits, negotiated, activeIds, activeWork, task>>

(* serve returns once every task it waits for has ended.                   *)
Stop ==
  /\ reader \in {"draining", "cancelling"}
  /\ Live = {}
  /\ reader' = "stopped"
  /\ UNCHANGED <<configured, limits, negotiated, activeIds, activeWork, task>>

Next ==
  \/ \E id \in RequestIds :
       \/ \E h \in Offers : ReadInitialize(id, h)
       \/ \E kind \in Kinds :
            Reject(id, kind) \/ \E t \in Tasks : Accept(t, id, kind)
  \/ \E t \in Tasks : TaskEnds(t)
  \/ Undecodable
  \/ EndOfInput
  \/ ShutdownTimeout
  \/ Stop

Spec == Init /\ [][Next]_vars

(* A timer fires, a cancelled task ends (a runner does not keep catching   *)
(* its CancelledError), a wait that is over returns.  Nothing makes the    *)
(* host send or a runner finish.                                           *)
Fairness ==
  /\ WF_vars(ShutdownTimeout)
  /\ WF_vars(Stop)
  /\ \A t \in Tasks :
       WF_vars(reader \in {"cancelling"} \cup Failed /\ TaskEnds(t))

FairSpec == Spec /\ Fairness

-----------------------------------------------------------------------------
(* The type of the state.  A bridge has stopped only when no task is left. *)
TypeOK ==
  /\ configured \in LocalLimits
  /\ limits \in Limits
  /\ negotiated \in BOOLEAN
  /\ reader \in {"reading", "draining", "cancelling", "stopped"} \cup Failed
  /\ activeIds \in SUBSET RequestIds
  /\ activeWork \in Nat
  /\ task \in [Tasks -> Requests \cup {Free}]
  /\ reader = "stopped" => Live = {}

(* The bookkeeping is that of the tasks: the ids held are those of the     *)
(* requests being worked on, no two of them share one, and the counter is  *)
(* the number of those that are not management requests.                   *)
ReservationsMatch ==
  /\ activeIds = {task[t].id : t \in Live}
  /\ \A t, u \in Live : task[t].id = task[u].id => t = u
  /\ activeWork = Cardinality(LiveWork)

(* Never more requests in flight than the limits in force allow, those     *)
(* the handshake has lowered included, and never more work than leaves     *)
(* the reserved places free.                                               *)
WithinCapacity ==
  /\ Cardinality(Live) <= limits.inflight
  /\ Cardinality(LiveWork) <= limits.inflight - limits.reserved

(* What the reserve is for: while fewer management requests are in flight  *)
(* than places are reserved, a cancel or dispose is not refused for want   *)
(* of capacity, however saturated the bridge is with work.                 *)
ManagementAdmitted ==
  Cardinality(LiveManagement) < limits.reserved =>
    \A id \in RequestIds : Full(id, "management") => Duplicate(id)

(* The limits change once, and with no request in flight: none that was    *)
(* admitted under the wider limits is ever held to the narrower ones.      *)
LimitsChangeWhenIdle ==
  [][limits' # limits => ~negotiated /\ negotiated' /\ activeIds = {}]_vars

(* The inline resource limit, which no handshake lowers, keeps room for    *)
(* the bridge's own replies: if it does at the start, no sequence of       *)
(* offers and requests can end serve with a reply that does not fit.  What *)
(* can end it then is a line of the JSONL bridge that is not proper text,  *)
(* and nothing at all in the binary one.                                   *)
InlineLimitKeepsServing ==
  reader \in Failed =>
    \/ configured.inline < ReplySize
    \/ IsJsonl /\ (configured.line < ReplySize \/ reader = "garbled")

(* The end of the input ends the bridge, whatever the runners do.          *)
InputEndStops == reader = "draining" ~> reader = "stopped"

(* A bridge that is shutting down or has failed lets go of every request.  *)
ShutdownReleases ==
  reader \in {"draining"} \cup Failed ~> activeIds = {} /\ activeWork = 0
=============================================================================
