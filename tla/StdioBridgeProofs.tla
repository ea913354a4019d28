-------------------------- MODULE StdioBridgeProofs --------------------------
(***************************************************************************)
(* The bookkeeping of the bridge, for any number of tasks and request ids, *)
(* any limits and any offers.                                              *)
(***************************************************************************)
EXTENDS StdioBridge, FiniteSetTheorems, TLAPS

(* The limits in force are valid and came from a handshake, or from the    *)
(* constructor; before the handshake nothing is in flight.                 *)
LimitsOK ==
  /\ Valid(limits)
  /\ limits.inline = configured.inline
  /\ limits.line = configured.line
  /\ ~negotiated => Live = {}

(* The counting that the capacity checks of _reserve rest on. *)
CountsOK ==
  /\ IsFiniteSet(Live)
  /\ IsFiniteSet(activeIds)
  /\ Cardinality(activeIds) = Cardinality(Live)

(* The inductive invariant. *)
IndInv ==
  /\ TypeOK
  /\ LimitsOK
  /\ CountsOK
  /\ ReservationsMatch
  /\ WithinCapacity
  /\ InlineLimitKeepsServing

-----------------------------------------------------------------------------
(* An agreement gives limits that are valid and keep what the handshake    *)
(* does not negotiate.                                                     *)
LEMMA AgreementOK ==
  ASSUME NEW l \in Limits, NEW h \in Hellos, Agrees(h, l)
  PROVE  /\ Negotiated(l, Ack(h, l)) \in Limits
         /\ Valid(Negotiated(l, Ack(h, l)))
         /\ Negotiated(l, Ack(h, l)).inline = l.inline
         /\ Negotiated(l, Ack(h, l)).line = l.line
<1>1. \A a, b \in Int : SmallerOf(a, b) \in Int
  BY DEF SmallerOf
<1>2. /\ Ack(h, l).frame \in Int /\ Ack(h, l).payload \in Int
      /\ Ack(h, l).inflight \in Int /\ Ack(h, l).reserved \in Int
  BY <1>1 DEF Ack, Hellos, Limits
<1>3. Negotiated(l, Ack(h, l)) \in Limits
  BY <1>2 DEF Negotiated, Limits
<1>4. Negotiated(l, Ack(h, l)).inline = l.inline /\ Negotiated(l, Ack(h, l)).line = l.line
  BY DEF Negotiated, Limits
<1> QED
  BY <1>3, <1>4 DEF Agrees

(* The live tasks of a bridge split into those on work and those on        *)
(* management requests.                                                    *)
LEMMA LiveSplits ==
  ASSUME IsFiniteSet(Live)
  PROVE  /\ IsFiniteSet(LiveWork) /\ IsFiniteSet(LiveManagement)
         /\ Cardinality(LiveWork) \in Nat /\ Cardinality(LiveManagement) \in Nat
         /\ Cardinality(Live) = Cardinality(LiveWork) + Cardinality(LiveManagement)
<1>1. LiveWork \subseteq Live /\ LiveManagement \subseteq Live
  BY DEF LiveWork, LiveManagement
<1>2. IsFiniteSet(LiveWork) /\ IsFiniteSet(LiveManagement)
  BY <1>1, FS_Subset
<1>3. LiveWork \cup LiveManagement = Live /\ LiveWork \cap LiveManagement = {}
  BY DEF LiveWork, LiveManagement
<1>4. Cardinality(LiveWork \cup LiveManagement)
        = Cardinality(LiveWork) + Cardinality(LiveManagement)
          - Cardinality(LiveWork \cap LiveManagement)
  BY <1>2, FS_Union
<1>5. Cardinality(LiveWork) \in Nat /\ Cardinality(LiveManagement) \in Nat
  BY <1>2, FS_CardinalityType
<1>6. Cardinality(LiveWork \cap LiveManagement) = 0
  BY <1>3, FS_EmptySet
<1> QED
  BY <1>2, <1>3, <1>4, <1>5, <1>6

LEMMA InitOK == Init => IndInv
<1> SUFFICES ASSUME Init PROVE IndInv
  OBVIOUS
<1>1. Live = {} /\ LiveWork = {}
  BY DEF Init, Live, LiveWork
<1>2. configured \in Limits /\ Valid(configured) /\ limits = configured
  BY BridgeAssumption DEF Init
<1>3. TypeOK
  BY <1>1, <1>2 DEF Init, TypeOK
<1>4. LimitsOK
  BY <1>1, <1>2 DEF LimitsOK
<1>5. Cardinality({}) = 0 /\ IsFiniteSet({})
  BY FS_EmptySet
<1>6. CountsOK
  BY <1>1, <1>5 DEF Init, CountsOK
<1>7. ReservationsMatch
  BY <1>1, <1>5 DEF Init, ReservationsMatch
<1>8. WithinCapacity
  BY <1>1, <1>2, <1>5 DEF WithinCapacity, Valid, Limits
<1>9. InlineLimitKeepsServing
  BY DEF Init, InlineLimitKeepsServing, Failed
<1> QED
  BY <1>3, <1>4, <1>6, <1>7, <1>8, <1>9 DEF IndInv

-----------------------------------------------------------------------------
(* A step that leaves the requests in flight and the limits alone keeps    *)
(* all of the invariant that does not speak of the reader.                 *)
LEMMA ReaderStepOK ==
  ASSUME IndInv, UNCHANGED <<configured, limits, negotiated, activeIds, activeWork, task>>,
         reader' \in {"reading", "draining", "cancelling", "stopped"} \cup Failed,
         reader' = "stopped" => Live = {},
         InlineLimitKeepsServing'
  PROVE  IndInv'
<1>1. Live' = Live /\ LiveWork' = LiveWork
  BY DEF Live, LiveWork
<1>2. TypeOK'
  BY <1>1 DEF IndInv, TypeOK
<1>3. LimitsOK' /\ CountsOK'
  BY <1>1 DEF IndInv, LimitsOK, CountsOK
<1>4. ReservationsMatch'
  BY <1>1 DEF IndInv, ReservationsMatch
<1>5. WithinCapacity'
  BY <1>1 DEF IndInv, WithinCapacity
<1> QED
  BY <1>2, <1>3, <1>4, <1>5 DEF IndInv

(* A reply of the bridge fits unless its limits were too tight at once.    *)
LEMMA ReplyFits ==
  ASSUME IndInv, reader = "reading", ReaderReplies, configured' = configured
  PROVE  /\ InlineLimitKeepsServing'
         /\ reader' \in {"reading", "overlong"}
<1>1. reader' \in {"reading", "overlong"}
  BY DEF ReaderReplies
<1>2. ASSUME reader' = "overlong"
      PROVE  configured.inline < ReplySize \/ (IsJsonl /\ configured.line < ReplySize)
  <2>1. ReplyMayNotFit
    BY <1>2 DEF ReaderReplies
  <2>2. limits \in Limits /\ limits.inline <= limits.payload
    BY DEF IndInv, TypeOK, LimitsOK, Valid
  <2>3. limits.inline = configured.inline /\ limits.line = configured.line
    BY DEF IndInv, LimitsOK
  <2> QED
    BY <2>1, <2>2, <2>3, BridgeAssumption DEF ReplyMayNotFit, Limits
<1> QED
  BY <1>1, <1>2 DEF InlineLimitKeepsServing, Failed

LEMMA ReadInitializeOK ==
  ASSUME IndInv, NEW id \in RequestIds, NEW h \in Offers, ReadInitialize(id, h)
  PROVE  IndInv'
<1>1. /\ configured' = configured /\ activeIds' = activeIds
      /\ activeWork' = activeWork /\ task' = task
      /\ reader = "reading" /\ ReaderReplies
  BY DEF ReadInitialize
<1>2. InlineLimitKeepsServing' /\ reader' \in {"reading", "overlong"}
  BY <1>1, ReplyFits
<1>3. CASE UNCHANGED <<limits, negotiated>>
  BY <1>1, <1>2, <1>3, ReaderStepOK DEF Failed
<1>4. CASE /\ ~negotiated /\ Agrees(h, limits) /\ negotiated' = TRUE
           /\ limits' = Negotiated(limits, Ack(h, limits))
  <2>1. limits \in Limits /\ h \in Hellos
    BY BridgeAssumption DEF IndInv, TypeOK
  <2>2. /\ limits' \in Limits /\ Valid(limits')
        /\ limits'.inline = limits.inline /\ limits'.line = limits.line
    BY <1>4, <2>1, AgreementOK
  <2>3. Live = {} /\ LiveWork = {}
    BY <1>4 DEF IndInv, LimitsOK, LiveWork
  <2>4. Live' = {} /\ LiveWork' = {}
    BY <1>1, <2>3 DEF Live, LiveWork
  <2>5. TypeOK'
    BY <1>1, <1>2, <1>4, <2>2 DEF IndInv, TypeOK, Failed
  <2>6. LimitsOK'
    BY <1>1, <2>2, <2>4 DEF IndInv, LimitsOK
  <2>7. CountsOK'
    BY <1>1, <2>3, <2>4 DEF IndInv, CountsOK
  <2>8. ReservationsMatch'
    BY <1>1, <2>3, <2>4 DEF IndInv, ReservationsMatch
  <2>9. WithinCapacity'
    BY <2>2, <2>4, FS_EmptySet DEF WithinCapacity, Valid, Limits
  <2> QED
    BY <1>2, <2>5, <2>6, <2>7, <2>8, <2>9 DEF IndInv
<1> QED
  BY <1>3, <1>4 DEF ReadInitialize

LEMMA AcceptOK ==
  ASSUME IndInv, NEW t \in Tasks, NEW id \in RequestIds, NEW kind \in Kinds,
         Accept(t, id, kind)
  PROVE  IndInv'
<1> DEFINE r == [id |-> id, kind |-> kind]
<1>1. /\ configured' = configured /\ limits' = limits
      /\ negotiated' = negotiated /\ reader' = reader
      /\ activeIds' = activeIds \cup {id}
      /\ activeWork' = IF kind = "management" THEN activeWork ELSE activeWork + 1
      /\ task' = [task EXCEPT ![t] = r]
  BY DEF Accept
<1>2. /\ id \notin activeIds /\ ~Full(id, kind) /\ negotiated
      /\ t \notin Live /\ reader = "reading"
  BY DEF Accept, Refused, Duplicate, Unserved, Live
<1>3. r \in Requests /\ r # Free
  BY DEF Requests, Free
<1>4. task' \in [Tasks -> Requests \cup {Free}]
  BY <1>1, <1>3 DEF IndInv, TypeOK
<1>5. \A u \in Tasks : task'[u] = IF u = t THEN r ELSE task[u]
  BY <1>1 DEF IndInv, TypeOK
<1>6. Live' = Live \cup {t}
  BY <1>3, <1>5 DEF Live
<1>7. LiveWork' = IF kind = "management" THEN LiveWork ELSE LiveWork \cup {t}
  <2>1. \A u \in Tasks : u \in LiveWork' <=> u \in Live' /\ task'[u].kind # "management"
    BY DEF LiveWork, Live
  <2>2. \A u \in Tasks : u \in LiveWork <=> u \in Live /\ task[u].kind # "management"
    BY DEF LiveWork, Live
  <2>3. LiveWork' \subseteq Tasks /\ LiveWork \subseteq Tasks
    BY DEF LiveWork, Live
  <2>4. r.kind = kind
    OBVIOUS
  <2> HIDE DEF r
  <2> QED
    BY <1>2, <1>5, <1>6, <2>1, <2>2, <2>3, <2>4
<1>8. /\ IsFiniteSet(Live) /\ IsFiniteSet(LiveWork) /\ IsFiniteSet(activeIds)
      /\ Cardinality(Live) \in Nat /\ Cardinality(LiveWork) \in Nat
      /\ Cardinality(activeIds) = Cardinality(Live)
  BY LiveSplits, FS_CardinalityType DEF IndInv, CountsOK
<1>9. t \notin LiveWork
  BY <1>2 DEF LiveWork
<1>10. /\ IsFiniteSet(Live') /\ Cardinality(Live') = Cardinality(Live) + 1
  BY <1>2, <1>6, <1>8, FS_AddElement
<1>11. /\ IsFiniteSet(activeIds') /\ Cardinality(activeIds') = Cardinality(activeIds) + 1
  BY <1>1, <1>2, <1>8, FS_AddElement
<1>12. Cardinality(LiveWork') = IF kind = "management" THEN Cardinality(LiveWork)
                                ELSE Cardinality(LiveWork) + 1
  BY <1>7, <1>8, <1>9, FS_AddElement
<1>13. activeWork = Cardinality(LiveWork) /\ activeIds = {task[u].id : u \in Live}
  BY DEF IndInv, ReservationsMatch
<1>14. TypeOK'
  BY <1>1, <1>2, <1>4 DEF IndInv, TypeOK
<1>15. LimitsOK'
  BY <1>1, <1>2 DEF IndInv, LimitsOK
<1>16. CountsOK'
  BY <1>8, <1>10, <1>11 DEF CountsOK
<1>17. ReservationsMatch'
  <2>1. r.id = id
    OBVIOUS
  <2> HIDE DEF r
  <2>2. activeIds' = {task'[u].id : u \in Live'}
    <3>1. \A u \in Live : u \in Tasks /\ u # t
      BY <1>2 DEF Live
    <3>2. \A u \in Live : task'[u].id = task[u].id
      BY <1>5, <3>1
    <3>3. task'[t].id = id
      BY <1>5, <2>1
    <3> QED
      BY <1>1, <1>6, <1>13, <3>2, <3>3
  <2>3. \A u, v \in Live' : task'[u].id = task'[v].id => u = v
    <3>1. \A u \in Live : u \in Tasks /\ u # t
      BY <1>2 DEF Live
    <3>2. \A u \in Live : task'[u].id = task[u].id /\ task[u].id # id
      BY <1>2, <1>5, <1>13, <3>1
    <3>3. task'[t].id = id
      BY <1>5, <2>1
    <3> QED
      BY <1>6, <3>2, <3>3 DEF IndInv, ReservationsMatch
  <2>4. activeWork' = Cardinality(LiveWork')
    BY <1>1, <1>12, <1>13
  <2> QED
    BY <2>2, <2>3, <2>4 DEF ReservationsMatch
<1>18. WithinCapacity'
  <2>1. limits \in Limits
    BY DEF IndInv, TypeOK
  <2>2. Cardinality(Live) < limits.inflight
    BY <1>2, <1>8, <2>1 DEF Full, Limits
  <2>3. kind # "management" => Cardinality(LiveWork) < limits.inflight - limits.reserved
    BY <1>2, <1>8, <1>13, <2>1 DEF Full, Limits
  <2> QED
    BY <1>1, <1>8, <1>10, <1>12, <2>1, <2>2, <2>3 DEF IndInv, WithinCapacity, Limits
<1>19. InlineLimitKeepsServing'
  BY <1>1 DEF IndInv, InlineLimitKeepsServing
<1> QED
  BY <1>14, <1>15, <1>16, <1>17, <1>18, <1>19 DEF IndInv

LEMMA TaskEndsOK ==
  ASSUME IndInv, NEW t \in Tasks, TaskEnds(t)
  PROVE  IndInv'
<1>1. /\ configured' = configured /\ limits' = limits
      /\ negotiated' = negotiated /\ reader' = reader
      /\ task' = [task EXCEPT ![t] = Free]
      /\ activeIds' = activeIds \ {task[t].id}
      /\ activeWork' = IF task[t].kind = "management" THEN activeWork ELSE activeWork - 1
      /\ t \in Live
  BY DEF TaskEnds, Released
<1>2. task' \in [Tasks -> Requests \cup {Free}]
  BY <1>1 DEF IndInv, TypeOK
<1>3. \A u \in Tasks : task'[u] = IF u = t THEN Free ELSE task[u]
  BY <1>1 DEF IndInv, TypeOK
<1>4. Live' = Live \ {t}
  BY <1>3 DEF Live
<1>5. LiveWork' = LiveWork \ {t}
  BY <1>3, <1>4 DEF LiveWork, Live
<1>6. t \in LiveWork <=> task[t].kind # "management"
  BY <1>1 DEF LiveWork
<1>7. /\ IsFiniteSet(Live) /\ IsFiniteSet(LiveWork) /\ IsFiniteSet(activeIds)
      /\ Cardinality(Live) \in Nat /\ Cardinality(LiveWork) \in Nat
      /\ Cardinality(activeIds) = Cardinality(Live)
  BY LiveSplits, FS_CardinalityType DEF IndInv, CountsOK
<1>8. activeWork = Cardinality(LiveWork) /\ activeIds = {task[u].id : u \in Live}
  BY DEF IndInv, ReservationsMatch
<1>9. IsFiniteSet(Live') /\ Cardinality(Live') = Cardinality(Live) - 1
  BY <1>1, <1>4, <1>7, FS_RemoveElement
<1>10. task[t].id \in activeIds
  BY <1>1, <1>8
<1>11. IsFiniteSet(activeIds') /\ Cardinality(activeIds') = Cardinality(activeIds) - 1
  BY <1>1, <1>7, <1>10, FS_RemoveElement
<1>12. Cardinality(LiveWork') = IF task[t].kind = "management" THEN Cardinality(LiveWork)
                                ELSE Cardinality(LiveWork) - 1
  <2>1. CASE t \in LiveWork
    BY <1>5, <1>6, <1>7, <2>1, FS_RemoveElement
  <2>2. CASE t \notin LiveWork
    <3>1. LiveWork' = LiveWork
      BY <1>5, <2>2
    <3> QED
      BY <1>6, <2>2, <3>1
  <2> QED
    BY <2>1, <2>2
<1>13. Cardinality(LiveWork') \in Nat
  <2>1. LiveWork' \subseteq LiveWork
    BY <1>5
  <2> QED
    BY <1>7, <2>1, FS_Subset, FS_CardinalityType
<1>14. activeWork' = Cardinality(LiveWork')
  BY <1>1, <1>8, <1>12
<1>15. TypeOK'
  <2>1. activeIds' \in SUBSET RequestIds
    BY <1>1 DEF IndInv, TypeOK
  <2>2. reader # "stopped"
    BY <1>1 DEF IndInv, TypeOK
  <2> QED
    BY <1>1, <1>2, <1>13, <1>14, <2>1, <2>2 DEF IndInv, TypeOK
<1>16. LimitsOK'
  BY <1>1, <1>4 DEF IndInv, LimitsOK
<1>17. CountsOK'
  BY <1>7, <1>9, <1>11 DEF CountsOK
<1>18. ReservationsMatch'
  <2>1. \A u \in Live' : u \in Live /\ u # t /\ task'[u].id = task[u].id
    BY <1>3, <1>4 DEF Live
  <2>2. \A u, v \in Live : task[u].id = task[v].id => u = v
    BY DEF IndInv, ReservationsMatch
  <2>3. activeIds' = {task'[u].id : u \in Live'}
    <3>1. \A x : x \in activeIds' <=> \E u \in Live : x = task[u].id /\ x # task[t].id
      BY <1>1, <1>8
    <3>2. \A x : (\E u \in Live : x = task[u].id /\ x # task[t].id)
                   <=> \E u \in Live' : x = task'[u].id
      BY <1>1, <1>4, <2>1, <2>2
    <3>3. \A x : x \in activeIds' <=> \E u \in Live' : x = task'[u].id
      BY <3>1, <3>2
    <3> QED
      BY <3>3
  <2>4. \A u, v \in Live' : task'[u].id = task'[v].id => u = v
    BY <2>1, <2>2
  <2> QED
    BY <1>14, <2>3, <2>4 DEF ReservationsMatch
<1>19. WithinCapacity'
  <2>1. limits \in Limits
    BY DEF IndInv, TypeOK
  <2> QED
    BY <1>1, <1>7, <1>9, <1>12, <2>1 DEF IndInv, WithinCapacity, Limits
<1>20. InlineLimitKeepsServing'
  BY <1>1 DEF IndInv, InlineLimitKeepsServing
<1> QED
  BY <1>15, <1>16, <1>17, <1>18, <1>19, <1>20 DEF IndInv

LEMMA RejectOK ==
  ASSUME IndInv, NEW id \in RequestIds, NEW kind \in Kinds, Reject(id, kind)
  PROVE  IndInv'
<1>1. /\ UNCHANGED <<configured, limits, negotiated, activeIds, activeWork, task>>
      /\ reader = "reading" /\ ReaderReplies
  BY DEF Reject
<1>2. InlineLimitKeepsServing' /\ reader' \in {"reading", "overlong"}
  BY <1>1, ReplyFits
<1> QED
  BY <1>1, <1>2, ReaderStepOK DEF Failed

LEMMA UndecodableOK ==
  ASSUME IndInv, Undecodable
  PROVE  IndInv'
<1>1. /\ UNCHANGED <<configured, limits, negotiated, activeIds, activeWork, task>>
      /\ reader = "reading" /\ IsJsonl /\ (ReaderReplies \/ reader' = "garbled")
  BY DEF Undecodable
<1>2. InlineLimitKeepsServing' /\ reader' \in {"reading", "overlong", "garbled"}
  BY <1>1, ReplyFits DEF InlineLimitKeepsServing
<1> QED
  BY <1>1, <1>2, ReaderStepOK DEF Failed

LEMMA ShutdownOK ==
  ASSUME IndInv, EndOfInput \/ ShutdownTimeout \/ Stop
  PROVE  IndInv'
<1>1. /\ UNCHANGED <<configured, limits, negotiated, activeIds, activeWork, task>>
      /\ reader' \in {"draining", "cancelling", "stopped"}
      /\ reader' = "stopped" => Live = {}
  BY DEF EndOfInput, ShutdownTimeout, Stop
<1>2. InlineLimitKeepsServing'
  BY <1>1 DEF InlineLimitKeepsServing, Failed
<1> QED
  BY <1>1, <1>2, ReaderStepOK DEF Failed

LEMMA StutterOK ==
  ASSUME IndInv, UNCHANGED vars
  PROVE  IndInv'
<1>1. InlineLimitKeepsServing'
  BY DEF vars, IndInv, InlineLimitKeepsServing
<1>2. /\ UNCHANGED <<configured, limits, negotiated, activeIds, activeWork, task>>
      /\ reader' = reader
  BY DEF vars
<1>3. /\ reader' \in {"reading", "draining", "cancelling", "stopped"} \cup Failed
      /\ reader' = "stopped" => Live = {}
  BY <1>2 DEF IndInv, TypeOK
<1> QED
  BY <1>1, <1>2, <1>3, ReaderStepOK DEF Failed

LEMMA Invariance == Spec => []IndInv
<1>1. IndInv /\ [Next]_vars => IndInv'
  <2> SUFFICES ASSUME IndInv, [Next]_vars PROVE IndInv'
    OBVIOUS
  <2>1. CASE UNCHANGED vars
    BY <2>1, StutterOK
  <2>2. CASE Next
    BY <2>2, ReadInitializeOK, AcceptOK, TaskEndsOK, RejectOK, UndecodableOK,
       ShutdownOK DEF Next
  <2> QED
    BY <2>1, <2>2
<1> QED
  BY InitOK, <1>1, PTL DEF Spec

-----------------------------------------------------------------------------
(* The state keeps its type, and serve returns with no task left.          *)
THEOREM TypeCorrect == Spec => []TypeOK
  BY Invariance, PTL DEF IndInv

(* _active_ids and _active_non_management never drift from the requests    *)
(* being worked on.                                                        *)
THEOREM BookkeepingExact == Spec => []ReservationsMatch
  BY Invariance, PTL DEF IndInv

(* The negotiated capacity is never exceeded. *)
THEOREM CapacityKept == Spec => []WithinCapacity
  BY Invariance, PTL DEF IndInv

(* Work cannot use up the places reserved for management requests.         *)
THEOREM ManagementNotStarved == Spec => []ManagementAdmitted
<1>1. IndInv => ManagementAdmitted
  <2> SUFFICES ASSUME IndInv, Cardinality(LiveManagement) < limits.reserved,
                      NEW id \in RequestIds
               PROVE  ~Full(id, "management")
    BY DEF ManagementAdmitted
  <2>1. limits \in Limits
    BY DEF IndInv, TypeOK
  <2>2. /\ Cardinality(activeIds) = Cardinality(LiveWork) + Cardinality(LiveManagement)
        /\ Cardinality(LiveWork) \in Nat /\ Cardinality(LiveManagement) \in Nat
    BY LiveSplits DEF IndInv, CountsOK
  <2>3. Cardinality(LiveWork) <= limits.inflight - limits.reserved
    BY DEF IndInv, WithinCapacity
  <2> QED
    BY <2>1, <2>2, <2>3 DEF Full, Limits
<1> QED
  BY Invariance, <1>1, PTL

(* An inline limit with room for the bridge's replies keeps it serving:    *)
(* what can end serve otherwise is a line that is no proper text, and that *)
(* in the JSONL bridge only.                                               *)
THEOREM RepliesKeepFitting == Spec => []InlineLimitKeepsServing
  BY Invariance, PTL DEF IndInv

(* The limits never change under a request in flight. *)
THEOREM LimitsChangeIdle == Spec => LimitsChangeWhenIdle
<1>1. IndInv /\ [Next]_vars => [limits' # limits => ~negotiated /\ negotiated' /\ activeIds = {}]_vars
  <2> SUFFICES ASSUME IndInv, [Next]_vars, limits' # limits
               PROVE  ~negotiated /\ negotiated' /\ activeIds = {}
    OBVIOUS
  <2>1. PICK id \in RequestIds, h \in Offers : ReadInitialize(id, h)
    BY DEF Next, vars, Accept, TaskEnds, Reject, Undecodable, EndOfInput, ShutdownTimeout,
              Stop
  <2>2. ~negotiated /\ negotiated'
    BY <2>1 DEF ReadInitialize
  <2> QED
    BY <2>2 DEF IndInv, LimitsOK, ReservationsMatch
<1> QED
  BY Invariance, <1>1, PTL DEF Spec, LimitsChangeWhenIdle
=============================================================================
