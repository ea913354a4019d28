---------------------------- MODULE RunnerLinkProofs ----------------------------
(***************************************************************************)
(* Proofs about RunnerLink, for any requests the host may send, any limits *)
(* and any sets of calls, ids and invocations.                             *)
(***************************************************************************)
EXTENDS RunnerLink, FiniteSetTheorems, TLAPS

\* The theorems about the parts.
BackendFacts == INSTANCE RunnerBackendProofs WITH MaxInstances <- 1
BridgeFacts  == INSTANCE StdioBridgeProofs
                  WITH Tasks <- Calls, HasResources <- FALSE, IsJsonl <- FALSE, ReplySize <- 0

Asks == [kind : {"run", "cancel", "dispose"}, key : RunnerIds \X Invocations,
         id : RequestIds, after : SUBSET Calls]

AnswerRecords == [id : RequestIds, answer : Backend!Answers \cup {"refused"}, of : Calls]

TypeInv ==
  /\ closed \in BOOLEAN
  /\ asked \in [Calls -> Asks \cup {NotAsked}]
  /\ waiting \in [RequestIds -> Calls \cup {NoCall}]
  /\ got \in [Calls -> AnswerRecords \cup {NoAnswer}]
  /\ input \in Seq(Calls) /\ output \in Seq(AnswerRecords)
  /\ task \in [Calls -> Bridge!Requests \cup {Bridge!Free}]

\* The three places of a request on its way: the pipe in, the bridge, the pipe out.
Sent     == {input[i] : i \in 1..Len(input)}
Answered == {output[i].of : i \in 1..Len(output)}
OnItsWay == Sent \cup Answered \cup Awaited

\* A request is sent once.
InputOK == \A i, j \in 1..Len(input) : input[i] = input[j] => i = j

\* A request is answered once, under the id it was asked under.
OutputOK ==
  /\ \A i, j \in 1..Len(output) : output[i].of = output[j].of => i = j
  /\ \A i \in 1..Len(output) : output[i].id = asked[output[i].of].id

\* A request is in one place, and the bridge works on what the backend does.
PlacesOK ==
  /\ InputOK /\ OutputOK
  /\ Sent \cap Answered = {} /\ Sent \cap Awaited = {} /\ Answered \cap Awaited = {}
  /\ Bridge!Live = Awaited

\* The bridge cancels its tasks only after the host has closed the input.
ReaderOK == reader \in {"draining", "cancelling", "stopped"} => closed /\ input = <<>>

Lossy == reader \in {"cancelling", "stopped"}

\* The host's table is right: it waits for what is on its way, under its id, and for nothing
\* else that could still be answered.
HostOK ==
  /\ \A c \in OnItsWay : asked[c] # NotAsked /\ waiting[asked[c].id] = c /\ got[c] = NoAnswer
  /\ \A id \in RequestIds : waiting[id] # NoCall =>
       /\ asked[waiting[id]] # NotAsked /\ asked[waiting[id]].id = id
       /\ got[waiting[id]] = NoAnswer
       /\ waiting[id] \in OnItsWay \/ Lossy \/ Unwritten(waiting[id])
  /\ \A c \in Calls : got[c] # NoAnswer => asked[c] # NotAsked /\ got[c].of = c

\* The inductive invariant, together with the backend's own.
LinkInv == TypeInv /\ PlacesOK /\ ReaderOK /\ HostOK

--------------------------------------------------------------------------------
(* The parts of the link are the modules that the theorems about them are about: the two   *)
(* instances of each define the same steps.                                                *)

LEMMA SameBackend ==
  /\ Backend!Init <=> BackendFacts!Init
  /\ Backend!Next <=> BackendFacts!Next
<1>1. Backend!Init <=> BackendFacts!Init
  BY Zenon DEF Backend!Init, Backend!NewFrame, Backend!NoKey,
               BackendFacts!Init, BackendFacts!NewFrame, BackendFacts!NoKey
<1>2. ASSUME NEW r PROVE Backend!Register(r) <=> BackendFacts!Register(r)
  BY Zenon DEF Backend!Register, BackendFacts!Register
<1>3. ASSUME NEW c, NEW k, NEW leasesMatch, NEW flag
      PROVE  Backend!RunBatch(c, k, leasesMatch, flag)
               <=> BackendFacts!RunBatch(c, k, leasesMatch, flag)
  BY Zenon DEF Backend!RunBatch, Backend!PendingAfterClaim, Backend!Conflict, Backend!Unknown,
               Backend!Answer, Backend!NewFrame, Backend!NoKey,
               BackendFacts!RunBatch, BackendFacts!PendingAfterClaim, BackendFacts!Conflict,
               BackendFacts!Unknown, BackendFacts!Answer, BackendFacts!NewFrame,
               BackendFacts!NoKey
<1>4. ASSUME NEW c, NEW k
      PROVE  Backend!CancelRunner(c, k) <=> BackendFacts!CancelRunner(c, k)
  <2>1. Backend!Cardinality(cancelled) = BackendFacts!Cardinality(cancelled)
    BY Zenon DEF Backend!Cardinality, BackendFacts!Cardinality
  <2>2. Backend!CancelExhausted(k) <=> BackendFacts!CancelExhausted(k)
    BY <2>1 DEF Backend!CancelExhausted, BackendFacts!CancelExhausted
  <2> QED
    BY <2>2, Zenon
       DEF Backend!CancelRunner, Backend!Remembered, Backend!RunsOf, Backend!Running,
           Backend!Unknown, Backend!Answer, Backend!NewFrame, Backend!NoKey,
           BackendFacts!CancelRunner, BackendFacts!Remembered, BackendFacts!RunsOf,
           BackendFacts!Running, BackendFacts!Unknown, BackendFacts!Answer,
           BackendFacts!NewFrame, BackendFacts!NoKey
<1>5. ASSUME NEW c, NEW k
      PROVE  Backend!DisposeRunner(c, k) <=> BackendFacts!DisposeRunner(c, k)
  BY Zenon DEF Backend!DisposeRunner, Backend!PendingAfterDispose, Backend!Unknown,
               Backend!Answer, Backend!NewFrame, Backend!NoKey,
               BackendFacts!DisposeRunner, BackendFacts!PendingAfterDispose,
               BackendFacts!Unknown, BackendFacts!Answer, BackendFacts!NewFrame,
               BackendFacts!NoKey
<1>6. ASSUME NEW c PROVE Backend!RunnerHears(c) <=> BackendFacts!RunnerHears(c)
  BY Zenon DEF Backend!RunnerHears, Backend!RunsOf, Backend!Running,
               BackendFacts!RunnerHears, BackendFacts!RunsOf, BackendFacts!Running
<1>7. ASSUME NEW c, NEW a
      PROVE  /\ Backend!RunEnds(c, a) <=> BackendFacts!RunEnds(c, a)
             /\ Backend!CancelEnds(c, a) <=> BackendFacts!CancelEnds(c, a)
             /\ Backend!DisposeEnds(c, a) <=> BackendFacts!DisposeEnds(c, a)
  BY Zenon DEF Backend!RunEnds, Backend!CancelEnds, Backend!DisposeEnds, Backend!Answer,
               Backend!NewFrame, Backend!NoKey,
               BackendFacts!RunEnds, BackendFacts!CancelEnds, BackendFacts!DisposeEnds,
               BackendFacts!Answer, BackendFacts!NewFrame, BackendFacts!NoKey
<1>8. Backend!Keys = BackendFacts!Keys /\ Backend!Endings = BackendFacts!Endings
  BY DEF Backend!Keys, BackendFacts!Keys, Backend!Endings, BackendFacts!Endings
<1>9. Backend!Next <=> BackendFacts!Next
  BY <1>2, <1>3, <1>4, <1>5, <1>6, <1>7, <1>8, Zenon DEF Backend!Next, BackendFacts!Next
<1> QED
  BY <1>1, <1>9

LEMMA SameBridge ==
  /\ Bridge!Init <=> BridgeFacts!Init
  /\ Bridge!Next <=> BridgeFacts!Next
<1>1. Bridge!Init <=> BridgeFacts!Init
  BY Zenon DEF Bridge!Init, Bridge!Free, BridgeFacts!Init, BridgeFacts!Free
<1>2. ASSUME NEW id, NEW kind PROVE Bridge!Refused(id, kind) <=> BridgeFacts!Refused(id, kind)
  <2>1. Bridge!Cardinality(activeIds) = BridgeFacts!Cardinality(activeIds)
    BY Zenon DEF Bridge!Cardinality, BridgeFacts!Cardinality
  <2> QED
    BY <2>1 DEF Bridge!Refused, Bridge!Full, Bridge!Duplicate,
                BridgeFacts!Refused, BridgeFacts!Full, BridgeFacts!Duplicate
<1>3. Bridge!ReaderReplies <=> BridgeFacts!ReaderReplies
  BY DEF Bridge!ReaderReplies, Bridge!ReplyMayNotFit,
         BridgeFacts!ReaderReplies, BridgeFacts!ReplyMayNotFit
<1>4. ASSUME NEW h PROVE Bridge!Agrees(h, limits) <=> BridgeFacts!Agrees(h, limits)
  BY DEF Bridge!Agrees, Bridge!Negotiated, Bridge!Ack, Bridge!Acceptable,
         Bridge!OfferedLimitsOK, Bridge!FeaturesOK, Bridge!SmallerOf, Bridge!Valid,
         Bridge!Current,
         BridgeFacts!Agrees, BridgeFacts!Negotiated, BridgeFacts!Ack,
         BridgeFacts!Acceptable, BridgeFacts!OfferedLimitsOK, BridgeFacts!FeaturesOK,
         BridgeFacts!SmallerOf, BridgeFacts!Valid, BridgeFacts!Current
<1>5. ASSUME NEW id, NEW h
      PROVE  Bridge!ReadInitialize(id, h) <=> BridgeFacts!ReadInitialize(id, h)
  BY <1>2, <1>3, <1>4, Zenon
     DEF Bridge!ReadInitialize, Bridge!Negotiated, Bridge!Ack, Bridge!SmallerOf,
         BridgeFacts!ReadInitialize, BridgeFacts!Negotiated, BridgeFacts!Ack,
         BridgeFacts!SmallerOf
<1>6. ASSUME NEW t, NEW id, NEW kind
      PROVE  Bridge!Accept(t, id, kind) <=> BridgeFacts!Accept(t, id, kind)
  BY <1>2, Zenon DEF Bridge!Accept, Bridge!Unserved, Bridge!Free,
                     BridgeFacts!Accept, BridgeFacts!Unserved, BridgeFacts!Free
<1>7. ASSUME NEW id, NEW kind PROVE Bridge!Reject(id, kind) <=> BridgeFacts!Reject(id, kind)
  BY <1>2, <1>3, Zenon DEF Bridge!Reject, BridgeFacts!Reject
<1>8. ASSUME NEW t PROVE Bridge!TaskEnds(t) <=> BridgeFacts!TaskEnds(t)
  BY Zenon DEF Bridge!TaskEnds, Bridge!Released, Bridge!Live, Bridge!Free,
               BridgeFacts!TaskEnds, BridgeFacts!Released, BridgeFacts!Live, BridgeFacts!Free
<1>9. /\ Bridge!EndOfInput <=> BridgeFacts!EndOfInput
      /\ Bridge!ShutdownTimeout <=> BridgeFacts!ShutdownTimeout
      /\ Bridge!Stop <=> BridgeFacts!Stop
  BY Zenon DEF Bridge!EndOfInput, Bridge!ShutdownTimeout, Bridge!Stop, Bridge!Live, Bridge!Free,
               BridgeFacts!EndOfInput, BridgeFacts!ShutdownTimeout, BridgeFacts!Stop,
               BridgeFacts!Live, BridgeFacts!Free
<1>10. Bridge!Kinds = BridgeFacts!Kinds
  BY DEF Bridge!Kinds, BridgeFacts!Kinds
<1>11. Bridge!Undecodable <=> BridgeFacts!Undecodable
  BY Zenon DEF Bridge!Undecodable, BridgeFacts!Undecodable
<1>12. Bridge!Next <=> BridgeFacts!Next
  BY <1>5, <1>6, <1>7, <1>8, <1>9, <1>10, <1>11, Zenon DEF Bridge!Next, BridgeFacts!Next
<1> QED
  BY <1>1, <1>12

(* The backend keeps its invariant.                                                         *)
LEMMA BackendKeeps ==
  ASSUME BackendFacts!IndInv, Backend!Next \/ UNCHANGED backendVars
  PROVE  BackendFacts!IndInv'
<1>1. BackendFacts!BackendAssumption
  BY LinkAssumption DEF BackendFacts!BackendAssumption
<1>2. [BackendFacts!Next]_(BackendFacts!vars)
  BY SameBackend DEF BackendFacts!vars, backendVars
<1> QED
  BY <1>1, <1>2, BackendFacts!NextIndInv

--------------------------------------------------------------------------------
(* What a step does to the places *)

\* A call that is sent joins the end of the input, in which it is not yet.
LEMMA SentGrows ==
  ASSUME input \in Seq(Calls), NEW c \in Calls, c \notin Sent, input' = Append(input, c),
         InputOK
  PROVE  /\ input' \in Seq(Calls) /\ Sent' = Sent \cup {c}
         /\ InputOK'
<1>1. /\ input' \in Seq(Calls) /\ Len(input') = Len(input) + 1 /\ Len(input) \in Nat
      /\ \A i \in 1..Len(input) : input'[i] = input[i]
      /\ input'[Len(input) + 1] = c
  OBVIOUS
<1>2. \A i \in 1..Len(input') : i \in 1..Len(input) \/ i = Len(input) + 1
  BY <1>1
<1>3. 1..Len(input) \subseteq 1..Len(input') /\ Len(input) + 1 \in 1..Len(input')
  BY <1>1
<1>4. Sent' = Sent \cup {c}
  <2>1. \A d : d \in Sent' <=> \E i \in 1..Len(input') : d = input'[i]
    BY DEF Sent
  <2>2. \A d : d \in Sent <=> \E i \in 1..Len(input) : d = input[i]
    BY DEF Sent
  <2> QED
    BY <1>1, <1>2, <1>3, <2>1, <2>2
<1>5. \A i \in 1..Len(input) : input[i] # c
  BY DEF Sent
<1> QED
  BY <1>1, <1>2, <1>4, <1>5 DEF InputOK

\* The first call of the input leaves it for good.
LEMMA SentShrinks ==
  ASSUME input \in Seq(Calls), NEW c, ReadFrame(c), InputOK
  PROVE  /\ input' \in Seq(Calls) /\ c \in Sent /\ c \in Calls /\ Sent' = Sent \ {c}
         /\ InputOK'
<1>1. /\ input' \in Seq(Calls) /\ Len(input') = Len(input) - 1 /\ Len(input) \in Nat \ {0}
      /\ \A i \in 1..Len(input') : input'[i] = input[i + 1]
      /\ input[1] = c /\ c \in Calls
  BY DEF ReadFrame
<1>2. \A i \in 1..Len(input') : i \in Nat /\ i + 1 \in 1..Len(input) /\ i + 1 # 1
  BY <1>1
<1>3. /\ 1 \in 1..Len(input)
      /\ \A i \in 1..Len(input) : i = 1 \/ (i - 1 \in 1..Len(input') /\ i = (i - 1) + 1)
  BY <1>1
<1>4. c \in Sent
  BY <1>1, <1>3 DEF Sent
<1>5. Sent' = Sent \ {c}
  <2>1. \A d : d \in Sent' <=> \E i \in 1..Len(input') : d = input'[i]
    BY DEF Sent
  <2>2. \A d : d \in Sent <=> \E i \in 1..Len(input) : d = input[i]
    BY DEF Sent
  <2>3. ASSUME NEW d \in Sent' PROVE d \in Sent \ {c}
    <3>1. PICK i \in 1..Len(input') : d = input'[i]
      BY <2>1
    <3>2. d = input[i + 1] /\ i + 1 \in 1..Len(input) /\ i + 1 # 1
      BY <1>1, <1>2, <3>1
    <3> QED
      BY <1>1, <1>3, <2>2, <3>2 DEF InputOK
  <2>4. ASSUME NEW d \in Sent, d # c PROVE d \in Sent'
    <3>1. PICK i \in 1..Len(input) : d = input[i]
      BY <2>2
    <3>2. i - 1 \in 1..Len(input') /\ i = (i - 1) + 1
      BY <1>1, <1>3, <2>4, <3>1
    <3>3. d = input'[i - 1]
      BY <1>1, <3>1, <3>2
    <3> QED
      BY <2>1, <3>2, <3>3
  <2> QED
    BY <2>3, <2>4
<1>6. \A i, j \in 1..Len(input') : input'[i] = input'[j] => i = j
  <2> SUFFICES ASSUME NEW i \in 1..Len(input'), NEW j \in 1..Len(input'), input'[i] = input'[j]
               PROVE  i = j
    OBVIOUS
  <2>1. i + 1 = j + 1
    BY <1>1, <1>2 DEF InputOK
  <2> QED
    BY <1>2, <2>1
<1> QED
  BY <1>1, <1>4, <1>5, <1>6 DEF InputOK

\* An answer joins the end of the output.
LEMMA AnsweredGrows ==
  ASSUME TypeInv, OutputOK, NEW c \in Calls, c \notin Answered, asked[c] # NotAsked,
         NEW answer \in Backend!Answers \cup {"refused"}, asked' = asked,
         output' = Append(output, AnswerTo(c, answer))
  PROVE  output' \in Seq(AnswerRecords) /\ OutputOK' /\ Answered' = Answered \cup {c}
<1> DEFINE new == AnswerTo(c, answer)
<1>1. new \in AnswerRecords /\ new.of = c /\ new.id = asked[c].id
  <2>1. asked[c] \in Asks
    BY DEF TypeInv
  <2> QED
    BY <2>1 DEF AnswerTo, AnswerRecords, Asks
<1> HIDE DEF new
<1>2. /\ output' \in Seq(AnswerRecords) /\ Len(output') = Len(output) + 1 /\ Len(output) \in Nat
      /\ \A i \in 1..Len(output) : output'[i] = output[i]
      /\ output'[Len(output) + 1] = new
  <2>1. output \in Seq(AnswerRecords) /\ output' = Append(output, new)
    BY DEF TypeInv, new
  <2> QED
    BY <1>1, <2>1
<1>3. \A i \in 1..Len(output') : i \in 1..Len(output) \/ i = Len(output) + 1
  BY <1>2
<1>4. 1..Len(output) \subseteq 1..Len(output') /\ Len(output) + 1 \in 1..Len(output')
  BY <1>2
<1>5. Answered' = Answered \cup {c}
  <2>1. \A d : d \in Answered' <=> \E i \in 1..Len(output') : d = output'[i].of
    BY DEF Answered
  <2>2. \A d : d \in Answered <=> \E i \in 1..Len(output) : d = output[i].of
    BY DEF Answered
  <2> QED
    BY <1>1, <1>2, <1>3, <1>4, <2>1, <2>2
<1>6. \A i \in 1..Len(output) : output[i].of # c
  BY DEF Answered
<1>7. OutputOK'
  BY <1>1, <1>2, <1>3, <1>6 DEF OutputOK
<1> QED
  BY <1>2, <1>5, <1>7

\* The first answer leaves the output for good.
LEMMA AnsweredShrinks ==
  ASSUME TypeInv, OutputOK, output # <<>>, output' = Tail(output), asked' = asked
  PROVE  /\ output' \in Seq(AnswerRecords) /\ OutputOK'
         /\ Head(output) \in AnswerRecords
         /\ Head(output).of \in Answered /\ Answered' = Answered \ {Head(output).of}
         /\ Head(output).id = asked[Head(output).of].id
<1> DEFINE c == Head(output).of
<1>1. /\ output' \in Seq(AnswerRecords) /\ Len(output') = Len(output) - 1
      /\ Len(output) \in Nat \ {0}
      /\ \A i \in 1..Len(output') : output'[i] = output[i + 1]
      /\ output[1] = Head(output) /\ Head(output) \in AnswerRecords
  BY DEF TypeInv
<1>2. \A i \in 1..Len(output') : i \in Nat /\ i + 1 \in 1..Len(output) /\ i + 1 # 1
  BY <1>1
<1>3. /\ 1 \in 1..Len(output)
      /\ \A i \in 1..Len(output) : i = 1 \/ (i - 1 \in 1..Len(output') /\ i = (i - 1) + 1)
  BY <1>1
<1>4. c \in Answered /\ Head(output).id = asked[c].id /\ c = output[1].of
  BY <1>1, <1>3 DEF Answered, OutputOK
<1> HIDE DEF c
<1>5. Answered' = Answered \ {c}
  <2>1. \A d : d \in Answered' <=> \E i \in 1..Len(output') : d = output'[i].of
    BY DEF Answered
  <2>2. \A d : d \in Answered <=> \E i \in 1..Len(output) : d = output[i].of
    BY DEF Answered
  <2>3. ASSUME NEW d \in Answered' PROVE d \in Answered \ {c}
    <3>1. PICK i \in 1..Len(output') : d = output'[i].of
      BY <2>1
    <3>2. d = output[i + 1].of /\ i + 1 \in 1..Len(output) /\ i + 1 # 1
      BY <1>1, <1>2, <3>1
    <3> QED
      BY <1>3, <1>4, <2>2, <3>2 DEF OutputOK
  <2>4. ASSUME NEW d \in Answered, d # c PROVE d \in Answered'
    <3>1. PICK i \in 1..Len(output) : d = output[i].of
      BY <2>2
    <3>2. i - 1 \in 1..Len(output') /\ i = (i - 1) + 1
      BY <1>3, <1>4, <2>4, <3>1
    <3>3. d = output'[i - 1].of
      BY <1>1, <3>1, <3>2
    <3> QED
      BY <2>1, <3>2, <3>3
  <2> QED
    BY <2>3, <2>4
<1>6. OutputOK'
  <2>1. \A i, j \in 1..Len(output') : output'[i].of = output'[j].of => i = j
    <3> SUFFICES ASSUME NEW i \in 1..Len(output'), NEW j \in 1..Len(output'),
                        output'[i].of = output'[j].of
                 PROVE  i = j
      OBVIOUS
    <3>1. i + 1 = j + 1
      BY <1>1, <1>2 DEF OutputOK
    <3> QED
      BY <1>2, <3>1
  <2>2. \A i \in 1..Len(output') : output'[i].id = asked'[output'[i].of].id
    BY <1>1, <1>2 DEF OutputOK
  <2> QED
    BY <2>1, <2>2 DEF OutputOK
<1> QED
  BY <1>1, <1>4, <1>5, <1>6 DEF c

\* The first step of a call answers it or leaves it waiting, and moves no other.
LEMMA FirstStepMoves ==
  ASSUME BackendFacts!IndInv, NEW c \in Calls, asked[c] \in Asks, FirstStep(c)
  PROVE  /\ Backend!Next
         /\ c \notin Awaited
         /\ call'[c].stage = "answered" =>
              Awaited' = Awaited /\ call'[c].answer \in Backend!Answers
         /\ call'[c].stage # "answered" => Awaited' = Awaited \cup {c}
<1> DEFINE k == asked[c].key
<1>1. call \in [Calls -> BackendFacts!Frames]
  BY DEF BackendFacts!IndInv, BackendFacts!TypeOK
<1>2. \A d \in Calls : call[d] = [call[d] EXCEPT !.latched = call[d].latched]
  BY <1>1 DEF BackendFacts!Frames
<1>3. k \in Backend!Keys
  BY DEF Asks, Backend!Keys
<1>4. /\ Backend!NewFrame.stage = "idle"
      /\ \A a : /\ [Backend!NewFrame EXCEPT !.stage = "answered", !.answer = a].stage = "answered"
                /\ [Backend!NewFrame EXCEPT !.stage = "answered", !.answer = a].answer = a
  BY DEF Backend!NewFrame
<1>5. /\ call[c].stage = "idle"
      /\ \A d \in Calls \ {c} : call'[d].stage = call[d].stage
      /\ call'[c].stage \in {"running", "cancelling", "disposing", "answered"}
      /\ call'[c].stage = "answered" => call'[c].answer \in Backend!Answers
  <2>1. ASSUME NEW a \in Backend!Refusals, Backend!Answer(c, a), call[c].stage = "idle"
        PROVE  <1>5
    BY <1>1, <1>4, <2>1 DEF Backend!Answer, Backend!Answers
  <2>2. ASSUME NEW leasesMatch \in BOOLEAN, Backend!RunBatch(c, k, leasesMatch, FALSE)
        PROVE  <1>5
    <3>1. call[c].stage = "idle"
      BY <2>2 DEF Backend!RunBatch
    <3>2. CASE Backend!Answer(c, "claim_conflict") \/ Backend!Answer(c, "not_found")
      BY <2>1, <3>1, <3>2 DEF Backend!Refusals
    <3>3. CASE call' = [d \in Calls |->
                 IF d = c
                 THEN [Backend!NewFrame EXCEPT !.stage = "running", !.key = k,
                                       !.impl = instance[k[1]], !.asked = FALSE,
                                       !.told = FALSE \/ k \in cancelled]
                 ELSE [call[d] EXCEPT !.latched = @ /\ call[d].key # k]]
      <4>1. call'[c].stage = "running"
        BY <3>3 DEF Backend!NewFrame
      <4>2. \A d \in Calls \ {c} : call'[d].stage = call[d].stage
        BY <1>1, <3>3 DEF BackendFacts!Frames
      <4> QED
        BY <3>1, <4>1, <4>2
    <3> QED
      BY <2>2, <3>2, <3>3 DEF Backend!RunBatch
  <2>3. ASSUME Backend!CancelRunner(c, k) PROVE <1>5
    <3>1. call[c].stage = "idle"
      BY <2>3 DEF Backend!CancelRunner
    <3>2. CASE Backend!Answer(c, "not_found") \/ Backend!Answer(c, "exhausted")
      BY <2>1, <3>1, <3>2 DEF Backend!Refusals
    <3>3. CASE call' = [call EXCEPT ![c] =
                 [Backend!NewFrame EXCEPT !.stage = "cancelling", !.key = k,
                                  !.impl = instance[k[1]],
                                  !.latched = Backend!RunsOf(k) = {},
                                  !.aimed = Backend!RunsOf(k)]]
      BY <1>1, <3>1, <3>3 DEF Backend!NewFrame
    <3> QED
      BY <2>3, <3>2, <3>3 DEF Backend!CancelRunner
  <2>4. ASSUME Backend!DisposeRunner(c, k) PROVE <1>5
    <3>1. call[c].stage = "idle"
      BY <2>4 DEF Backend!DisposeRunner
    <3>2. CASE Backend!Answer(c, "not_found")
      BY <2>1, <3>1, <3>2 DEF Backend!Refusals
    <3>3. CASE call' = [d \in Calls |->
                 IF d = c
                 THEN [Backend!NewFrame EXCEPT !.stage = "disposing", !.key = k,
                                       !.impl = instance[k[1]]]
                 ELSE [call[d] EXCEPT !.latched = @ /\ call[d].key[1] # k[1]]]
      <4>1. call'[c].stage = "disposing"
        BY <3>3 DEF Backend!NewFrame
      <4>2. \A d \in Calls \ {c} : call'[d].stage = call[d].stage
        BY <1>1, <3>3 DEF BackendFacts!Frames
      <4> QED
        BY <3>1, <4>1, <4>2
    <3> QED
      BY <2>4, <3>2, <3>3 DEF Backend!DisposeRunner
  <2> QED
    BY <2>2, <2>3, <2>4 DEF FirstStep
<1>6. Backend!Next
  BY <1>3, Zenon DEF FirstStep, Backend!Next
<1>7. \A d \in Calls \ {c} : d \in Awaited' <=> d \in Awaited
  BY <1>5 DEF Awaited
<1>8. /\ c \notin Awaited
      /\ c \in Awaited' <=> call'[c].stage # "answered"
  BY <1>5 DEF Awaited
<1>9. Awaited \subseteq Calls /\ Awaited' \subseteq Calls
  BY DEF Awaited
<1> QED
  BY <1>5, <1>6, <1>7, <1>8, <1>9

\* A runner that hears of a cancel moves no call.
LEMMA RunnerHearsMoves ==
  ASSUME BackendFacts!IndInv, NEW c \in Calls, Backend!RunnerHears(c)
  PROVE  Backend!Next /\ Awaited' = Awaited
<1>1. call \in [Calls -> BackendFacts!Frames]
  BY DEF BackendFacts!IndInv, BackendFacts!TypeOK
<1>2. \A d \in Calls : call'[d].stage = call[d].stage
  BY <1>1 DEF Backend!RunnerHears, BackendFacts!Frames
<1>3. Backend!Next
  BY Zenon DEF Backend!Next
<1> QED
  BY <1>2, <1>3 DEF Awaited

\* A call that ends is awaited no longer.
LEMMA EndingMoves ==
  ASSUME BackendFacts!IndInv, NEW c \in Calls, NEW a \in Backend!Endings,
         Backend!RunEnds(c, a) \/ Backend!CancelEnds(c, a) \/ Backend!DisposeEnds(c, a)
  PROVE  Backend!Next /\ c \in Awaited /\ Awaited' = Awaited \ {c}
<1>1. call \in [Calls -> BackendFacts!Frames]
  BY DEF BackendFacts!IndInv, BackendFacts!TypeOK
<1>2. /\ call[c].stage \in {"running", "cancelling", "disposing"}
      /\ call'[c].stage = "answered"
      /\ \A d \in Calls \ {c} : call'[d] = call[d]
  <2>1. CASE Backend!CancelEnds(c, a)
    BY <1>1, <2>1 DEF Backend!CancelEnds, BackendFacts!Frames
  <2>2. CASE Backend!RunEnds(c, a) \/ Backend!DisposeEnds(c, a)
    BY <1>1, <2>2 DEF Backend!RunEnds, Backend!DisposeEnds, Backend!Answer, Backend!NewFrame
  <2> QED
    BY <2>1, <2>2
<1>3. Backend!Next
  BY Zenon DEF Backend!Next
<1> QED
  BY <1>2, <1>3 DEF Awaited

\* What a call has ended with is its answer.
LEMMA EndingAnswers ==
  ASSUME BackendFacts!IndInv, NEW c \in Calls, NEW a \in Backend!Endings,
         Backend!RunEnds(c, a) \/ Backend!CancelEnds(c, a) \/ Backend!DisposeEnds(c, a)
  PROVE  call'[c].stage = "answered" /\ call'[c].answer = a
<1>1. call \in [Calls -> BackendFacts!Frames]
  BY DEF BackendFacts!IndInv, BackendFacts!TypeOK
<1>2. CASE Backend!CancelEnds(c, a)
  BY <1>1, <1>2 DEF Backend!CancelEnds, BackendFacts!Frames
<1>3. CASE Backend!RunEnds(c, a) \/ Backend!DisposeEnds(c, a)
  BY <1>1, <1>3 DEF Backend!RunEnds, Backend!DisposeEnds, Backend!Answer, Backend!NewFrame
<1> QED
  BY <1>2, <1>3

\* A request that is accepted is worked on.
LEMMA AcceptMoves ==
  ASSUME TypeInv, NEW c \in Calls, asked[c] \in Asks,
         Bridge!Accept(c, asked[c].id, BridgeKind(c))
  PROVE  /\ Bridge!Next
         /\ reader = "reading" /\ reader' = reader
         /\ task' \in [Calls -> Bridge!Requests \cup {Bridge!Free}]
         /\ Bridge!Live' = Bridge!Live \cup {c}
<1> DEFINE r == [id |-> asked[c].id, kind |-> BridgeKind(c)]
<1>1. asked[c].id \in RequestIds /\ BridgeKind(c) \in Bridge!Kinds
  BY DEF Asks, BridgeKind, Bridge!Kinds
<1>2. r \in Bridge!Requests /\ r # Bridge!Free
  BY <1>1 DEF Bridge!Requests, Bridge!Free
<1>3. task' = [task EXCEPT ![c] = r] /\ reader = "reading" /\ reader' = reader
  BY DEF Bridge!Accept
<1> HIDE DEF r
<1>4. /\ task' \in [Calls -> Bridge!Requests \cup {Bridge!Free}]
      /\ \A d \in Calls : task'[d] = IF d = c THEN r ELSE task[d]
  BY <1>2, <1>3 DEF TypeInv
<1>5. Bridge!Live' = Bridge!Live \cup {c}
  BY <1>2, <1>4 DEF Bridge!Live
<1>6. Bridge!Next
  BY <1>1, Zenon DEF Bridge!Next
<1> QED
  BY <1>3, <1>4, <1>5, <1>6

\* A task that ends is worked on no longer.
LEMMA TaskEndsMoves ==
  ASSUME TypeInv, NEW c \in Calls, Bridge!TaskEnds(c)
  PROVE  /\ Bridge!Next
         /\ reader' = reader
         /\ task' \in [Calls -> Bridge!Requests \cup {Bridge!Free}]
         /\ Bridge!Live' = Bridge!Live \ {c}
<1>1. task' = [task EXCEPT ![c] = Bridge!Free] /\ reader' = reader
  BY DEF Bridge!TaskEnds, Bridge!Released
<1>2. /\ task' \in [Calls -> Bridge!Requests \cup {Bridge!Free}]
      /\ \A d \in Calls : task'[d] = IF d = c THEN Bridge!Free ELSE task[d]
  BY <1>1 DEF TypeInv
<1>3. Bridge!Live' = Bridge!Live \ {c}
  BY <1>2 DEF Bridge!Live
<1>4. Bridge!Next
  BY Zenon DEF Bridge!Next
<1> QED
  BY <1>1, <1>2, <1>3, <1>4

--------------------------------------------------------------------------------
(* Each step keeps the invariant, and is a step of both parts or none *)

BackendStep == Backend!Next \/ UNCHANGED backendVars
BridgeStep  == Bridge!Next \/ UNCHANGED bridgeVars
StepOK      == LinkInv' /\ BackendStep /\ BridgeStep

\* What is on its way was asked for.
LEMMA OnItsWayAsked ==
  ASSUME LinkInv
  PROVE  /\ OnItsWay \subseteq Calls
         /\ \A c \in OnItsWay : asked[c] \in Asks /\ asked[c].id \in RequestIds
         /\ \A r \in Asks : r # NotAsked
         /\ NoCall \notin Calls
<1>1. Sent \subseteq Calls /\ Answered \subseteq Calls /\ Awaited \subseteq Calls
  <2>1. /\ \A i \in 1..Len(input) : input[i] \in Calls
        /\ \A i \in 1..Len(output) : output[i] \in AnswerRecords
    BY DEF LinkInv, TypeInv
  <2>2. \A r \in AnswerRecords : r.of \in Calls
    BY DEF AnswerRecords
  <2> QED
    BY <2>1, <2>2 DEF Sent, Answered, Awaited
<1>2. OnItsWay \subseteq Calls
  BY <1>1 DEF OnItsWay
<1>3. \A c \in OnItsWay : asked[c] \in Asks /\ asked[c].id \in RequestIds
  BY <1>2 DEF LinkInv, TypeInv, HostOK, Asks
<1>4. \A r \in Asks : r # NotAsked
  BY DEF Asks, NotAsked
<1> QED
  BY <1>2, <1>3, <1>4, LinkAssumption DEF LinkAssumption

\* An answered call keeps its answer.
LEMMA UnwrittenKept ==
  ASSUME BackendFacts!IndInv, BackendStep
  PROVE  \A c \in Calls : Unwritten(c) => Unwritten(c)'
<1>1. call \in [Calls -> BackendFacts!Frames]
  BY DEF BackendFacts!IndInv, BackendFacts!TypeOK
<1> SUFFICES ASSUME NEW c \in Calls, call[c].stage = "answered"
             PROVE  call'[c].stage = "answered" /\ call'[c].answer = call[c].answer
  BY DEF Unwritten
<1>2. \A b \in BOOLEAN : /\ [call[c] EXCEPT !.latched = b].stage = call[c].stage
                         /\ [call[c] EXCEPT !.latched = b].answer = call[c].answer
                         /\ [call[c] EXCEPT !.heard = b].stage = call[c].stage
                         /\ [call[c] EXCEPT !.heard = b].answer = call[c].answer
  BY <1>1 DEF BackendFacts!Frames
<1>3. CASE UNCHANGED backendVars
  BY <1>3 DEF backendVars
<1>4. ASSUME NEW r, Backend!Register(r) PROVE call' = call
  BY <1>4 DEF Backend!Register
<1>5. ASSUME NEW d \in Calls, NEW a, Backend!Answer(d, a), call[d].stage # "answered"
      PROVE  call'[c] = call[c]
  BY <1>1, <1>5 DEF Backend!Answer
<1>6. ASSUME NEW d \in Calls, NEW k, NEW leasesMatch, NEW flag,
             Backend!RunBatch(d, k, leasesMatch, flag)
      PROVE  call'[c].stage = call[c].stage /\ call'[c].answer = call[c].answer
  <2>1. call[d].stage = "idle"
    BY <1>6 DEF Backend!RunBatch
  <2>2. CASE \E a : Backend!Answer(d, a)
    BY <1>5, <2>1, <2>2
  <2>3. CASE call' = [e \in Calls |->
               IF e = d
               THEN [Backend!NewFrame EXCEPT !.stage = "running", !.key = k,
                                     !.impl = instance[k[1]], !.asked = flag,
                                     !.told = flag \/ k \in cancelled]
               ELSE [call[e] EXCEPT !.latched = @ /\ call[e].key # k]]
    <3>1. call'[c] = [call[c] EXCEPT !.latched = @ /\ call[c].key # k]
      BY <2>1, <2>3
    <3> QED
      BY <1>1, <3>1 DEF BackendFacts!Frames
  <2> QED
    BY <1>6, <2>2, <2>3 DEF Backend!RunBatch
<1>7. ASSUME NEW d \in Calls, NEW k, Backend!CancelRunner(d, k) PROVE call'[c] = call[c]
  <2>1. call[d].stage = "idle"
    BY <1>7 DEF Backend!CancelRunner
  <2>2. CASE \E a : Backend!Answer(d, a)
    BY <1>5, <2>1, <2>2
  <2>3. CASE call' = [call EXCEPT ![d] =
               [Backend!NewFrame EXCEPT !.stage = "cancelling", !.key = k,
                                !.impl = instance[k[1]],
                                !.latched = Backend!RunsOf(k) = {},
                                !.aimed = Backend!RunsOf(k)]]
    BY <1>1, <2>1, <2>3
  <2> QED
    BY <1>7, <2>2, <2>3 DEF Backend!CancelRunner
<1>8. ASSUME NEW d \in Calls, NEW k, Backend!DisposeRunner(d, k)
      PROVE  call'[c].stage = call[c].stage /\ call'[c].answer = call[c].answer
  <2>1. call[d].stage = "idle"
    BY <1>8 DEF Backend!DisposeRunner
  <2>2. CASE \E a : Backend!Answer(d, a)
    BY <1>5, <2>1, <2>2
  <2>3. CASE call' = [e \in Calls |->
               IF e = d
               THEN [Backend!NewFrame EXCEPT !.stage = "disposing", !.key = k,
                                     !.impl = instance[k[1]]]
               ELSE [call[e] EXCEPT !.latched = @ /\ call[e].key[1] # k[1]]]
    <3>1. call'[c] = [call[c] EXCEPT !.latched = @ /\ call[c].key[1] # k[1]]
      BY <2>1, <2>3
    <3> QED
      BY <1>1, <3>1 DEF BackendFacts!Frames
  <2> QED
    BY <1>8, <2>2, <2>3 DEF Backend!DisposeRunner
<1>9. ASSUME NEW d \in Calls, Backend!RunnerHears(d)
      PROVE  call'[c].stage = call[c].stage /\ call'[c].answer = call[c].answer
  BY <1>1, <1>9 DEF Backend!RunnerHears, BackendFacts!Frames
<1>10. ASSUME NEW d \in Calls, NEW a,
              Backend!RunEnds(d, a) \/ Backend!CancelEnds(d, a) \/ Backend!DisposeEnds(d, a)
       PROVE  call'[c] = call[c]
  BY <1>1, <1>5, <1>10 DEF Backend!RunEnds, Backend!CancelEnds, Backend!DisposeEnds
<1> QED
  BY <1>3, <1>4, <1>6, <1>7, <1>8, <1>9, <1>10 DEF BackendStep, Backend!Next

\* A request that only moves on is as the host's table has it.
LEMMA HostKept ==
  ASSUME BackendFacts!IndInv, LinkInv, BackendStep, UNCHANGED hostVars,
         OnItsWay' = OnItsWay, Lossy => Lossy'
  PROVE  HostOK'
<1>1. \A c \in Calls : Unwritten(c) => Unwritten(c)'
  BY UnwrittenKept
<1>2. \A id \in RequestIds : waiting[id] # NoCall => waiting[id] \in Calls
  BY DEF LinkInv, TypeInv
<1>3. \A id \in RequestIds : waiting'[id] # NoCall /\ Unwritten(waiting[id]) => Unwritten(waiting[id])'
  BY <1>1, <1>2 DEF hostVars, Unwritten
<1> QED
  BY <1>3 DEF LinkInv, HostOK, hostVars

\* What moves nothing keeps every request in its place.
LEMMA NothingMoves ==
  ASSUME BackendFacts!IndInv, LinkInv, BackendStep, UNCHANGED <<hostVars, input, output>>,
         Awaited' = Awaited, UNCHANGED task,
         Lossy => Lossy', ReaderOK'
  PROVE  LinkInv' /\ OnItsWay' = OnItsWay
<1>1. Sent' = Sent /\ Answered' = Answered /\ OnItsWay' = OnItsWay
  BY DEF Sent, Answered, OnItsWay
<1>2. Bridge!Live' = Bridge!Live
  BY DEF Bridge!Live
<1>3. TypeInv'
  BY DEF LinkInv, TypeInv, hostVars
<1>4. PlacesOK'
  BY <1>1, <1>2 DEF LinkInv, PlacesOK, InputOK, OutputOK, hostVars
<1>5. HostOK'
  BY <1>1, HostKept
<1> QED
  BY <1>1, <1>3, <1>4, <1>5 DEF LinkInv

LEMMA RegisterOK ==
  ASSUME BackendFacts!IndInv, LinkInv, NEW r \in RunnerIds, Register(r)
  PROVE  StepOK /\ OnItsWay' = OnItsWay
<1>1. Backend!Register(r) /\ UNCHANGED <<bridgeVars, hostVars, input, output>>
  BY DEF Register
<1>2. Awaited' = Awaited
  BY <1>1 DEF Backend!Register, Awaited
<1>3. UNCHANGED task /\ reader' = reader /\ UNCHANGED closed
  BY <1>1 DEF bridgeVars, hostVars
<1>4. BackendStep
  BY <1>1, Zenon DEF BackendStep, Backend!Next
<1>5. LinkInv' /\ OnItsWay' = OnItsWay
  BY <1>1, <1>2, <1>3, <1>4, NothingMoves DEF LinkInv, Lossy, ReaderOK
<1> QED
  BY <1>1, <1>4, <1>5 DEF StepOK, BridgeStep

LEMMA ConnectOK ==
  ASSUME BackendFacts!IndInv, LinkInv, NEW id \in RequestIds, NEW hello \in Offers, Connect(id, hello)
  PROVE  StepOK /\ OnItsWay' = OnItsWay
<1>1. Bridge!ReadInitialize(id, hello) /\ UNCHANGED <<backendVars, hostVars, input, output>>
  BY DEF Connect
<1>2. Awaited' = Awaited
  BY <1>1 DEF backendVars, Awaited
<1>3. UNCHANGED task /\ reader = "reading" /\ reader' \in {"reading", "overlong"}
  BY <1>1 DEF Bridge!ReadInitialize, Bridge!ReaderReplies
<1>4. LinkInv' /\ OnItsWay' = OnItsWay
  BY <1>1, <1>2, <1>3, NothingMoves DEF Lossy, ReaderOK, BackendStep
<1>5. BridgeStep
  BY <1>1, Zenon DEF BridgeStep, Bridge!Next
<1> QED
  BY <1>1, <1>4, <1>5 DEF StepOK, BackendStep

LEMMA HearsOK ==
  ASSUME BackendFacts!IndInv, LinkInv, NEW c \in Calls, RunnerHears(c)
  PROVE  StepOK /\ OnItsWay' = OnItsWay
<1>1. Backend!RunnerHears(c) /\ UNCHANGED <<bridgeVars, hostVars, input, output>>
  BY DEF RunnerHears
<1>2. Awaited' = Awaited /\ Backend!Next
  BY <1>1, RunnerHearsMoves
<1>3. UNCHANGED task /\ reader' = reader /\ UNCHANGED closed
  BY <1>1 DEF bridgeVars, hostVars
<1>4. LinkInv' /\ OnItsWay' = OnItsWay
  BY <1>1, <1>2, <1>3, NothingMoves DEF LinkInv, Lossy, ReaderOK, BackendStep
<1> QED
  BY <1>1, <1>2, <1>4 DEF StepOK, BridgeStep, BackendStep

LEMMA ShutdownOK ==
  ASSUME BackendFacts!IndInv, LinkInv, Shutdown
  PROVE  StepOK /\ OnItsWay' = OnItsWay
<1>1. UNCHANGED <<backendVars, hostVars, input, output>>
  BY DEF Shutdown
<1>2. Awaited' = Awaited
  BY <1>1 DEF backendVars, Awaited
<1>3. /\ UNCHANGED task /\ reader' \in {"draining", "cancelling", "stopped"}
      /\ Lossy => Lossy'
      /\ closed /\ input = <<>>
      /\ Bridge!Next
  <2>1. CASE closed /\ input = <<>> /\ Bridge!EndOfInput
    BY <2>1 DEF Bridge!EndOfInput, Bridge!Next, Lossy
  <2>2. CASE Bridge!ShutdownTimeout
    BY <2>2 DEF Bridge!ShutdownTimeout, Bridge!Next, Lossy, LinkInv, ReaderOK
  <2>3. CASE Bridge!Stop
    BY <2>3 DEF Bridge!Stop, Bridge!Next, Lossy, LinkInv, ReaderOK
  <2> QED
    BY <2>1, <2>2, <2>3 DEF Shutdown
<1>4. ReaderOK'
  BY <1>1, <1>3 DEF ReaderOK, hostVars
<1>5. LinkInv' /\ OnItsWay' = OnItsWay
  BY <1>1, <1>2, <1>3, <1>4, NothingMoves DEF BackendStep
<1> QED
  BY <1>1, <1>3, <1>5 DEF StepOK, BackendStep, BridgeStep

LEMMA CloseOK ==
  ASSUME BackendFacts!IndInv, LinkInv, Close
  PROVE  StepOK /\ OnItsWay' = OnItsWay
<1>1. closed' = TRUE /\ UNCHANGED <<bridgeVars, backendVars, asked, waiting, got, input, output>>
  BY DEF Close
<1>2. /\ Sent' = Sent /\ Answered' = Answered /\ Awaited' = Awaited
      /\ OnItsWay' = OnItsWay /\ Bridge!Live' = Bridge!Live
  BY <1>1 DEF bridgeVars, backendVars, Sent, Answered, Awaited, OnItsWay, Bridge!Live
<1>3. TypeInv' /\ PlacesOK' /\ ReaderOK'
  BY <1>1, <1>2 DEF LinkInv, TypeInv, PlacesOK, InputOK, OutputOK, ReaderOK, bridgeVars
<1>4. HostOK'
  BY <1>1, <1>2 DEF LinkInv, HostOK, Lossy, Unwritten, bridgeVars, backendVars
<1> QED
  BY <1>1, <1>2, <1>3, <1>4 DEF StepOK, LinkInv, BackendStep, BridgeStep

LEMMA SendOK ==
  ASSUME BackendFacts!IndInv, LinkInv, NEW c \in Calls, NEW request \in Wanted[c], Send(c, request)
  PROVE  /\ StepOK /\ OnItsWay' = OnItsWay \cup {c} /\ ~closed /\ asked[c] = NotAsked
         /\ asked'[c] # NotAsked /\ \A d \in Calls : d # c => asked'[d] = asked[d]
<1> DEFINE r == [kind |-> request.kind, key |-> request.key, id |-> request.id,
                 after |-> Outstanding]
<1>1. /\ negotiated /\ ~closed /\ asked[c] = NotAsked /\ waiting[request.id] = NoCall
      /\ asked' = [asked EXCEPT ![c] = r]
      /\ waiting' = [waiting EXCEPT ![request.id] = c]
      /\ input' = Append(input, c)
      /\ UNCHANGED <<bridgeVars, backendVars, closed, got, output>>
  BY DEF Send
<1>2. r \in Asks /\ r.id = request.id /\ request.id \in RequestIds
  <2>1. request \in Requests
    BY LinkAssumption DEF LinkAssumption
  <2>2. Outstanding \subseteq Calls
    BY DEF Outstanding
  <2> QED
    BY <2>1, <2>2 DEF Requests, Asks
<1> HIDE DEF r
<1>3. /\ OnItsWay \subseteq Calls /\ NoCall \notin Calls
      /\ c \notin OnItsWay /\ r # NotAsked
  BY <1>1, <1>2, OnItsWayAsked DEF LinkInv, HostOK
<1>4. /\ input' \in Seq(Calls) /\ Sent' = Sent \cup {c} /\ InputOK'
  BY <1>1, <1>3, SentGrows DEF LinkInv, TypeInv, PlacesOK, OnItsWay
<1>5. Answered' = Answered /\ Awaited' = Awaited /\ Bridge!Live' = Bridge!Live
  BY <1>1 DEF bridgeVars, backendVars, Answered, Awaited, Bridge!Live
<1>6. OnItsWay' = OnItsWay \cup {c}
  BY <1>4, <1>5 DEF OnItsWay
<1>7. /\ asked' \in [Calls -> Asks \cup {NotAsked}]
      /\ waiting' \in [RequestIds -> Calls \cup {NoCall}]
      /\ asked'[c] = r /\ waiting'[request.id] = c
      /\ \A d \in Calls : d # c => asked'[d] = asked[d]
      /\ \A id \in RequestIds : id # request.id => waiting'[id] = waiting[id]
  BY <1>1, <1>2 DEF LinkInv, TypeInv
<1>8. TypeInv'
  BY <1>1, <1>4, <1>7 DEF LinkInv, TypeInv, bridgeVars
<1>9. OutputOK'
  <2>1. \A i \in 1..Len(output) : output[i].of \in OnItsWay
    BY DEF OnItsWay, Answered
  <2>2. \A i \in 1..Len(output) : asked'[output[i].of] = asked[output[i].of]
    BY <1>3, <1>7, <2>1
  <2> QED
    BY <1>1, <2>2 DEF LinkInv, PlacesOK, OutputOK
<1>10. PlacesOK'
  BY <1>3, <1>4, <1>5, <1>9 DEF LinkInv, PlacesOK, OnItsWay
<1>11. ReaderOK'
  BY <1>1 DEF LinkInv, ReaderOK, bridgeVars
<1>12. got[c] = NoAnswer
  BY <1>1 DEF LinkInv, HostOK
<1>13. HostOK'
  <2>1. \A d \in OnItsWay' : asked'[d] # NotAsked /\ waiting'[asked'[d].id] = d
                             /\ got'[d] = NoAnswer
    <3> SUFFICES ASSUME NEW d \in OnItsWay'
                 PROVE  asked'[d] # NotAsked /\ waiting'[asked'[d].id] = d /\ got'[d] = NoAnswer
      OBVIOUS
    <3>1. CASE d = c
      BY <1>1, <1>2, <1>3, <1>7, <1>12, <3>1
    <3>2. CASE d # c
      <4>1. d \in OnItsWay /\ d \in Calls
        BY <1>3, <1>6, <3>2
      <4>2. /\ asked[d] # NotAsked /\ waiting[asked[d].id] = d /\ got[d] = NoAnswer
            /\ asked[d].id \in RequestIds
        BY <4>1, OnItsWayAsked DEF LinkInv, HostOK
      <4>3. asked[d].id # request.id
        BY <1>1, <1>3, <4>1, <4>2
      <4> QED
        BY <1>1, <1>7, <3>2, <4>1, <4>2, <4>3
    <3> QED
      BY <3>1, <3>2
  <2>2. \A id \in RequestIds : waiting'[id] # NoCall =>
          /\ asked'[waiting'[id]] # NotAsked /\ asked'[waiting'[id]].id = id
          /\ got'[waiting'[id]] = NoAnswer
          /\ waiting'[id] \in OnItsWay' \/ Lossy' \/ Unwritten(waiting[id])'
    <3> SUFFICES ASSUME NEW id \in RequestIds, waiting'[id] # NoCall
                 PROVE  /\ asked'[waiting'[id]] # NotAsked /\ asked'[waiting'[id]].id = id
                        /\ got'[waiting'[id]] = NoAnswer
                        /\ waiting'[id] \in OnItsWay' \/ Lossy' \/ Unwritten(waiting[id])'
      OBVIOUS
    <3>1. CASE id = request.id
      BY <1>1, <1>2, <1>3, <1>6, <1>7, <1>12, <3>1
    <3>2. CASE id # request.id
      <4>1. /\ waiting'[id] = waiting[id] /\ waiting[id] \in Calls
            /\ asked[waiting[id]] # NotAsked /\ asked[waiting[id]].id = id
            /\ got[waiting[id]] = NoAnswer
            /\ waiting[id] \in OnItsWay \/ Lossy \/ Unwritten(waiting[id])
        BY <1>7, <3>2 DEF LinkInv, TypeInv, HostOK
      <4>2. waiting[id] # c
        BY <1>1, <4>1
      <4>3. Lossy' = Lossy /\ Unwritten(waiting[id])' = Unwritten(waiting[id])
        BY <1>1, <4>1 DEF Lossy, Unwritten, bridgeVars, backendVars
      <4> QED
        BY <1>1, <1>6, <1>7, <4>1, <4>2, <4>3
    <3> QED
      BY <3>1, <3>2
  <2>3. \A d \in Calls : got'[d] # NoAnswer => asked'[d] # NotAsked /\ got'[d].of = d
    BY <1>1, <1>3, <1>7 DEF LinkInv, HostOK
  <2> QED
    BY <2>1, <2>2, <2>3 DEF HostOK
<1> QED
  BY <1>1, <1>3, <1>6, <1>7, <1>8, <1>10, <1>11, <1>13
     DEF StepOK, LinkInv, BackendStep, BridgeStep

LEMMA RefuseOK ==
  ASSUME BackendFacts!IndInv, LinkInv, NEW c \in Calls, Refuse(c)
  PROVE  StepOK /\ OnItsWay' = OnItsWay
<1>1. /\ ReadFrame(c) /\ UNCHANGED hostVars /\ UNCHANGED backendVars
      /\ Bridge!Reject(asked[c].id, BridgeKind(c))
      /\ output' = Append(output, AnswerTo(c, "refused"))
  BY DEF Refuse, ReadFrame
<1>2. /\ input' \in Seq(Calls) /\ c \in Sent /\ Sent' = Sent \ {c} /\ InputOK'
  BY <1>1, SentShrinks DEF LinkInv, TypeInv, PlacesOK
<1>3. c \in OnItsWay /\ asked[c] \in Asks /\ asked[c] # NotAsked
  BY <1>2, OnItsWayAsked DEF OnItsWay
<1>4. /\ output' \in Seq(AnswerRecords) /\ OutputOK' /\ Answered' = Answered \cup {c}
  <2>1. c \notin Answered
    BY <1>2 DEF LinkInv, PlacesOK
  <2>2. asked' = asked
    BY <1>1 DEF hostVars
  <2> QED
    BY <1>1, <1>3, <2>1, <2>2, AnsweredGrows DEF LinkInv, PlacesOK
<1>5. Awaited' = Awaited
  BY <1>1 DEF backendVars, Awaited
<1>6. reader = "reading" /\ reader' \in {"reading", "overlong"} /\ task' = task
  BY <1>1 DEF Bridge!Reject, Bridge!ReaderReplies
<1>7. Bridge!Live' = Bridge!Live
  BY <1>6 DEF Bridge!Live
<1>8. OnItsWay' = OnItsWay
  BY <1>2, <1>4, <1>5 DEF OnItsWay
<1>9. TypeInv'
  BY <1>1, <1>2, <1>4, <1>6 DEF LinkInv, TypeInv, hostVars
<1>10. PlacesOK'
  BY <1>2, <1>4, <1>5, <1>7 DEF LinkInv, PlacesOK
<1>11. ReaderOK' /\ HostOK'
  BY <1>1, <1>6, <1>8, HostKept DEF LinkInv, ReaderOK, Lossy, BackendStep
<1>12. Bridge!Next
  <2>1. asked[c].id \in RequestIds /\ BridgeKind(c) \in Bridge!Kinds
    BY <1>3 DEF Asks, BridgeKind, Bridge!Kinds
  <2> QED
    BY <1>1, <2>1, Zenon DEF Bridge!Next
<1> QED
  BY <1>1, <1>8, <1>9, <1>10, <1>11, <1>12 DEF StepOK, LinkInv, BackendStep, BridgeStep

LEMMA TakeOK ==
  ASSUME BackendFacts!IndInv, LinkInv, NEW c \in Calls, Take(c)
  PROVE  StepOK /\ OnItsWay' = OnItsWay
<1>1. ReadFrame(c) /\ UNCHANGED hostVars /\ FirstStep(c)
  BY DEF Take, ReadFrame
<1>2. /\ input' \in Seq(Calls) /\ c \in Sent /\ Sent' = Sent \ {c} /\ InputOK'
  BY <1>1, SentShrinks DEF LinkInv, TypeInv, PlacesOK
<1>3. c \in OnItsWay /\ asked[c] \in Asks /\ asked[c] # NotAsked
  BY <1>2, OnItsWayAsked DEF OnItsWay
<1>4. /\ Backend!Next /\ c \notin Awaited
      /\ call'[c].stage = "answered" =>
           Awaited' = Awaited /\ call'[c].answer \in Backend!Answers
      /\ call'[c].stage # "answered" => Awaited' = Awaited \cup {c}
  BY <1>1, <1>3, FirstStepMoves
<1>5. c \notin Answered /\ c \notin Awaited
  BY <1>2 DEF LinkInv, PlacesOK
<1>6. CASE call'[c].stage = "answered"
  <2>1. /\ reader = "reading" /\ UNCHANGED bridgeVars
        /\ output' = Append(output, AnswerTo(c, call'[c].answer))
    BY <1>6 DEF Take
  <2>2. /\ output' \in Seq(AnswerRecords) /\ OutputOK' /\ Answered' = Answered \cup {c}
    <3> DEFINE a == call'[c].answer
    <3>1. a \in Backend!Answers \cup {"refused"} /\ output' = Append(output, AnswerTo(c, a))
      BY <1>4, <1>6, <2>1
    <3>2. asked' = asked
      BY <1>1 DEF hostVars
    <3> HIDE DEF a
    <3>3. PICK b \in Backend!Answers \cup {"refused"} : output' = Append(output, AnswerTo(c, b))
      BY <3>1
    <3> QED
      BY <1>3, <1>5, <3>2, <3>3, AnsweredGrows DEF LinkInv, PlacesOK
  <2>3. OnItsWay' = OnItsWay
    BY <1>2, <1>4, <1>6, <2>2 DEF OnItsWay
  <2>4. TypeInv'
    BY <1>1, <1>2, <2>1, <2>2 DEF LinkInv, TypeInv, hostVars, bridgeVars
  <2>5. Bridge!Live' = Bridge!Live
    BY <2>1 DEF Bridge!Live, bridgeVars
  <2>6. PlacesOK'
    BY <1>2, <1>4, <1>5, <1>6, <2>2, <2>5 DEF LinkInv, PlacesOK
  <2>7. ReaderOK' /\ HostOK'
    BY <1>1, <1>4, <2>1, <2>3, HostKept DEF LinkInv, ReaderOK, Lossy, BackendStep, bridgeVars
  <2> QED
    BY <1>4, <2>1, <2>3, <2>4, <2>6, <2>7 DEF StepOK, LinkInv, BackendStep, BridgeStep
<1>7. CASE call'[c].stage # "answered"
  <2>1. Bridge!Accept(c, asked[c].id, BridgeKind(c)) /\ output' = output
    BY <1>7 DEF Take
  <2>2. /\ Bridge!Next /\ reader = "reading" /\ reader' = reader
        /\ task' \in [Calls -> Bridge!Requests \cup {Bridge!Free}]
        /\ Bridge!Live' = Bridge!Live \cup {c}
    BY <1>3, <2>1, AcceptMoves DEF LinkInv
  <2>3. Answered' = Answered /\ OnItsWay' = OnItsWay
    BY <1>2, <1>4, <1>7, <2>1 DEF OnItsWay, Answered
  <2>4. TypeInv'
    BY <1>1, <1>2, <2>1, <2>2 DEF LinkInv, TypeInv, hostVars
  <2>5. OutputOK'
    BY <1>1, <2>1 DEF LinkInv, PlacesOK, OutputOK, hostVars
  <2>6. PlacesOK'
    BY <1>2, <1>4, <1>5, <1>7, <2>2, <2>3, <2>5 DEF LinkInv, PlacesOK
  <2>7. ReaderOK' /\ HostOK'
    BY <1>1, <1>4, <2>2, <2>3, HostKept DEF LinkInv, ReaderOK, Lossy, BackendStep
  <2> QED
    BY <1>4, <2>2, <2>3, <2>4, <2>6, <2>7 DEF StepOK, LinkInv, BackendStep, BridgeStep
<1> QED
  BY <1>6, <1>7

LEMMA CallEndsOK ==
  ASSUME BackendFacts!IndInv, LinkInv, NEW c \in Calls, NEW answer \in Backend!Endings,
         CallEnds(c, answer)
  PROVE  /\ StepOK /\ c \in OnItsWay
         /\ \/ OnItsWay' = OnItsWay
            \/ OnItsWay' = OnItsWay \ {c} /\ (closed \/ c \in Unwritable)
<1>1. /\ Backend!RunEnds(c, answer) \/ Backend!CancelEnds(c, answer)
           \/ Backend!DisposeEnds(c, answer)
      /\ Bridge!TaskEnds(c)
      /\ UNCHANGED hostVars /\ input' = input
      /\ \/ \E reply \in Backend!Endings : output' = Append(output, AnswerTo(c, reply))
         \/ /\ answer = "raised" /\ output' = output
            /\ reader = "cancelling" \/ c \in Unwritable
  BY DEF CallEnds, Unanswered, Reply, Backend!Endings
<1>2. Backend!Next /\ c \in Awaited /\ Awaited' = Awaited \ {c}
  BY <1>1, EndingMoves
<1>3. /\ Bridge!Next /\ reader' = reader
      /\ task' \in [Calls -> Bridge!Requests \cup {Bridge!Free}]
      /\ Bridge!Live' = Bridge!Live \ {c}
  BY <1>1, TaskEndsMoves DEF LinkInv
<1>4. c \in OnItsWay /\ asked[c] # NotAsked /\ c \notin Sent /\ c \notin Answered
  BY <1>2 DEF OnItsWay, LinkInv, PlacesOK, HostOK
<1>5. Sent' = Sent /\ InputOK' /\ ReaderOK'
  BY <1>1, <1>3 DEF Sent, LinkInv, PlacesOK, InputOK, ReaderOK, hostVars
<1>6. CASE \E reply \in Backend!Endings : output' = Append(output, AnswerTo(c, reply))
  <2>1. /\ output' \in Seq(AnswerRecords) /\ OutputOK' /\ Answered' = Answered \cup {c}
    <3>1. PICK reply \in Backend!Answers \cup {"refused"} :
            output' = Append(output, AnswerTo(c, reply))
      BY <1>6 DEF Backend!Endings, Backend!Answers
    <3>2. asked' = asked
      BY <1>1 DEF hostVars
    <3> QED
      BY <1>4, <3>1, <3>2, AnsweredGrows DEF LinkInv, PlacesOK
  <2>2. OnItsWay' = OnItsWay
    BY <1>2, <1>5, <2>1 DEF OnItsWay
  <2>3. TypeInv'
    BY <1>1, <1>3, <2>1 DEF LinkInv, TypeInv, hostVars
  <2>4. PlacesOK'
    BY <1>2, <1>3, <1>4, <1>5, <2>1 DEF LinkInv, PlacesOK
  <2>5. HostOK'
    BY <1>1, <1>2, <1>3, <2>2, HostKept DEF Lossy, BackendStep
  <2> QED
    BY <1>2, <1>3, <1>4, <1>5, <2>2, <2>3, <2>4, <2>5
       DEF StepOK, LinkInv, BackendStep, BridgeStep
<1>7. CASE /\ answer = "raised" /\ output' = output
           /\ reader = "cancelling" \/ c \in Unwritable
  <2>1. Answered' = Answered /\ OutputOK'
    BY <1>1, <1>7 DEF Answered, LinkInv, PlacesOK, OutputOK, hostVars
  <2>2. OnItsWay' = OnItsWay \ {c}
    BY <1>2, <1>4, <1>5, <2>1 DEF OnItsWay
  <2>3. TypeInv'
    BY <1>1, <1>3, <1>7 DEF LinkInv, TypeInv, hostVars
  <2>4. PlacesOK'
    BY <1>2, <1>3, <1>5, <2>1 DEF LinkInv, PlacesOK
  <2>5. Lossy' = Lossy /\ ((Lossy' /\ closed) \/ c \in Unwritable)
    BY <1>3, <1>7 DEF Lossy, LinkInv, ReaderOK
  <2>6. c \in Unwritable => Unwritten(c)'
    <3>1. call'[c].stage = "answered" /\ call'[c].answer = "raised"
      BY <1>1, <1>7, EndingAnswers
    <3> QED
      BY <3>1 DEF Unwritten
  <2>7. HostOK'
    <3>1. \A d \in OnItsWay' : /\ asked'[d] # NotAsked /\ waiting'[asked'[d].id] = d
                              /\ got'[d] = NoAnswer
      BY <1>1, <2>2 DEF LinkInv, HostOK, hostVars
    <3>2. ASSUME NEW id \in RequestIds, waiting'[id] # NoCall
          PROVE  /\ asked'[waiting'[id]] # NotAsked /\ asked'[waiting'[id]].id = id
                 /\ got'[waiting'[id]] = NoAnswer
                 /\ waiting'[id] \in OnItsWay' \/ Lossy' \/ Unwritten(waiting[id])'
      <4>1. /\ waiting'[id] = waiting[id] /\ waiting[id] \in Calls
            /\ asked' = asked /\ got' = got
            /\ asked[waiting[id]] # NotAsked /\ asked[waiting[id]].id = id
            /\ got[waiting[id]] = NoAnswer
            /\ waiting[id] \in OnItsWay \/ Lossy \/ Unwritten(waiting[id])
        BY <1>1, <3>2 DEF LinkInv, TypeInv, HostOK, hostVars
      <4>2. Unwritten(waiting[id]) => Unwritten(waiting[id])'
        <5>1. \A d \in Calls : Unwritten(d) => Unwritten(d)'
          BY <1>2, UnwrittenKept DEF BackendStep
        <5> QED
          BY <4>1, <5>1 DEF Unwritten
      <4>3. CASE waiting[id] = c
        <5>1. Lossy' \/ Unwritten(waiting[id])'
          BY <2>5, <2>6, <4>1, <4>3 DEF Unwritten
        <5> QED
          BY <4>1, <5>1
      <4>4. CASE waiting[id] # c
        BY <2>2, <2>5, <4>1, <4>2, <4>4
      <4> QED
        BY <4>3, <4>4
    <3>3. \A d \in Calls : got'[d] # NoAnswer => asked'[d] # NotAsked /\ got'[d].of = d
      BY <1>1 DEF LinkInv, HostOK, hostVars
    <3> QED
      BY <3>1, <3>2, <3>3 DEF HostOK
  <2> QED
    BY <1>2, <1>3, <1>4, <1>5, <2>2, <2>3, <2>4, <2>5, <2>7
       DEF StepOK, LinkInv, BackendStep, BridgeStep
<1> QED
  BY <1>1, <1>6, <1>7

\* The host takes an answer for the call it is the answer to.
LEMMA ReceiveOK ==
  ASSUME BackendFacts!IndInv, LinkInv, Receive
  PROVE  /\ StepOK
         /\ \E c \in OnItsWay : /\ OnItsWay' = OnItsWay \ {c}
                                /\ got'[c] # NoAnswer
                                /\ \A d \in Calls : d # c => got'[d] = got[d]
<1> DEFINE answer == Head(output)
           c == answer.of
<1>1. /\ output # <<>> /\ output' = Tail(output)
      /\ got' = [d \in Calls |-> IF waiting[answer.id] = d THEN answer ELSE got[d]]
      /\ waiting' = [waiting EXCEPT ![answer.id] = NoCall]
      /\ UNCHANGED <<bridgeVars, backendVars, closed, asked, input>>
  BY DEF Receive
<1>2. /\ output' \in Seq(AnswerRecords) /\ OutputOK' /\ answer \in AnswerRecords
      /\ c \in Answered /\ Answered' = Answered \ {c} /\ answer.id = asked[c].id
  BY <1>1, AnsweredShrinks DEF LinkInv, PlacesOK
<1> HIDE DEF answer
<1>3. answer # NoAnswer /\ answer.id \in RequestIds /\ c \in Calls
  <2>1. \A a \in AnswerRecords : a.id \in RequestIds /\ a.of \in Calls /\ a # NoAnswer
    BY DEF AnswerRecords, NoAnswer
  <2> QED
    BY <1>2, <2>1
<1>4. /\ c \in OnItsWay /\ OnItsWay \subseteq Calls /\ NoCall \notin Calls
      /\ waiting[answer.id] = c /\ asked[c] # NotAsked /\ got[c] = NoAnswer
  <2>1. c \in OnItsWay
    BY <1>2 DEF OnItsWay
  <2> QED
    BY <1>2, <2>1, OnItsWayAsked DEF LinkInv, HostOK
<1> DEFINE id == answer.id
<1>5. /\ got' \in [Calls -> AnswerRecords \cup {NoAnswer}]
      /\ got'[c] = answer /\ \A d \in Calls : d # c => got'[d] = got[d]
  BY <1>1, <1>2, <1>3, <1>4 DEF LinkInv, TypeInv
<1>6. /\ waiting' \in [RequestIds -> Calls \cup {NoCall}]
      /\ waiting'[id] = NoCall
      /\ \A i \in RequestIds : i # id => waiting'[i] = waiting[i]
  BY <1>1, <1>3 DEF LinkInv, TypeInv
<1> HIDE DEF c, id
<1>7. Sent' = Sent /\ Awaited' = Awaited /\ Bridge!Live' = Bridge!Live
  BY <1>1 DEF Sent, Awaited, Bridge!Live, bridgeVars, backendVars
<1>8. OnItsWay' = OnItsWay \ {c}
  BY <1>2, <1>7 DEF OnItsWay, LinkInv, PlacesOK
<1>9. TypeInv'
  BY <1>1, <1>2, <1>5, <1>6 DEF LinkInv, TypeInv, bridgeVars
<1>10. PlacesOK'
  BY <1>1, <1>2, <1>7 DEF LinkInv, PlacesOK, InputOK
<1>11. ReaderOK' /\ Lossy' = Lossy
  BY <1>1 DEF LinkInv, ReaderOK, Lossy, bridgeVars
<1>12. HostOK'
  <2>1. ASSUME NEW d \in OnItsWay'
        PROVE  asked'[d] # NotAsked /\ waiting'[asked'[d].id] = d /\ got'[d] = NoAnswer
    <3>1. /\ d \in OnItsWay /\ d # c /\ d \in Calls
      BY <1>4, <1>8, <2>1
    <3>2. /\ asked[d] # NotAsked /\ waiting[asked[d].id] = d /\ got[d] = NoAnswer
          /\ asked[d].id \in RequestIds
      BY <3>1, OnItsWayAsked DEF LinkInv, HostOK
    <3>3. asked[d].id # id
      BY <1>4, <3>1, <3>2 DEF id
    <3> QED
      BY <1>1, <1>5, <1>6, <3>1, <3>2, <3>3
  <2>2. ASSUME NEW i \in RequestIds, waiting'[i] # NoCall
        PROVE  /\ asked'[waiting'[i]] # NotAsked /\ asked'[waiting'[i]].id = i
               /\ got'[waiting'[i]] = NoAnswer
               /\ waiting'[i] \in OnItsWay' \/ Lossy' \/ Unwritten(waiting[i])'
    <3>1. i # id /\ waiting'[i] = waiting[i] /\ waiting[i] \in Calls
      BY <1>6, <2>2 DEF LinkInv, TypeInv
    <3>2. /\ asked[waiting[i]] # NotAsked /\ asked[waiting[i]].id = i
          /\ got[waiting[i]] = NoAnswer
          /\ waiting[i] \in OnItsWay \/ Lossy \/ Unwritten(waiting[i])
      BY <2>2, <3>1 DEF LinkInv, HostOK
    <3>3. waiting[i] # c
      BY <1>2, <3>1, <3>2 DEF id
    <3>4. Unwritten(waiting[i])' = Unwritten(waiting[i])
      BY <1>1, <3>1 DEF Unwritten, backendVars
    <3> QED
      BY <1>1, <1>5, <1>8, <1>11, <3>1, <3>2, <3>3, <3>4
  <2>3. \A d \in Calls : got'[d] # NoAnswer => asked'[d] # NotAsked /\ got'[d].of = d
    BY <1>1, <1>4, <1>5 DEF LinkInv, HostOK, c
  <2> QED
    BY <2>1, <2>2, <2>3 DEF HostOK
<1>13. c \in OnItsWay /\ got'[c] # NoAnswer /\ \A d \in Calls : d # c => got'[d] = got[d]
  BY <1>3, <1>4, <1>5
<1> QED
  BY <1>1, <1>8, <1>9, <1>10, <1>11, <1>12, <1>13
     DEF StepOK, LinkInv, BackendStep, BridgeStep

--------------------------------------------------------------------------------
(* The specification keeps the invariant *)

LEMMA InitOK == Init => LinkInv /\ BackendFacts!IndInv
<1> SUFFICES ASSUME Init PROVE LinkInv /\ BackendFacts!IndInv
  OBVIOUS
<1>1. /\ Bridge!Init /\ Backend!Init /\ closed = FALSE
      /\ asked = [c \in Calls |-> NotAsked]
      /\ waiting = [id \in RequestIds |-> NoCall]
      /\ got = [c \in Calls |-> NoAnswer]
      /\ input = <<>> /\ output = <<>>
  BY DEF Init
<1>2. task = [c \in Calls |-> Bridge!Free] /\ reader = "reading"
  BY <1>1 DEF Bridge!Init
<1>3. \A c \in Calls : call[c].stage = "idle"
  BY <1>1 DEF Backend!Init, Backend!NewFrame
<1>4. Sent = {} /\ Answered = {} /\ Awaited = {} /\ OnItsWay = {} /\ Bridge!Live = {}
  BY <1>1, <1>2, <1>3 DEF Sent, Answered, Awaited, OnItsWay, Bridge!Live
<1>5. TypeInv
  <2>1. /\ asked \in [Calls -> Asks \cup {NotAsked}]
        /\ waiting \in [RequestIds -> Calls \cup {NoCall}]
        /\ got \in [Calls -> AnswerRecords \cup {NoAnswer}]
    BY <1>1
  <2>2. task \in [Calls -> Bridge!Requests \cup {Bridge!Free}]
    BY <1>2
  <2>3. <<>> \in Seq(Calls) /\ <<>> \in Seq(AnswerRecords)
    OBVIOUS
  <2> QED
    BY <1>1, <2>1, <2>2, <2>3, Zenon DEF TypeInv
<1>6. PlacesOK /\ ReaderOK
  BY <1>1, <1>2, <1>4 DEF PlacesOK, InputOK, OutputOK, ReaderOK
<1>7. HostOK
  BY <1>1, <1>4 DEF HostOK
<1>8. BackendFacts!IndInv
  <2>1. BackendFacts!BackendAssumption
    BY LinkAssumption DEF LinkAssumption, BackendFacts!BackendAssumption
  <2> QED
    BY <1>1, <2>1, SameBackend, BackendFacts!InitIndInv
<1> QED
  BY <1>5, <1>6, <1>7, <1>8 DEF LinkInv

LEMMA NextOK ==
  ASSUME LinkInv, BackendFacts!IndInv, [Next]_vars
  PROVE  StepOK /\ BackendFacts!IndInv'
<1>1. CASE UNCHANGED vars
  <2>1. /\ UNCHANGED <<hostVars, input, output>> /\ UNCHANGED task /\ reader' = reader
        /\ UNCHANGED backendVars /\ UNCHANGED bridgeVars /\ UNCHANGED closed
    BY <1>1 DEF vars, bridgeVars, hostVars
  <2>2. Awaited' = Awaited
    BY <2>1 DEF Awaited, backendVars
  <2>3. LinkInv'
    BY <2>1, <2>2, NothingMoves DEF LinkInv, Lossy, ReaderOK, BackendStep
  <2> QED
    BY <2>1, <2>3, BackendKeeps DEF StepOK, BackendStep, BridgeStep
<1>2. CASE Next
  <2>1. StepOK
    BY <1>2, RegisterOK, ConnectOK, SendOK, RefuseOK, TakeOK, HearsOK, CallEndsOK, ReceiveOK,
       CloseOK, ShutdownOK DEF Next
  <2> QED
    BY <2>1, BackendKeeps DEF StepOK, BackendStep
<1> QED
  BY <1>1, <1>2

LEMMA Invariance == Spec => [](LinkInv /\ BackendFacts!IndInv)
<1>1. LinkInv /\ BackendFacts!IndInv /\ [Next]_vars => (LinkInv /\ BackendFacts!IndInv)'
  BY NextOK DEF StepOK
<1> QED
  BY InitOK, <1>1, PTL DEF Spec

--------------------------------------------------------------------------------
(* The link is made of its parts *)

(* Whatever the host sends and whenever, the coroutines of the backend behave as           *)
(* RunnerBackend says: the bridge in front of it adds no behaviour.                        *)
THEOREM BackendInLink == Spec => Backend!Spec
<1>1. Init => Backend!Init
  BY DEF Init
<1>2. LinkInv /\ BackendFacts!IndInv /\ [Next]_vars => [Backend!Next]_(Backend!vars)
  BY NextOK DEF StepOK, BackendStep, backendVars, Backend!vars
<1> QED
  BY <1>1, <1>2, Invariance, PTL DEF Spec, Backend!Spec

(* The reader and the tasks behave as StdioBridge says, whatever the runners do.           *)
THEOREM BridgeInLink == Spec => Bridge!Spec
<1>1. Init => Bridge!Init
  BY DEF Init
<1>2. LinkInv /\ BackendFacts!IndInv /\ [Next]_vars => [Bridge!Next]_(Bridge!vars)
  BY NextOK DEF StepOK, BridgeStep, bridgeVars, Bridge!vars
<1> QED
  BY <1>1, <1>2, Invariance, PTL DEF Spec, Bridge!Spec

(* So what is proved of either part holds of the two together: a cancel that is answered   *)
(* has reached its run, the bridge's bookkeeping is exact, and no amount of runs in flight *)
(* keeps a cancel from being admitted.                                                     *)
THEOREM PartsKeepTheirPromises ==
  Spec => /\ []BackendFacts!AnsweredCancelReachedRun
          /\ []BridgeFacts!ReservationsMatch
          /\ []BridgeFacts!ManagementAdmitted
<1>1. BackendFacts!BackendAssumption
  BY LinkAssumption DEF LinkAssumption, BackendFacts!BackendAssumption
<1>2. BridgeFacts!WireAssumption
  BY LinkAssumption DEF LinkAssumption, BridgeFacts!WireAssumption
<1>3. BridgeFacts!BridgeAssumption
  BY LinkAssumption
     DEF LinkAssumption, BridgeFacts!BridgeAssumption, Bridge!Limits, BridgeFacts!Limits,
         Bridge!Valid, BridgeFacts!Valid, Bridge!Hellos, BridgeFacts!Hellos, Bridge!Current,
         BridgeFacts!Current, Bridge!Other, BridgeFacts!Other
<1>4. Backend!Spec => BackendFacts!Spec
  <2>1. [Backend!Next]_(Backend!vars) => [BackendFacts!Next]_(BackendFacts!vars)
    BY SameBackend DEF Backend!vars, BackendFacts!vars
  <2> QED
    BY <2>1, SameBackend, PTL DEF Backend!Spec, BackendFacts!Spec
<1>5. Bridge!Spec => BridgeFacts!Spec
  <2>1. [Bridge!Next]_(Bridge!vars) => [BridgeFacts!Next]_(BridgeFacts!vars)
    BY SameBridge DEF Bridge!vars, BridgeFacts!vars
  <2> QED
    BY <2>1, SameBridge, PTL DEF Bridge!Spec, BridgeFacts!Spec
<1> QED
  BY <1>1, <1>2, <1>3, <1>4, <1>5, BackendInLink, BridgeInLink,
     BackendFacts!CancelReachesItsRun, BridgeFacts!BookkeepingExact,
     BridgeFacts!ManagementNotStarved, PTL

--------------------------------------------------------------------------------
(* Correlation *)

LEMMA Counted ==
  ASSUME LinkInv, NEW c \in Calls
  PROVE  /\ Queued(c) # {} <=> c \in Sent
         /\ Answers(c) # {} <=> c \in Answered
         /\ Cardinality(Queued(c)) = IF c \in Sent THEN 1 ELSE 0
         /\ Cardinality(Answers(c)) = IF c \in Answered THEN 1 ELSE 0
<1>1. DOMAIN input = 1..Len(input) /\ DOMAIN output = 1..Len(output)
  BY DEF LinkInv, TypeInv
<1>2. /\ Queued(c) # {} <=> c \in Sent
      /\ Answers(c) # {} <=> c \in Answered
  BY <1>1 DEF Queued, Answers, Sent, Answered
<1>3. Cardinality({}) = 0 /\ \A i : Cardinality({i}) = 1
  BY FS_EmptySet, FS_Singleton
<1>4. Cardinality(Queued(c)) = IF c \in Sent THEN 1 ELSE 0
  <2>1. CASE c \in Sent
    <3>1. PICK i \in 1..Len(input) : input[i] = c
      BY <2>1 DEF Sent
    <3>2. Queued(c) = {i}
      BY <1>1, <3>1 DEF Queued, LinkInv, PlacesOK, InputOK
    <3> QED
      BY <1>3, <2>1, <3>2
  <2>2. CASE c \notin Sent
    BY <1>2, <1>3, <2>2
  <2> QED
    BY <2>1, <2>2
<1>5. Cardinality(Answers(c)) = IF c \in Answered THEN 1 ELSE 0
  <2>1. CASE c \in Answered
    <3>1. PICK i \in 1..Len(output) : output[i].of = c
      BY <2>1 DEF Answered
    <3>2. Answers(c) = {i}
      BY <1>1, <3>1 DEF Answers, LinkInv, PlacesOK, OutputOK
    <3> QED
      BY <1>3, <2>1, <3>2
  <2>2. CASE c \notin Answered
    BY <1>2, <1>3, <2>2
  <2> QED
    BY <2>1, <2>2
<1> QED
  BY <1>2, <1>4, <1>5

(* The table of requests, the queue, the tasks and the answers agree: a request is in one  *)
(* place at most, the host waits for it under its id wherever that is, and what the host   *)
(* waits for has not gone missing before the bridge cancels its tasks, unless its runner   *)
(* has raised an error that cannot be written.                                             *)
THEOREM RequestsCorrelated == Spec => []Correlated
<1>1. ASSUME LinkInv PROVE Correlated
  <2>1. Bridge!Live = Awaited
    BY <1>1 DEF LinkInv, PlacesOK
  <2> DEFINE places(c) == Cardinality(Queued(c)) + Cardinality(Answers(c))
                            + (IF c \in Awaited THEN 1 ELSE 0)
  <2>2. ASSUME NEW c \in Calls
        PROVE  /\ places(c) <= 1
               /\ places(c) = 1 => waiting[asked[c].id] = c
               /\ c \in Outstanding /\ places(c) = 0 =>
                    reader \in {"cancelling", "stopped"} \/ Unwritten(c)
    <3>1. /\ Cardinality(Queued(c)) = IF c \in Sent THEN 1 ELSE 0
          /\ Cardinality(Answers(c)) = IF c \in Answered THEN 1 ELSE 0
      BY <1>1, <2>2, Counted
    <3>2. /\ ~(c \in Sent /\ c \in Answered) /\ ~(c \in Sent /\ c \in Awaited)
          /\ ~(c \in Answered /\ c \in Awaited)
      BY <1>1 DEF LinkInv, PlacesOK
    <3>3. places(c) = IF c \in OnItsWay THEN 1 ELSE 0
      BY <3>1, <3>2 DEF OnItsWay
    <3> HIDE DEF places
    <3>4. c \in OnItsWay => waiting[asked[c].id] = c
      BY <1>1 DEF LinkInv, HostOK
    <3>5. c \in Outstanding => c \in OnItsWay \/ Lossy \/ Unwritten(c)
      <4>1. NoCall \notin Calls
        BY LinkAssumption DEF LinkAssumption
      <4> QED
        BY <1>1, <2>2, <4>1 DEF Outstanding, LinkInv, HostOK
    <3> QED
      BY <3>3, <3>4, <3>5 DEF Lossy
  <2> QED
    BY <2>1, <2>2 DEF Correlated
<1> QED
  BY <1>1, Invariance, PTL

--------------------------------------------------------------------------------
(* The reserve *)

\* The bridge's tasks are for what was asked.
TasksOK ==
  \A c \in Bridge!Live : task[c].id = asked[c].id /\ task[c].kind = BridgeKind(c)

\* The host keeps to the places reserved for management requests, from its hello on.
ReserveOK ==
  /\ ~negotiated => Outstanding = {}
  /\ IsFiniteSet(Management) /\ Cardinality(Management) <= limits.reserved

\* Only runs are refused by the bridge.
RefusedRun(answer) == answer.answer = "refused" => asked[answer.of].kind = "run"

RefusalsOK ==
  /\ \A i \in 1..Len(output) : RefusedRun(output[i])
  /\ \A c \in Calls : got[c] # NoAnswer => RefusedRun(got[c])

ReserveInv == TasksOK /\ ReserveOK /\ RefusalsOK

\* What is known of the bridge from its own theorems.
BridgeFactsHold ==
  /\ BridgeFacts!TypeOK /\ BridgeFacts!LimitsOK
  /\ BridgeFacts!ReservationsMatch /\ BridgeFacts!ManagementAdmitted

LEMMA BridgeKnown == Spec => []BridgeFactsHold
<1>1. BridgeFacts!WireAssumption
  BY LinkAssumption DEF LinkAssumption, BridgeFacts!WireAssumption
<1>2. BridgeFacts!BridgeAssumption
  BY LinkAssumption
     DEF LinkAssumption, BridgeFacts!BridgeAssumption, Bridge!Limits, BridgeFacts!Limits,
         Bridge!Valid, BridgeFacts!Valid, Bridge!Hellos, BridgeFacts!Hellos, Bridge!Current,
         BridgeFacts!Current, Bridge!Other, BridgeFacts!Other
<1>3. Bridge!Spec => BridgeFacts!Spec
  <2>1. [Bridge!Next]_(Bridge!vars) => [BridgeFacts!Next]_(BridgeFacts!vars)
    BY SameBridge DEF Bridge!vars, BridgeFacts!vars
  <2> QED
    BY <2>1, SameBridge, PTL DEF Bridge!Spec, BridgeFacts!Spec
<1> QED
  BY <1>1, <1>2, <1>3, BridgeInLink, BridgeFacts!Invariance, BridgeFacts!ManagementNotStarved,
     PTL DEF BridgeFactsHold, BridgeFacts!IndInv

LEMMA SameCounts ==
  ASSUME NEW S
  PROVE  /\ Bridge!Cardinality(S) = Cardinality(S)
         /\ BridgeFacts!Cardinality(S) = Cardinality(S)
BY Zenon DEF Cardinality, IsFiniteSet, Bridge!Cardinality, Bridge!IsFiniteSet,
             BridgeFacts!Cardinality, BridgeFacts!IsFiniteSet

\* A request in the pipe is no duplicate, and finds a place if it is not a run.
LEMMA QueuedAdmitted ==
  ASSUME LinkInv, ReserveInv, BridgeFactsHold, NEW c \in Sent
  PROVE  /\ ~Bridge!Duplicate(asked[c].id)
         /\ asked[c].kind # "run" => ~Bridge!Full(asked[c].id, "management")
<1>1. /\ c \in OnItsWay /\ c \in Calls /\ asked[c] \in Asks /\ asked[c].id \in RequestIds
      /\ waiting[asked[c].id] = c /\ c \notin Awaited
  BY OnItsWayAsked DEF OnItsWay, LinkInv, PlacesOK, HostOK
<1>2. BridgeFacts!Live = Bridge!Live /\ Bridge!Live = Awaited /\ Bridge!Live \subseteq OnItsWay
  BY DEF BridgeFacts!Live, Bridge!Live, BridgeFacts!Free, Bridge!Free, LinkInv, PlacesOK, OnItsWay
<1>3. ~Bridge!Duplicate(asked[c].id)
  <2>1. SUFFICES ASSUME asked[c].id \in activeIds PROVE FALSE
    BY DEF Bridge!Duplicate
  <2>2. PICK t \in Bridge!Live : task[t].id = asked[c].id
    BY <1>2, <2>1 DEF BridgeFactsHold, BridgeFacts!ReservationsMatch
  <2>3. waiting[asked[t].id] = t /\ asked[t].id = asked[c].id
    BY <1>2, <2>2 DEF ReserveInv, TasksOK, LinkInv, HostOK
  <2> QED
    BY <1>1, <1>2, <2>2, <2>3
<1>4. ASSUME asked[c].kind # "run" PROVE ~Bridge!Full(asked[c].id, "management")
  <2>1. c \in Management
    BY <1>1, <1>4 DEF Management, Outstanding, BridgeKind
  <2>2. BridgeFacts!LiveManagement \subseteq Management \ {c}
    <3>1. ASSUME NEW t \in BridgeFacts!LiveManagement PROVE t \in Management \ {c}
      <4>1. t \in Bridge!Live /\ task[t].kind = "management" /\ t # c /\ t \in OnItsWay
        BY <1>1, <1>2, <3>1 DEF BridgeFacts!LiveManagement
      <4>2. BridgeKind(t) = "management"
        BY <4>1 DEF ReserveInv, TasksOK
      <4>3. t \in Calls /\ asked[t].id \in RequestIds /\ waiting[asked[t].id] = t
        BY <4>1, OnItsWayAsked DEF LinkInv, HostOK
      <4> QED
        BY <4>1, <4>2, <4>3 DEF Management, Outstanding
    <3> QED
      BY <3>1
  <2>3. /\ IsFiniteSet(Management \ {c})
        /\ Cardinality(Management \ {c}) = Cardinality(Management) - 1
        /\ Cardinality(Management) \in Nat
    BY <2>1, FS_RemoveElement, FS_CardinalityType DEF ReserveInv, ReserveOK
  <2>4. /\ Cardinality(BridgeFacts!LiveManagement) <= Cardinality(Management) - 1
        /\ Cardinality(BridgeFacts!LiveManagement) \in Nat
    BY <2>2, <2>3, FS_Subset, FS_CardinalityType
  <2>5. Cardinality(Management) <= limits.reserved /\ limits.reserved \in Int
    BY DEF ReserveInv, ReserveOK, BridgeFactsHold, BridgeFacts!TypeOK, BridgeFacts!Limits
  <2>6. Cardinality(BridgeFacts!LiveManagement) < limits.reserved
    BY <2>3, <2>4, <2>5
  <2>7. BridgeFacts!Full(asked[c].id, "management") => BridgeFacts!Duplicate(asked[c].id)
    BY <1>1, <2>6, SameCounts DEF BridgeFactsHold, BridgeFacts!ManagementAdmitted
  <2> QED
    BY <1>3, <2>7, SameCounts
       DEF BridgeFacts!Full, Bridge!Full, BridgeFacts!Duplicate, Bridge!Duplicate
<1> QED
  BY <1>3, <1>4

\* What changes none of a part's variables keeps the part.
LEMMA ReserveKept ==
  ReserveInv => /\ UNCHANGED <<asked, task>> => TasksOK'
                /\ UNCHANGED <<asked, waiting, negotiated, limits>> => ReserveOK'
                /\ UNCHANGED <<asked, got, output>> => RefusalsOK'
<1>1. ASSUME UNCHANGED <<asked, task>>, TasksOK PROVE TasksOK'
  BY <1>1 DEF TasksOK, Bridge!Live, BridgeKind
<1>2. ASSUME UNCHANGED <<asked, waiting, negotiated, limits>>, ReserveOK PROVE ReserveOK'
  BY <1>2 DEF ReserveOK, Outstanding, Management, BridgeKind
<1>3. ASSUME UNCHANGED <<asked, got, output>>, RefusalsOK PROVE RefusalsOK'
  BY <1>3 DEF RefusalsOK, RefusedRun
<1> QED
  BY <1>1, <1>2, <1>3 DEF ReserveInv

\* One more answer in the pipe.
LEMMA RefusalsGrow ==
  ASSUME LinkInv, RefusalsOK, NEW c \in Calls, NEW a, UNCHANGED <<asked, got>>,
         output' = Append(output, AnswerTo(c, a)), a = "refused" => asked[c].kind = "run"
  PROVE  RefusalsOK'
<1>1. output \in Seq(AnswerRecords)
  BY DEF LinkInv, TypeInv
<1> DEFINE last == AnswerTo(c, a)
           n    == Len(output)
<1>2. last.answer = a /\ last.of = c
  BY DEF AnswerTo
<1> HIDE DEF last
<1>3. /\ n \in Nat /\ Len(output') = n + 1 /\ output'[n + 1] = last
      /\ \A i \in 1..n : output'[i] = output[i]
  BY <1>1 DEF last
<1>4. ASSUME NEW i \in 1..Len(output')
      PROVE  output'[i].answer = "refused" => asked[output'[i].of].kind = "run"
  <2>1. CASE i = n + 1
    BY <1>2, <1>3, <2>1
  <2>2. CASE i # n + 1
    BY <1>3, <2>2 DEF RefusalsOK, RefusedRun
  <2> QED
    BY <2>1, <2>2
<1> QED
  BY <1>4 DEF RefusalsOK, RefusedRun

LEMMA ConnectReserves ==
  ASSUME ReserveInv, BridgeFactsHold', NEW id \in RequestIds, NEW hello \in Offers,
         Connect(id, hello)
  PROVE  ReserveInv'
<1>1. /\ ~negotiated /\ UNCHANGED <<hostVars, input, output, task>>
      /\ UNCHANGED <<asked, waiting, got>>
  BY DEF Connect, Bridge!ReadInitialize, hostVars
<1>2. Outstanding = {} /\ Outstanding' = {}
  BY <1>1 DEF ReserveInv, ReserveOK, Outstanding
<1>3. Management' = {}
  BY <1>2 DEF Management
<1>4. limits'.reserved \in Nat
  BY DEF BridgeFactsHold, BridgeFacts!TypeOK, BridgeFacts!Limits, BridgeFacts!LimitsOK,
         BridgeFacts!Valid
<1>5. ReserveOK'
  BY <1>2, <1>3, <1>4, FS_EmptySet DEF ReserveOK
<1> QED
  BY <1>1, <1>5, ReserveKept DEF ReserveInv

LEMMA SendReserves ==
  ASSUME LinkInv, LinkInv', ReserveInv, BridgeFactsHold,
         NEW c \in Calls, NEW request \in Wanted[c], Send(c, request)
  PROVE  ReserveInv'
<1>1. /\ negotiated /\ asked[c] = NotAsked
      /\ request.kind = "run" \/ Cardinality(Management) < limits.reserved
      /\ asked' = [asked EXCEPT ![c] = [kind |-> request.kind, key |-> request.key,
                                        id |-> request.id, after |-> Outstanding]]
      /\ waiting[request.id] = NoCall
      /\ waiting' = [waiting EXCEPT ![request.id] = c]
      /\ UNCHANGED <<bridgeVars, output, got>>
  BY DEF Send
<1>2. /\ UNCHANGED <<task, negotiated, limits>>
      /\ asked'[c].kind = request.kind
      /\ \A d \in Calls : d # c => asked'[d] = asked[d]
      /\ request.id \in RequestIds
  <2>1. request.id \in RequestIds
    BY LinkAssumption DEF LinkAssumption, Requests
  <2> QED
    BY <1>1, <2>1 DEF LinkInv, TypeInv, bridgeVars
<1>3. c \notin OnItsWay /\ got[c] = NoAnswer /\ NoCall \notin Calls /\ OnItsWay \subseteq Calls
  BY <1>1, OnItsWayAsked DEF LinkInv, HostOK
<1>4. TasksOK'
  <2>1. \A d \in Bridge!Live : d # c /\ d \in Calls
    BY <1>3 DEF LinkInv, PlacesOK, OnItsWay
  <2> QED
    BY <1>2, <2>1 DEF ReserveInv, TasksOK, Bridge!Live, BridgeKind
<1>5. RefusalsOK'
  <2>1. \A i \in 1..Len(output) : output[i].of # c /\ output[i].of \in Calls
    BY <1>3 DEF OnItsWay, Answered
  <2>2. \A d \in Calls : got[d] # NoAnswer => d # c /\ got[d].of = d
    BY <1>3 DEF LinkInv, HostOK
  <2> QED
    BY <1>1, <1>2, <2>1, <2>2 DEF ReserveInv, RefusalsOK, RefusedRun
<1>6. ReserveOK'
  <2>1. Outstanding' = Outstanding \cup {c}
    <3>1. \A i \in RequestIds : waiting'[i] = IF i = request.id THEN c ELSE waiting[i]
      BY <1>1 DEF LinkInv, TypeInv
    <3> QED
      BY <1>1, <1>2, <1>3, <3>1 DEF Outstanding
  <2>2. c \notin Outstanding
    BY <1>1, <1>3 DEF Outstanding, LinkInv, HostOK
  <2>3. \A d \in Outstanding : BridgeKind(d)' = BridgeKind(d)
    BY <1>2, <2>2 DEF BridgeKind, Outstanding
  <2>4. Management' = IF request.kind = "run" THEN Management ELSE Management \cup {c}
    BY <1>2, <2>1, <2>2, <2>3 DEF Management, Outstanding, BridgeKind
  <2>5. c \notin Management /\ limits.reserved \in Int
    BY <2>2 DEF Management, BridgeFactsHold, BridgeFacts!TypeOK, BridgeFacts!Limits
  <2>6. CASE request.kind = "run"
    BY <1>1, <1>2, <2>4, <2>6 DEF ReserveInv, ReserveOK
  <2>7. CASE request.kind # "run"
    <3>1. /\ IsFiniteSet(Management) /\ Cardinality(Management) < limits.reserved
          /\ Cardinality(Management) \in Nat
      BY <1>1, <2>7, FS_CardinalityType DEF ReserveInv, ReserveOK
    <3>2. /\ IsFiniteSet(Management \cup {c})
          /\ Cardinality(Management \cup {c}) = Cardinality(Management) + 1
      BY <2>5, <3>1, FS_AddElement
    <3> QED
      BY <1>1, <1>2, <2>4, <2>5, <2>7, <3>1, <3>2 DEF ReserveOK
  <2> QED
    BY <2>6, <2>7
<1> QED
  BY <1>4, <1>5, <1>6 DEF ReserveInv

LEMMA ReceiveReserves ==
  ASSUME LinkInv, ReserveInv, BridgeFactsHold, Receive
  PROVE  ReserveInv'
<1> DEFINE answer == Head(output)
<1>1. /\ output # <<>> /\ output' = Tail(output)
      /\ got' = [d \in Calls |-> IF waiting[answer.id] = d THEN answer ELSE got[d]]
      /\ waiting' = [waiting EXCEPT ![answer.id] = NoCall]
      /\ UNCHANGED <<asked, task, negotiated, limits>>
  BY DEF Receive, bridgeVars
<1>2. /\ Len(output) > 0 /\ answer = output[1] /\ Len(output') = Len(output) - 1
      /\ Len(output) \in Nat /\ \A i \in 1..Len(output') : output'[i] = output[i + 1]
  <2>1. output \in Seq(AnswerRecords)
    BY DEF LinkInv, TypeInv
  <2> QED
    BY <1>1, <2>1
<1> HIDE DEF answer
<1>3. RefusalsOK'
  <2>1. RefusedRun(answer)
    BY <1>2 DEF ReserveInv, RefusalsOK
  <2>2. \A i \in 1..Len(output') : RefusedRun(output'[i])
    BY <1>2 DEF ReserveInv, RefusalsOK
  <2>3. \A d \in Calls : got'[d] = answer \/ got'[d] = got[d]
    BY <1>1
  <2>4. \A d \in Calls : got'[d] # NoAnswer => RefusedRun(got'[d])
    BY <2>1, <2>3 DEF ReserveInv, RefusalsOK
  <2> QED
    BY <1>1, <2>2, <2>4 DEF RefusalsOK, RefusedRun
<1>4. ReserveOK'
  <2>1. \A i \in RequestIds : waiting'[i] = NoCall \/ waiting'[i] = waiting[i]
    BY <1>1 DEF LinkInv, TypeInv
  <2>2. Outstanding' \subseteq Outstanding
    BY <2>1, LinkAssumption DEF Outstanding, LinkAssumption
  <2>3. Management' \subseteq Management
    BY <1>1, <2>2 DEF Management, BridgeKind
  <2>4. /\ IsFiniteSet(Management') /\ Cardinality(Management') <= Cardinality(Management)
        /\ Cardinality(Management') \in Nat /\ Cardinality(Management) \in Nat
    BY <2>3, FS_Subset, FS_CardinalityType DEF ReserveInv, ReserveOK
  <2>5. limits.reserved \in Int
    BY DEF BridgeFactsHold, BridgeFacts!TypeOK, BridgeFacts!Limits
  <2>6. ~negotiated' => Outstanding' = {}
    BY <1>1, <2>2 DEF ReserveInv, ReserveOK
  <2>7. Cardinality(Management') <= limits'.reserved
    BY <1>1, <2>4, <2>5 DEF ReserveInv, ReserveOK
  <2> QED
    BY <2>4, <2>6, <2>7 DEF ReserveOK
<1>5. TasksOK'
  BY <1>1, ReserveKept
<1> QED
  BY <1>3, <1>4, <1>5 DEF ReserveInv

LEMMA RefuseReserves ==
  ASSUME LinkInv, ReserveInv, BridgeFactsHold, NEW c \in Calls, Refuse(c)
  PROVE  ReserveInv'
<1>1. /\ c \in Sent /\ UNCHANGED <<asked, waiting, got, task, negotiated, limits>>
      /\ output' = Append(output, AnswerTo(c, "refused"))
      /\ Bridge!Refused(asked[c].id, BridgeKind(c))
  <2>1. c \in Sent
    BY SentShrinks DEF Refuse, ReadFrame, LinkInv, TypeInv, PlacesOK
  <2> QED
    BY <2>1 DEF Refuse, ReadFrame, hostVars, Bridge!Reject
<1>2. asked[c].kind = "run"
  BY <1>1, QueuedAdmitted DEF Bridge!Refused, BridgeKind
<1>3. RefusalsOK'
  BY <1>1, <1>2, RefusalsGrow DEF ReserveInv
<1> QED
  BY <1>1, <1>3, ReserveKept DEF ReserveInv

LEMMA TakeReserves ==
  ASSUME BackendFacts!IndInv, LinkInv, ReserveInv, NEW c \in Calls, Take(c)
  PROVE  ReserveInv'
<1>1. UNCHANGED <<asked, waiting, got>> /\ ReadFrame(c) /\ FirstStep(c)
  BY DEF Take, ReadFrame, hostVars
<1>2. c \in Sent /\ asked[c] \in Asks /\ asked[c] # NotAsked /\ c \notin Awaited
  <2>1. c \in Sent
    BY <1>1, SentShrinks DEF LinkInv, TypeInv, PlacesOK
  <2> QED
    BY <2>1, OnItsWayAsked DEF OnItsWay, LinkInv, PlacesOK
<1>3. CASE call'[c].stage = "answered"
  <2> DEFINE a == call'[c].answer
  <2>1. UNCHANGED <<task, negotiated, limits>> /\ output' = Append(output, AnswerTo(c, a))
    BY <1>3 DEF Take, bridgeVars
  <2>2. a # "refused"
    BY <1>1, <1>2, <1>3, FirstStepMoves DEF Backend!Answers, Backend!Refusals
  <2> HIDE DEF a
  <2>3. PICK b : b # "refused" /\ output' = Append(output, AnswerTo(c, b))
    BY <2>1, <2>2
  <2>4. RefusalsOK'
    BY <1>1, <2>3, RefusalsGrow DEF ReserveInv
  <2> QED
    BY <1>1, <2>1, <2>4, ReserveKept DEF ReserveInv
<1>4. CASE call'[c].stage # "answered"
  <2>1. Bridge!Accept(c, asked[c].id, BridgeKind(c)) /\ output' = output
    BY <1>4 DEF Take
  <2>2. /\ UNCHANGED <<negotiated, limits>>
        /\ task' = [task EXCEPT ![c] = [id |-> asked[c].id, kind |-> BridgeKind(c)]]
        /\ Bridge!Live' = Bridge!Live \cup {c}
    BY <1>2, <2>1, AcceptMoves DEF Bridge!Accept, LinkInv
  <2>3. /\ task'[c].id = asked[c].id /\ task'[c].kind = BridgeKind(c)
        /\ \A d \in Calls : d # c => task'[d] = task[d]
    BY <2>2 DEF LinkInv, TypeInv
  <2>4. \A d : BridgeKind(d)' = BridgeKind(d)
    BY <1>1 DEF BridgeKind
  <2>5. ASSUME NEW d \in Bridge!Live'
        PROVE  task'[d].id = asked'[d].id /\ task'[d].kind = BridgeKind(d)'
    <3>1. CASE d = c
      BY <1>1, <2>3, <2>4, <3>1
    <3>2. CASE d # c
      <4>1. d \in Bridge!Live /\ d \in Calls
        BY <2>2, <3>2 DEF Bridge!Live
      <4> QED
        BY <1>1, <2>3, <2>4, <3>2, <4>1 DEF ReserveInv, TasksOK
    <3> QED
      BY <3>1, <3>2
  <2>6. TasksOK'
    BY <2>5 DEF TasksOK
  <2> QED
    BY <1>1, <2>1, <2>2, <2>6, ReserveKept DEF ReserveInv
<1> QED
  BY <1>3, <1>4

LEMMA CallEndsReserves ==
  ASSUME LinkInv, ReserveInv, NEW c \in Calls, NEW answer \in Backend!Endings,
         CallEnds(c, answer)
  PROVE  ReserveInv'
<1>1. /\ Bridge!TaskEnds(c) /\ UNCHANGED <<asked, waiting, got, negotiated, limits>>
      /\ \/ \E reply \in Backend!Endings : output' = Append(output, AnswerTo(c, reply))
         \/ output' = output
  BY DEF CallEnds, Reply, Backend!Endings, hostVars, Bridge!TaskEnds
<1>2. ASSUME NEW reply \in Backend!Endings, output' = Append(output, AnswerTo(c, reply))
      PROVE  RefusalsOK'
  <2>1. reply # "refused"
    BY DEF Backend!Endings
  <2> QED
    BY <1>1, <1>2, <2>1, RefusalsGrow DEF ReserveInv
<1>3. RefusalsOK'
  BY <1>1, <1>2, ReserveKept DEF ReserveInv
<1>4. TasksOK'
  <2>1. Bridge!Live' = Bridge!Live \ {c} /\ task' = [task EXCEPT ![c] = Bridge!Free]
    BY <1>1, TaskEndsMoves DEF LinkInv, Bridge!TaskEnds, Bridge!Released
  <2>2. \A d \in Bridge!Live' : d \in Bridge!Live /\ task'[d] = task[d]
    BY <2>1 DEF Bridge!Live, LinkInv, TypeInv
  <2>3. \A d : BridgeKind(d)' = BridgeKind(d)
    BY <1>1 DEF BridgeKind
  <2> QED
    BY <1>1, <2>2, <2>3 DEF ReserveInv, TasksOK
<1> QED
  BY <1>1, <1>3, <1>4, ReserveKept DEF ReserveInv

LEMMA ReserveNext ==
  ASSUME LinkInv, LinkInv', BackendFacts!IndInv, ReserveInv, BridgeFactsHold, BridgeFactsHold',
         [Next]_vars
  PROVE  ReserveInv'
<1>1. CASE UNCHANGED <<task, negotiated, limits, asked, waiting, got, output>>
  BY <1>1, ReserveKept DEF ReserveInv
<1>2. CASE UNCHANGED vars
  BY <1>1, <1>2 DEF vars, bridgeVars, hostVars
<1>3. CASE \E r \in RunnerIds : Register(r)
  BY <1>1, <1>3 DEF Register, bridgeVars, hostVars
<1>4. CASE \E c \in Calls : RunnerHears(c)
  BY <1>1, <1>4 DEF RunnerHears, bridgeVars, hostVars
<1>5. CASE Close
  BY <1>1, <1>5 DEF Close, bridgeVars
<1>6. CASE Shutdown
  BY <1>1, <1>6 DEF Shutdown, hostVars, Bridge!EndOfInput, Bridge!ShutdownTimeout, Bridge!Stop
<1> QED
  BY <1>2, <1>3, <1>4, <1>5, <1>6, ConnectReserves, SendReserves, ReceiveReserves,
     RefuseReserves, TakeReserves, CallEndsReserves DEF Next

LEMMA ReserveInit == Init => ReserveInv
<1> SUFFICES ASSUME Init PROVE ReserveInv
  OBVIOUS
<1>1. /\ task = [c \in Calls |-> Bridge!Free] /\ limits = configured /\ configured \in LocalLimits
      /\ asked = [c \in Calls |-> NotAsked] /\ waiting = [id \in RequestIds |-> NoCall]
      /\ got = [c \in Calls |-> NoAnswer] /\ output = <<>>
  BY DEF Init, Bridge!Init
<1>2. TasksOK
  BY <1>1 DEF TasksOK, Bridge!Live
<1>3. RefusalsOK
  BY <1>1 DEF RefusalsOK
<1>4. Outstanding = {} /\ Management = {}
  BY <1>1, LinkAssumption DEF LinkAssumption, Outstanding, Management
<1>5. limits.reserved \in Nat
  BY <1>1, LinkAssumption DEF LinkAssumption, Bridge!Limits, Bridge!Valid
<1>6. ReserveOK
  BY <1>4, <1>5, FS_EmptySet DEF ReserveOK
<1> QED
  BY <1>2, <1>3, <1>6 DEF ReserveInv

(* The host's table of ids and its count of management requests are enough for every       *)
(* request it sends, with any number of calls and any limits: the bridge takes none for a  *)
(* duplicate, and however many runs hold places, it refuses no cancel and no dispose.      *)
THEOREM CancelsGetIn == Spec => []OnlyRunsRefused
<1>1. ReserveInv /\ LinkInv /\ LinkInv' /\ BackendFacts!IndInv /\ BridgeFactsHold
        /\ BridgeFactsHold' /\ [Next]_vars => ReserveInv'
  BY ReserveNext
<1>2. ASSUME LinkInv, ReserveInv, BridgeFactsHold PROVE OnlyRunsRefused
  <2>1. ASSUME NEW c \in Calls, Queued(c) # {}
        PROVE  /\ ~Bridge!Duplicate(asked[c].id)
               /\ asked[c].kind # "run" => ~Bridge!Full(asked[c].id, "management")
    BY <1>2, <2>1, Counted, QueuedAdmitted
  <2>2. \A c \in Calls : got[c] # NoAnswer /\ got[c].answer = "refused" => asked[c].kind = "run"
    BY <1>2 DEF ReserveInv, RefusalsOK, RefusedRun, LinkInv, HostOK
  <2> QED
    BY <2>1, <2>2 DEF OnlyRunsRefused
<1> QED
  BY <1>1, <1>2, ReserveInit, Invariance, BridgeKnown, PTL DEF Spec

--------------------------------------------------------------------------------
(* The link implements the ledger *)

StatusAsPlaced ==
  \A c \in Calls :
    Status(c) = IF asked[c] = NotAsked THEN "new"
                ELSE IF got[c] # NoAnswer THEN "answered"
                ELSE IF c \in OnItsWay THEN "open" ELSE "lost"

\* No answer is one for another request, and an open request is one on its way.
LEMMA StatusIs == LinkInv => StatusAsPlaced
<1> SUFFICES ASSUME LinkInv, NEW c \in Calls PROVE StatusAsPlaced!(c)
  BY DEF StatusAsPlaced
<1>1. got[c] # NoAnswer => got[c].of = c
  BY DEF LinkInv, HostOK
<1>2. Queued(c) # {} \/ Answers(c) # {} \/ c \in Awaited <=> c \in OnItsWay
  BY Counted DEF OnItsWay
<1> QED
  BY <1>1, <1>2 DEF Status

statuses == [c \in Calls |-> Status(c)]

\* A step in which the places of the requests, and what is asked and got, stay the same.
LEMMA StatusKept ==
  ASSUME StatusAsPlaced, StatusAsPlaced', OnItsWay' = OnItsWay, UNCHANGED <<asked, got>>
  PROVE  statuses' = statuses
<1>1. \A c \in Calls : Status(c)' = Status(c)
  BY DEF StatusAsPlaced
<1> QED
  BY <1>1 DEF statuses

\* A step in which the status of one request alone changes.
LEMMA StatusBecomes ==
  ASSUME NEW c \in Calls, NEW to, Status(c)' = to,
         \A d \in Calls : d # c => Status(d)' = Status(d)
  PROVE  statuses' = [statuses EXCEPT ![c] = to]
<1>1. \A d \in Calls : statuses'[d] = IF d = c THEN to ELSE statuses[d]
  BY DEF statuses
<1> QED
  BY <1>1 DEF statuses

\* A step of the link is a step of the ledger or none.
LEMMA LedgerStep ==
  ASSUME LinkInv, BackendFacts!IndInv, [Next]_vars
  PROVE  [Ledger!Next]_(Ledger!vars)
<1>1. StatusAsPlaced /\ StatusAsPlaced'
  <2>1. LinkInv' => StatusAsPlaced'
    BY StatusIs, PTL
  <2> QED
    BY <2>1, NextOK, StatusIs DEF StepOK
<1>2. ASSUME OnItsWay' = OnItsWay, UNCHANGED hostVars PROVE UNCHANGED Ledger!vars
  <2>1. statuses' = statuses
    BY <1>1, <1>2, StatusKept DEF hostVars
  <2> QED
    BY <1>2, <2>1 DEF Ledger!vars, statuses, hostVars
<1>3. CASE UNCHANGED vars
  <2>1. OnItsWay' = OnItsWay /\ UNCHANGED hostVars
    BY <1>3 DEF vars, backendVars, hostVars, OnItsWay, Sent, Answered, Awaited
  <2> QED
    BY <1>2, <2>1
<1>4. CASE \E r \in RunnerIds : Register(r)
  BY <1>2, <1>4, RegisterOK DEF Register
<1>5. CASE \E id \in RequestIds, hello \in Offers : Connect(id, hello)
  BY <1>2, <1>5, ConnectOK DEF Connect
<1>6. CASE Shutdown
  BY <1>2, <1>6, ShutdownOK DEF Shutdown
<1>7. ASSUME NEW c \in Calls, Refuse(c) \/ Take(c) \/ RunnerHears(c)
      PROVE  UNCHANGED Ledger!vars
  <2>1. OnItsWay' = OnItsWay
    BY <1>7, RefuseOK, TakeOK, HearsOK
  <2>2. UNCHANGED hostVars
    BY <1>7 DEF Refuse, Take, RunnerHears, ReadFrame
  <2> QED
    BY <1>2, <2>1, <2>2
<1>8. CASE Close
  <2>1. statuses' = statuses
    BY <1>1, <1>8, CloseOK, StatusKept DEF Close
  <2> QED
    BY <1>8, <2>1 DEF Close, Ledger!Next, Ledger!Close, statuses
<1>9. ASSUME NEW c \in Calls, NEW request \in Wanted[c], Send(c, request)
       PROVE  Ledger!Next
  <2>1. /\ OnItsWay' = OnItsWay \cup {c} /\ ~closed /\ asked[c] = NotAsked
        /\ asked'[c] # NotAsked /\ \A d \in Calls : d # c => asked'[d] = asked[d]
        /\ got' = got /\ closed' = closed
    BY <1>9, SendOK DEF Send
  <2>2. got[c] = NoAnswer
    BY <2>1 DEF LinkInv, HostOK
  <2>3. Status(c) = "new" /\ Status(c)' = "open"
    BY <1>1, <2>1, <2>2 DEF StatusAsPlaced
  <2>4. \A d \in Calls : d # c => Status(d)' = Status(d)
    BY <1>1, <2>1 DEF StatusAsPlaced
  <2>5. statuses' = [statuses EXCEPT ![c] = "open"] /\ statuses[c] = "new"
    BY <2>3, <2>4, StatusBecomes DEF statuses
  <2> QED
    BY <2>1, <2>5 DEF Ledger!Next, Ledger!Open, Ledger!Becomes, statuses
<1>10. ASSUME NEW c \in Calls, NEW answer \in Backend!Endings, CallEnds(c, answer)
       PROVE  [Ledger!Next]_(Ledger!vars)
  <2>1. UNCHANGED hostVars
    BY <1>10 DEF CallEnds
  <2>2. CASE OnItsWay' = OnItsWay
    BY <1>2, <2>1, <2>2
  <2>3. CASE c \in OnItsWay /\ OnItsWay' = OnItsWay \ {c} /\ (closed \/ c \in Unwritable)
    <3>1. asked[c] # NotAsked /\ got[c] = NoAnswer /\ asked' = asked /\ got' = got
      BY <2>1, <2>3 DEF LinkInv, HostOK, hostVars
    <3>2. Status(c) = "open" /\ Status(c)' = "lost"
      BY <1>1, <2>3, <3>1 DEF StatusAsPlaced
    <3>3. \A d \in Calls : d # c => Status(d)' = Status(d)
      BY <1>1, <2>3, <3>1 DEF StatusAsPlaced
    <3>4. statuses' = [statuses EXCEPT ![c] = "lost"] /\ statuses[c] = "open"
      BY <3>2, <3>3, StatusBecomes DEF statuses
    <3> QED
      BY <2>1, <2>3, <3>4 DEF Ledger!Next, Ledger!Lose, Ledger!Becomes, statuses, hostVars
  <2> QED
    BY <1>10, <2>2, <2>3, CallEndsOK
<1>11. CASE Receive
  <2>1. PICK c \in OnItsWay : /\ OnItsWay' = OnItsWay \ {c}
                              /\ got'[c] # NoAnswer
                              /\ \A d \in Calls : d # c => got'[d] = got[d]
    BY <1>11, ReceiveOK
  <2>2. c \in Calls /\ asked[c] # NotAsked /\ got[c] = NoAnswer
    BY OnItsWayAsked DEF LinkInv, HostOK
  <2>3. asked' = asked /\ closed' = closed
    BY <1>11 DEF Receive
  <2>4. Status(c) = "open" /\ Status(c)' = "answered"
    BY <1>1, <2>1, <2>2, <2>3 DEF StatusAsPlaced
  <2>5. \A d \in Calls : d # c => Status(d)' = Status(d)
    BY <1>1, <2>1, <2>3 DEF StatusAsPlaced
  <2>6. statuses' = [statuses EXCEPT ![c] = "answered"] /\ statuses[c] = "open"
    BY <2>2, <2>4, <2>5, StatusBecomes DEF statuses
  <2> QED
    BY <2>2, <2>3, <2>6 DEF Ledger!Next, Ledger!Answer, Ledger!Becomes, statuses
<1> QED
  BY <1>3, <1>4, <1>5, <1>6, <1>7, <1>8, <1>9, <1>10, <1>11 DEF Next

(* A host may rely on the ledger: each request is answered once and with its own answer,    *)
(* and is lost only after the host has closed the input, or when its runner ends with what  *)
(* no reply can hold.                                                                       *)
THEOREM KeepsTheLedger == Spec => ImplementsLedger
<1>1. Init => Ledger!Init
  <2> SUFFICES ASSUME Init PROVE Ledger!Init
    OBVIOUS
  <2>1. closed = FALSE /\ \A c \in Calls : asked[c] = NotAsked
    BY DEF Init
  <2> QED
    BY <2>1 DEF Ledger!Init, Status
<1>2. LinkInv /\ BackendFacts!IndInv /\ [Next]_vars => [Ledger!Next]_(Ledger!vars)
  BY LedgerStep
<1> QED
  BY <1>1, <1>2, Invariance, PTL DEF Spec, ImplementsLedger, Ledger!Spec
=================================================================================
