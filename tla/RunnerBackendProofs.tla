------------------------ MODULE RunnerBackendProofs ------------------------
(***************************************************************************)
(* Proofs about RunnerBackend, for any sets of runners, invocations and    *)
(* calls and any limits.  IndInv is preserved by every step; the safety    *)
(* properties of the module follow from it.                                *)
(***************************************************************************)
EXTENDS RunnerBackend, FiniteSetTheorems, TLAPS

(* The frame of a call not yet made is a frame. *)
LEMMA NewFrameType == NewFrame \in Frames
BY BackendAssumption DEF BackendAssumption, NewFrame, Frames, Stages, Answers

LEMMA InitIndInv == Init => IndInv
<1> SUFFICES ASSUME Init PROVE IndInv
  OBVIOUS
<1> USE DEF Init
<1>1. TypeOK
  <2>1. instance \in [RunnerIds -> 0..MaxInstances]
    BY BackendAssumption DEF BackendAssumption
  <2>2. call \in [Calls -> Frames]
    BY NewFrameType
  <2>3. QED
    BY <2>1, <2>2 DEF TypeOK
<1>2. FramesOK /\ CancelsOK
  BY DEF FramesOK, CancelsOK, NewFrame
<1>3. ActiveMarksLiveRuns
  BY DEF ActiveMarksLiveRuns, Running, NewFrame
<1>4. IsFiniteSet(cancelled) /\ Cardinality(cancelled) = 0
  BY FS_EmptySet
<1>5. PendingBounded
  BY <1>4, BackendAssumption DEF PendingBounded, BackendAssumption
<1>6. PendingIsLatched
  BY DEF PendingIsLatched, Latched, NewFrame
<1>7. QED
  BY <1>1, <1>2, <1>3, <1>4, <1>5, <1>6 DEF IndInv

(* The two equalities of sets in the invariant, element by element. *)
LEMMA Elementwise ==
  ASSUME IndInv
  PROVE  /\ \A x : x \in active <=> \E d \in Running : x = call[d].key
         /\ \A x : x \in cancelled <=> \E d \in Latched : x = call[d].key
BY DEF IndInv, ActiveMarksLiveRuns, PendingIsLatched

(* A second registration moves no bookkeeping. *)
LEMMA RegisterStep ==
  ASSUME IndInv, NEW r \in RunnerIds, Register(r)
  PROVE  IndInv'
<1> USE DEF IndInv, Register
<1>1. instance' \in [RunnerIds -> 0..MaxInstances] /\ KnownKeys \subseteq KnownKeys'
  BY BackendAssumption DEF TypeOK, KnownKeys, Keys
<1>2. TypeOK'
  BY <1>1 DEF TypeOK
<1>3. FramesOK'
  BY <1>1 DEF FramesOK
<1>4. CancelsOK' /\ ActiveMarksLiveRuns' /\ PendingBounded' /\ PendingIsLatched'
  BY DEF CancelsOK, ActiveMarksLiveRuns, Running, PendingBounded,
         PendingIsLatched, Latched
<1>5. QED
  BY <1>2, <1>3, <1>4

(* A call answered before it reaches a runner leaves everything in place. *)
LEMMA RefusedStep ==
  ASSUME IndInv, NEW c \in Calls, call[c].stage = "idle",
         NEW a \in Refusals, Answer(c, a),
         UNCHANGED <<instance, cancelled, active>>
  PROVE  IndInv'
<1> USE DEF IndInv, Answer
<1>1. /\ call' \in [Calls -> Frames]
      /\ \A d \in Calls : d # c => call'[d] = call[d]
      /\ call'[c] = [NewFrame EXCEPT !.stage = "answered", !.answer = a]
  BY NewFrameType DEF TypeOK, Frames, Stages, Answers
<1>2. TypeOK'
  BY <1>1 DEF TypeOK, KnownKeys
<1>3. FramesOK'
  BY <1>1 DEF FramesOK, NewFrame, KnownKeys
<1>4. CancelsOK'
  BY <1>1 DEF CancelsOK, NewFrame, TypeOK, Frames, Refusals
<1>5. Running' = Running /\ Latched' = Latched
  BY <1>1 DEF Running, Latched, FramesOK, NewFrame
<1>6. ActiveMarksLiveRuns'
  BY <1>1, <1>5 DEF ActiveMarksLiveRuns, Running
<1>7. PendingIsLatched'
  BY <1>1, <1>5 DEF PendingIsLatched, Latched, NewFrame
<1>8. PendingBounded'
  BY DEF PendingBounded
<1>9. QED
  BY <1>2, <1>3, <1>4, <1>6, <1>7, <1>8

(* A run that starts consumes the cancels latched for its invocation. *)
LEMMA RunStartStep ==
  ASSUME IndInv, NEW c \in Calls, NEW k \in Keys, NEW asked \in BOOLEAN,
         RunBatch(c, k, TRUE, asked), k \notin active, ~Unknown(k[1])
  PROVE  IndInv'
<1> DEFINE f == [NewFrame EXCEPT !.stage = "running", !.key = k,
                                 !.impl = instance[k[1]], !.asked = asked,
                                 !.told = asked \/ k \in cancelled]
<1>a. /\ \A x : x \in active <=> \E d \in Running : x = call[d].key
      /\ \A x : x \in cancelled <=> \E d \in Latched : x = call[d].key
  BY Elementwise
<1> USE DEF IndInv
<1>0. /\ call[c].stage = "idle"
      /\ cancelled' = cancelled \ {k}
      /\ active' = active \cup {k}
      /\ instance' = instance
      /\ call' = [d \in Calls |->
           IF d = c THEN f ELSE [call[d] EXCEPT !.latched = @ /\ call[d].key # k]]
  BY DEF RunBatch, PendingAfterClaim, Conflict
<1> HIDE DEF f
<1>1. k \in KnownKeys
  <2>1. k[1] \in RunnerIds
    BY DEF Keys
  <2>2. instance[k[1]] \in 0..MaxInstances
    BY <2>1 DEF TypeOK
  <2>3. QED
    BY <2>2, BackendAssumption DEF Unknown, KnownKeys, BackendAssumption
<1>2. /\ f \in Frames
      /\ f.stage = "running" /\ f.key = k /\ f.aimed = {} /\ ~f.latched
      /\ f.answer = "none"
  <2>1. instance[k[1]] \in 0..MaxInstances
    BY DEF TypeOK, Keys
  <2>2. QED
    BY <2>1, NewFrameType DEF f, NewFrame, Frames, Stages
<1>3. /\ call' \in [Calls -> Frames]
      /\ call'[c] = f
      /\ \A d \in Calls \ {c} :
           /\ call'[d].stage = call[d].stage
           /\ call'[d].key = call[d].key
           /\ call'[d].impl = call[d].impl
           /\ call'[d].heard = call[d].heard
           /\ call'[d].aimed = call[d].aimed
           /\ call'[d].answer = call[d].answer
           /\ call'[d].latched <=> (call[d].latched /\ call[d].key # k)
           /\ ~call[d].latched => call'[d] = call[d]
  <2>1. \A d \in Calls : call[d] \in Frames
    BY DEF TypeOK
  <2>2. QED
    BY <1>0, <1>2, <2>1 DEF Frames
<1>4. TypeOK'
  BY <1>0, <1>1, <1>3 DEF TypeOK, KnownKeys
<1>5. FramesOK'
  <2>1. KnownKeys' = KnownKeys
    BY <1>0 DEF KnownKeys
  <2> SUFFICES ASSUME NEW d \in Calls
               PROVE  FramesOK!(d)'
    BY DEF FramesOK
  <2>2. CASE d = c
    BY <1>1, <1>2, <1>3, <2>1, <2>2
  <2>3. CASE d # c
    BY <1>3, <2>1, <2>3 DEF FramesOK
  <2>4. QED
    BY <2>2, <2>3
<1>6. CancelsOK'
  <2> SUFFICES ASSUME NEW x \in Calls, NEW d \in call'[x].aimed
               PROVE  CancelsOK!(x)!(d)'
    BY DEF CancelsOK
  <2>1. x # c /\ d \in call[x].aimed /\ d \in Calls
    BY <1>2, <1>3 DEF TypeOK, Frames
  <2>2. d # c
    BY <1>0, <2>1 DEF CancelsOK
  <2>3. QED
    BY <1>3, <2>1, <2>2 DEF CancelsOK
<1>7. Running' = Running \cup {c}
  BY <1>2, <1>3 DEF Running
<1>8. ActiveMarksLiveRuns'
  <2>1. \A d \in Running : d # c /\ call'[d].key = call[d].key /\ call[d].key # k
    BY <1>0, <1>3 DEF ActiveMarksLiveRuns, Running
  <2>2. call'[c].key = k
    BY <1>2, <1>3
  <2>3. \A x : x \in active' <=> \E d \in Running' : x = call'[d].key
    <3>1. active' = active \cup {k}
      BY <1>0
    <3>2. QED
      BY <3>1, <1>7, <2>1, <2>2, <1>a
  <2>4. \A d, e \in Running' : call'[d].key = call'[e].key => d = e
    BY <1>7, <2>1, <2>2 DEF ActiveMarksLiveRuns
  <2>5. QED
    BY <2>3, <2>4 DEF ActiveMarksLiveRuns
<1>9. PendingIsLatched'
  <2>0. ~call[c].latched /\ ~call'[c].latched
    BY <1>0, <1>2, <1>3 DEF FramesOK, NewFrame
  <2>1. \A d : d \in Latched' <=> d \in Latched /\ call[d].key # k
    <3>1. \A d \in Calls \ {c} : d \in Latched' <=> d \in Latched /\ call[d].key # k
      BY <1>3 DEF Latched
    <3>2. c \notin Latched /\ c \notin Latched'
      BY <2>0 DEF Latched
    <3>3. Latched \subseteq Calls /\ Latched' \subseteq Calls
      BY DEF Latched
    <3>4. QED
      BY <3>1, <3>2, <3>3
  <2>2. \A d \in Latched : d # c /\ call'[d].key = call[d].key
    BY <1>0, <1>3 DEF Latched, FramesOK
  <2>3. \A x : x \in cancelled' <=> \E d \in Latched' : x = call'[d].key
    <3>1. cancelled' = cancelled \ {k}
      BY <1>0
    <3>2. QED
      BY <3>1, <2>1, <2>2, <1>a
  <2>4. QED
    BY <2>3 DEF PendingIsLatched
<1>10. IsFiniteSet(cancelled') /\ Cardinality(cancelled') <= Cardinality(cancelled)
  BY <1>0, FS_Subset, cancelled' \subseteq cancelled
<1>11. PendingBounded'
  <2>1. Cardinality(cancelled) \in Nat /\ Cardinality(cancelled') \in Nat
    BY <1>10, FS_CardinalityType
  <2>2. QED
    BY <1>0, <1>10, <2>1, BackendAssumption DEF PendingBounded, BackendAssumption
<1>12. QED
  BY <1>4, <1>5, <1>6, <1>8, <1>9, <1>10, <1>11

(* A run that ends takes its own mark away, and only that. *)
LEMMA RunEndsStep ==
  ASSUME IndInv, NEW c \in Calls, NEW a \in Endings, RunEnds(c, a)
  PROVE  IndInv'
<1>a. \A x : x \in active <=> \E d \in Running : x = call[d].key
  BY Elementwise
<1> USE DEF IndInv
<1>1. /\ call[c].stage = "running"
      /\ active' = active \ {call[c].key}
      /\ instance' = instance /\ cancelled' = cancelled
      /\ call' \in [Calls -> Frames]
      /\ \A d \in Calls : d # c => call'[d] = call[d]
      /\ call'[c] = [NewFrame EXCEPT !.stage = "answered", !.answer = a]
  BY NewFrameType DEF RunEnds, Answer, TypeOK, Frames, Stages, Answers, Endings
<1>2. TypeOK'
  BY <1>1 DEF TypeOK, KnownKeys
<1>3. FramesOK'
  <2>1. KnownKeys' = KnownKeys
    BY <1>1 DEF KnownKeys
  <2> SUFFICES ASSUME NEW d \in Calls
               PROVE  FramesOK!(d)'
    BY DEF FramesOK
  <2>2. CASE d = c
    BY <1>1, <2>2 DEF NewFrame
  <2>3. CASE d # c
    BY <1>1, <2>1, <2>3 DEF FramesOK
  <2>4. QED
    BY <2>2, <2>3
<1>4. CancelsOK'
  <2> SUFFICES ASSUME NEW x \in Calls, NEW d \in call'[x].aimed
               PROVE  CancelsOK!(x)!(d)'
    BY DEF CancelsOK
  <2>1. x # c /\ d \in call[x].aimed /\ d \in Calls
    BY <1>1 DEF TypeOK, Frames, NewFrame
  <2>2. CASE d = c
    BY <1>1, <2>2 DEF NewFrame
  <2>3. CASE d # c
    BY <1>1, <2>1, <2>3 DEF CancelsOK
  <2>4. QED
    BY <2>2, <2>3
<1>5. c \in Running /\ Running' = Running \ {c} /\ Latched' = Latched
  <2>1. call'[c].stage = "answered" /\ ~call'[c].latched /\ ~call[c].latched
    BY <1>1 DEF FramesOK, NewFrame
  <2>2. c \in Running /\ Running' = Running \ {c}
    BY <1>1, <2>1 DEF Running
  <2>3. Latched' = Latched
    BY <1>1, <2>1 DEF Latched
  <2>4. QED
    BY <2>2, <2>3
<1>6. ActiveMarksLiveRuns'
  <2>1. \A d \in Running' : call'[d].key = call[d].key
    BY <1>1, <1>5 DEF Running
  <2>2. \A d \in Running' : d # c /\ d \in Running /\ call[d].key # call[c].key
    BY <1>5 DEF ActiveMarksLiveRuns
  <2>3. \A x : x \in active' <=> \E d \in Running' : x = call'[d].key
    <3>1. active' = active \ {call[c].key}
      BY <1>1
    <3>2. QED
      BY <3>1, <1>5, <2>1, <2>2, <1>a
  <2>4. \A d, e \in Running' : call'[d].key = call'[e].key => d = e
    BY <2>1, <2>2 DEF ActiveMarksLiveRuns
  <2>5. QED
    BY <2>3, <2>4 DEF ActiveMarksLiveRuns
<1>7. PendingIsLatched'
  <2>1. \A d \in Latched : call'[d] = call[d]
    BY <1>1 DEF Latched, FramesOK
  <2>2. QED
    BY <1>1, <1>5, <2>1 DEF PendingIsLatched
<1>8. PendingBounded'
  BY <1>1 DEF PendingBounded
<1>9. QED
  BY <1>1, <1>2, <1>3, <1>4, <1>6, <1>7, <1>8

(* An accepted cancel is latched exactly when no run of it is live. *)
LEMMA CancelStartStep ==
  ASSUME IndInv, NEW c \in Calls, NEW k \in Keys, CancelRunner(c, k),
         ~Unknown(k[1]), ~CancelExhausted(k)
  PROVE  IndInv'
<1> DEFINE f == [NewFrame EXCEPT !.stage = "cancelling", !.key = k,
                                 !.impl = instance[k[1]],
                                 !.latched = RunsOf(k) = {}, !.aimed = RunsOf(k)]
<1>a. /\ \A x : x \in active <=> \E d \in Running : x = call[d].key
      /\ \A x : x \in cancelled <=> \E d \in Latched : x = call[d].key
  BY Elementwise
<1> USE DEF IndInv
<1>0. /\ call[c].stage = "idle"
      /\ cancelled' = Remembered(k)
      /\ active' = active /\ instance' = instance
      /\ call' = [call EXCEPT ![c] = f]
  BY DEF CancelRunner
<1>b. RunsOf(k) \subseteq Running /\ Running \subseteq Calls
  BY DEF RunsOf, Running
<1>c. RunsOf(k) = {} <=> k \notin active
  BY <1>a DEF RunsOf
<1> HIDE DEF f
<1>1. k \in KnownKeys
  <2>1. k[1] \in RunnerIds
    BY DEF Keys
  <2>2. instance[k[1]] \in 0..MaxInstances
    BY <2>1 DEF TypeOK
  <2>3. QED
    BY <2>2, BackendAssumption DEF Unknown, KnownKeys, BackendAssumption
<1>2. /\ f \in Frames
      /\ f.stage = "cancelling" /\ f.key = k /\ f.aimed = RunsOf(k)
      /\ f.latched <=> k \notin active
      /\ ~f.heard /\ f.answer = "none"
  <2>1. instance[k[1]] \in 0..MaxInstances
    BY DEF TypeOK, Keys
  <2>2. QED
    BY <2>1, <1>b, <1>c, NewFrameType DEF f, NewFrame, Frames, Stages
<1>3. /\ call' \in [Calls -> Frames]
      /\ call'[c] = f
      /\ \A d \in Calls \ {c} : call'[d] = call[d]
  BY <1>0, <1>2 DEF TypeOK
<1>4. cancelled' \subseteq cancelled \cup {k}
  BY <1>0 DEF Remembered
<1>5. TypeOK'
  BY <1>0, <1>1, <1>3, <1>4 DEF TypeOK, KnownKeys
<1>6. FramesOK'
  <2>1. KnownKeys' = KnownKeys
    BY <1>0 DEF KnownKeys
  <2>2. QED
    BY <1>1, <1>2, <1>3, <2>1 DEF FramesOK
<1>7. CancelsOK'
  <2> SUFFICES ASSUME NEW x \in Calls, NEW d \in call'[x].aimed
               PROVE  CancelsOK!(x)!(d)'
    BY DEF CancelsOK
  <2>1. CASE x = c
    <3>1. d \in Calls /\ call[d].stage = "running" /\ call[d].key = k /\ d # c
      BY <1>0, <1>2, <1>3, <2>1 DEF RunsOf, Running
    <3>2. QED
      BY <1>2, <1>3, <2>1, <3>1
  <2>2. CASE x # c
    <3>1. d \in Calls /\ d \in call[x].aimed
      BY <1>3, <2>2 DEF TypeOK, Frames
    <3>2. d # c
      BY <1>0, <3>1 DEF CancelsOK
    <3>3. QED
      BY <1>3, <2>2, <3>1, <3>2 DEF CancelsOK
  <2>3. QED
    BY <2>1, <2>2
<1>8. Running' = Running
  BY <1>0, <1>2, <1>3 DEF Running
<1>9. ActiveMarksLiveRuns'
  <2>1. \A d \in Running : call'[d] = call[d]
    BY <1>0, <1>3 DEF Running
  <2>2. QED
    BY <1>0, <1>8, <2>1 DEF ActiveMarksLiveRuns
<1>10. PendingIsLatched'
  <2>1. c \notin Latched
    BY <1>0 DEF Latched, FramesOK, NewFrame
  <2>2. Latched' = Latched \cup (IF k \in active THEN {} ELSE {c})
    BY <1>2, <1>3, <2>1 DEF Latched
  <2>3. \A d \in Latched : call'[d] = call[d]
    BY <1>3, <2>1 DEF Latched
  <2>4. \A x : x \in cancelled' <=> \E d \in Latched' : x = call'[d].key
    <3>1. cancelled' = cancelled \cup (IF k \in active THEN {} ELSE {k})
      BY <1>0 DEF Remembered
    <3>2. call'[c].key = k
      BY <1>2, <1>3
    <3>3. QED
      BY <3>1, <3>2, <2>2, <2>3, <1>a
  <2>5. QED
    BY <2>4 DEF PendingIsLatched
<1>11. IsFiniteSet(cancelled')
  <2>1. IsFiniteSet(cancelled \cup {k})
    BY FS_AddElement
  <2>2. QED
    BY <1>4, <2>1, FS_Subset
<1>12. PendingBounded'
  <2>1. cancelled' \cap active = {}
    BY <1>0 DEF Remembered, PendingBounded
  <2>2. Cardinality(cancelled') <= MaxPendingCancels
    <3>1. CASE k \in active \cup cancelled
      BY <1>0, <3>1 DEF Remembered, PendingBounded
    <3>2. CASE k \notin active \cup cancelled
      <4>1. Cardinality(cancelled) \in Nat
        BY FS_CardinalityType
      <4>2. Cardinality(cancelled \cup {k}) = Cardinality(cancelled) + 1
        BY <3>2, FS_AddElement
      <4>3. cancelled' = cancelled \cup {k}
        BY <1>0, <3>2 DEF Remembered
      <4>4. QED
        BY <3>2, <4>1, <4>2, <4>3, BackendAssumption
           DEF CancelExhausted, BackendAssumption
    <3>3. QED
      BY <3>1, <3>2
  <2>3. QED
    BY <1>0, <2>1, <2>2 DEF PendingBounded
<1>13. QED
  BY <1>5, <1>6, <1>7, <1>9, <1>10, <1>11, <1>12

(* runner.cancel reaches the live run its cancel is aimed at, if the same  *)
(* runner object executes it.                                              *)
LEMMA RunnerHearsStep ==
  ASSUME IndInv, NEW c \in Calls, RunnerHears(c)
  PROVE  IndInv'
<1> DEFINE H(d) == \/ call[d].heard
                   \/ d = c
                   \/ d \in RunsOf(call[c].key) /\ call[d].impl = call[c].impl
<1>a. /\ \A x : x \in active <=> \E d \in Running : x = call[d].key
      /\ \A x : x \in cancelled <=> \E d \in Latched : x = call[d].key
  BY Elementwise
<1> USE DEF IndInv
<1>0. /\ call[c].stage = "cancelling"
      /\ instance' = instance /\ cancelled' = cancelled /\ active' = active
      /\ call' = [d \in Calls |-> [call[d] EXCEPT !.heard = H(d)]]
  BY DEF RunnerHears
<1>1. \A d \in Calls : /\ call'[d] \in Frames
                       /\ call'[d].stage = call[d].stage
                       /\ call'[d].key = call[d].key
                       /\ call'[d].impl = call[d].impl
                       /\ call'[d].aimed = call[d].aimed
                       /\ call'[d].answer = call[d].answer
                       /\ call'[d].latched <=> call[d].latched
                       /\ call'[d].heard <=> H(d)
  <2>1. \A d \in Calls : call[d] \in Frames /\ H(d) \in BOOLEAN
    BY DEF TypeOK
  <2> HIDE DEF H
  <2>2. QED
    BY <1>0, <2>1 DEF Frames
<1>2. TypeOK'
  BY <1>0, <1>1 DEF TypeOK, KnownKeys
<1>3. Running' = Running /\ Latched' = Latched
  BY <1>1 DEF Running, Latched
<1>4. FramesOK'
  <2>1. \A d \in Calls : call[d].stage = "idle" => call'[d] = call[d]
    <3> SUFFICES ASSUME NEW d \in Calls, call[d].stage = "idle"
                 PROVE  call'[d] = call[d]
      OBVIOUS
    <3>1. ~H(d)
      BY <1>0 DEF FramesOK, NewFrame, RunsOf, Running
    <3>2. call[d] = NewFrame /\ call'[d] = [NewFrame EXCEPT !.heard = FALSE]
      BY <1>0, <3>1 DEF FramesOK
    <3>3. QED
      BY <3>2 DEF NewFrame
  <2>2. KnownKeys' = KnownKeys
    BY <1>0 DEF KnownKeys
  <2>3. QED
    BY <1>1, <2>1, <2>2 DEF FramesOK
<1>5. CancelsOK'
  <2> SUFFICES ASSUME NEW x \in Calls, NEW d \in call'[x].aimed
               PROVE  CancelsOK!(x)!(d)'
    BY DEF CancelsOK
  <2>1. d \in call[x].aimed /\ d \in Calls
    BY <1>1 DEF TypeOK, Frames
  <2>2. \/ call[d].stage = "answered"
        \/ call[d].stage = "running" /\ call[d].key = call[x].key
    BY <2>1 DEF CancelsOK
  <2>3. CASE x = c
    <3>1. call[d].stage = "running" /\ call[d].impl = call[c].impl => H(d)
      BY <2>1, <2>2, <2>3 DEF RunsOf, Running
    <3>2. QED
      BY <1>1, <2>1, <2>2, <2>3, <3>1
  <2>4. CASE x # c
    <3>1. call[x].stage # "running"
      BY <2>1 DEF FramesOK
    <3>2. call'[x].heard <=> call[x].heard
      BY <1>1, <2>4, <3>1 DEF RunsOf, Running
    <3>3. call[d].heard => call'[d].heard
      BY <1>1, <2>1
    <3>4. QED
      BY <1>1, <2>1, <3>2, <3>3 DEF CancelsOK
  <2>5. QED
    BY <2>3, <2>4
<1>6. ActiveMarksLiveRuns'
  <2>1. \A d \in Running : call'[d].key = call[d].key
    BY <1>1 DEF Running
  <2>2. \A x : x \in active' <=> \E d \in Running' : x = call'[d].key
    <3>1. active' = active
      BY <1>0
    <3>2. QED
      BY <3>1, <1>3, <2>1, <1>a
  <2>3. QED
    BY <1>3, <2>1, <2>2 DEF ActiveMarksLiveRuns
<1>7. PendingIsLatched'
  <2>1. \A d \in Latched : call'[d].key = call[d].key
    BY <1>1 DEF Latched
  <2>2. QED
    BY <1>0, <1>3, <2>1 DEF PendingIsLatched
<1>8. PendingBounded'
  BY <1>0 DEF PendingBounded
<1>9. QED
  BY <1>0, <1>2, <1>4, <1>5, <1>6, <1>7, <1>8

(* A cancel that ends stays latched; answered with success it was heard. *)
LEMMA CancelEndsStep ==
  ASSUME IndInv, NEW c \in Calls, NEW a \in Endings, CancelEnds(c, a)
  PROVE  IndInv'
<1>a. /\ \A x : x \in active <=> \E d \in Running : x = call[d].key
      /\ \A x : x \in cancelled <=> \E d \in Latched : x = call[d].key
  BY Elementwise
<1> USE DEF IndInv
<1>1. /\ call[c].stage = "cancelling"
      /\ a = "ok" => call[c].heard
      /\ instance' = instance /\ cancelled' = cancelled /\ active' = active
      /\ call' \in [Calls -> Frames]
      /\ \A d \in Calls : d # c => call'[d] = call[d]
      /\ call'[c] = [call[c] EXCEPT !.stage = "answered", !.answer = a]
  <2>1. /\ call[c].stage = "cancelling"
        /\ a = "ok" => call[c].heard
        /\ instance' = instance /\ cancelled' = cancelled /\ active' = active
        /\ call' = [call EXCEPT ![c] = [call[c] EXCEPT !.stage = "answered", !.answer = a]]
    BY DEF CancelEnds
  <2>2. call[c] \in Frames /\ call \in [Calls -> Frames]
    BY DEF TypeOK
  <2>3. [call[c] EXCEPT !.stage = "answered", !.answer = a] \in Frames
    BY <2>2 DEF Frames, Stages, Answers, Endings
  <2>4. QED
    BY <2>1, <2>2, <2>3
<1>2. /\ call'[c].stage = "answered" /\ call'[c].answer = a
      /\ call'[c].key = call[c].key /\ call'[c].impl = call[c].impl
      /\ call'[c].aimed = call[c].aimed
      /\ call'[c].latched <=> call[c].latched
      /\ call'[c].heard <=> call[c].heard
  BY <1>1 DEF TypeOK, Frames
<1>3. TypeOK'
  BY <1>1 DEF TypeOK, KnownKeys
<1>4. FramesOK'
  BY <1>1, <1>2 DEF FramesOK, KnownKeys
<1>5. CancelsOK'
  <2> SUFFICES ASSUME NEW x \in Calls, NEW d \in call'[x].aimed
               PROVE  CancelsOK!(x)!(d)'
    BY DEF CancelsOK
  <2>1. d \in call[x].aimed /\ d \in Calls
    BY <1>1, <1>2 DEF TypeOK, Frames
  <2>2. d # c
    BY <1>1, <2>1 DEF CancelsOK
  <2>3. call'[d] = call[d]
    BY <1>1, <2>1, <2>2
  <2>4. CancelsOK!(x)!(d)
    BY <2>1 DEF CancelsOK
  <2>5. CASE x = c
    BY <1>1, <1>2, <2>3, <2>4, <2>5
  <2>6. CASE x # c
    BY <1>1, <2>3, <2>4, <2>6
  <2>7. QED
    BY <2>5, <2>6
<1>6. Running' = Running /\ Latched' = Latched
  BY <1>1, <1>2 DEF Running, Latched
<1>7. ActiveMarksLiveRuns'
  <2>1. \A d \in Running : call'[d].key = call[d].key
    BY <1>1 DEF Running
  <2>2. \A x : x \in active' <=> \E d \in Running' : x = call'[d].key
    BY <1>1, <1>6, <2>1, <1>a
  <2>3. QED
    BY <1>6, <2>1, <2>2 DEF ActiveMarksLiveRuns
<1>8. PendingIsLatched'
  <2>1. \A d \in Latched : call'[d].key = call[d].key
    BY <1>1, <1>2 DEF Latched
  <2>2. QED
    BY <1>1, <1>6, <2>1 DEF PendingIsLatched
<1>9. PendingBounded'
  BY <1>1 DEF PendingBounded
<1>10. QED
  BY <1>1, <1>3, <1>4, <1>5, <1>7, <1>8, <1>9

(* A dispose drops the remembered cancels of its runner and no others. *)
LEMMA DisposeStartStep ==
  ASSUME IndInv, NEW c \in Calls, NEW k \in Keys, DisposeRunner(c, k),
         ~Unknown(k[1])
  PROVE  IndInv'
<1> DEFINE f == [NewFrame EXCEPT !.stage = "disposing", !.key = k,
                                 !.impl = instance[k[1]]]
<1>a. /\ \A x : x \in active <=> \E d \in Running : x = call[d].key
      /\ \A x : x \in cancelled <=> \E d \in Latched : x = call[d].key
  BY Elementwise
<1> USE DEF IndInv
<1>0. /\ call[c].stage = "idle"
      /\ cancelled' = {i \in cancelled : i[1] # k[1]}
      /\ active' = active /\ instance' = instance
      /\ call' = [d \in Calls |->
           IF d = c THEN f
           ELSE [call[d] EXCEPT !.latched = @ /\ call[d].key[1] # k[1]]]
  BY DEF DisposeRunner, PendingAfterDispose
<1> HIDE DEF f
<1>1. k \in KnownKeys
  <2>1. k[1] \in RunnerIds
    BY DEF Keys
  <2>2. instance[k[1]] \in 0..MaxInstances
    BY <2>1 DEF TypeOK
  <2>3. QED
    BY <2>2, BackendAssumption DEF Unknown, KnownKeys, BackendAssumption
<1>2. /\ f \in Frames
      /\ f.stage = "disposing" /\ f.key = k /\ f.aimed = {} /\ ~f.latched
      /\ f.answer = "none"
  <2>1. instance[k[1]] \in 0..MaxInstances
    BY DEF TypeOK, Keys
  <2>2. QED
    BY <2>1, NewFrameType DEF f, NewFrame, Frames, Stages
<1>3. /\ call' \in [Calls -> Frames]
      /\ call'[c] = f
      /\ \A d \in Calls \ {c} :
           /\ call'[d].stage = call[d].stage
           /\ call'[d].key = call[d].key
           /\ call'[d].impl = call[d].impl
           /\ call'[d].heard = call[d].heard
           /\ call'[d].aimed = call[d].aimed
           /\ call'[d].answer = call[d].answer
           /\ call'[d].latched <=> (call[d].latched /\ call[d].key[1] # k[1])
           /\ ~call[d].latched => call'[d] = call[d]
  <2>1. \A d \in Calls : call[d] \in Frames
    BY DEF TypeOK
  <2>2. QED
    BY <1>0, <1>2, <2>1 DEF Frames
<1>4. TypeOK'
  BY <1>0, <1>3 DEF TypeOK, KnownKeys
<1>5. FramesOK'
  <2>1. KnownKeys' = KnownKeys
    BY <1>0 DEF KnownKeys
  <2> SUFFICES ASSUME NEW d \in Calls
               PROVE  FramesOK!(d)'
    BY DEF FramesOK
  <2>2. CASE d = c
    BY <1>1, <1>2, <1>3, <2>1, <2>2
  <2>3. CASE d # c
    BY <1>3, <2>1, <2>3 DEF FramesOK
  <2>4. QED
    BY <2>2, <2>3
<1>6. CancelsOK'
  <2> SUFFICES ASSUME NEW x \in Calls, NEW d \in call'[x].aimed
               PROVE  CancelsOK!(x)!(d)'
    BY DEF CancelsOK
  <2>1. x # c /\ d \in call[x].aimed /\ d \in Calls
    BY <1>2, <1>3 DEF TypeOK, Frames
  <2>2. d # c
    BY <1>0, <2>1 DEF CancelsOK
  <2>3. QED
    BY <1>3, <2>1, <2>2 DEF CancelsOK
<1>7. ActiveMarksLiveRuns'
  <2>1. Running' = Running
    BY <1>0, <1>2, <1>3 DEF Running
  <2>2. \A d \in Running : call'[d].key = call[d].key
    BY <1>0, <1>3 DEF Running
  <2>3. \A x : x \in active' <=> \E d \in Running' : x = call'[d].key
    <3>1. active' = active
      BY <1>0
    <3>2. QED
      BY <3>1, <2>1, <2>2, <1>a
  <2>4. QED
    BY <2>1, <2>2, <2>3 DEF ActiveMarksLiveRuns
<1>8. PendingIsLatched'
  <2>0. ~call[c].latched /\ ~call'[c].latched
    BY <1>0, <1>2, <1>3 DEF FramesOK, NewFrame
  <2>1. \A d : d \in Latched' <=> d \in Latched /\ call[d].key[1] # k[1]
    <3>1. \A d \in Calls \ {c} :
            d \in Latched' <=> d \in Latched /\ call[d].key[1] # k[1]
      BY <1>3 DEF Latched
    <3>2. c \notin Latched /\ c \notin Latched'
      BY <2>0 DEF Latched
    <3>3. Latched \subseteq Calls /\ Latched' \subseteq Calls
      BY DEF Latched
    <3>4. QED
      BY <3>1, <3>2, <3>3
  <2>2. \A d \in Latched : call'[d].key = call[d].key
    BY <1>3, <2>0 DEF Latched
  <2>3. \A x : x \in cancelled' <=> \E d \in Latched' : x = call'[d].key
    <3>1. cancelled' = {i \in cancelled : i[1] # k[1]}
      BY <1>0
    <3>2. QED
      BY <3>1, <2>1, <2>2, <1>a
  <2>4. QED
    BY <2>3 DEF PendingIsLatched
<1>9. cancelled' \subseteq cancelled
  BY <1>0
<1>10. IsFiniteSet(cancelled') /\ Cardinality(cancelled') <= Cardinality(cancelled)
  BY <1>9, FS_Subset
<1>11. PendingBounded'
  <2>1. Cardinality(cancelled) \in Nat /\ Cardinality(cancelled') \in Nat
    BY <1>10, FS_CardinalityType
  <2>2. QED
    BY <1>0, <1>9, <1>10, <2>1, BackendAssumption
       DEF PendingBounded, BackendAssumption
<1>12. QED
  BY <1>4, <1>5, <1>6, <1>7, <1>8, <1>10, <1>11

(* A call of any of the three methods, refused or accepted. *)
LEMMA RunBatchStep ==
  ASSUME IndInv, NEW c \in Calls, NEW k \in Keys, NEW m \in BOOLEAN,
         NEW asked \in BOOLEAN, RunBatch(c, k, m, asked)
  PROVE  IndInv'
<1>1. CASE Conflict(k, m)
  <2>1. /\ call[c].stage = "idle" /\ Answer(c, "claim_conflict")
        /\ UNCHANGED <<instance, cancelled, active>>
    BY <1>1 DEF RunBatch, PendingAfterClaim
  <2>2. QED
    BY <2>1, RefusedStep DEF Refusals
<1>2. CASE ~Conflict(k, m) /\ Unknown(k[1])
  <2>1. k \notin cancelled
    BY <1>2 DEF Unknown, IndInv, TypeOK, KnownKeys
  <2>2. /\ call[c].stage = "idle" /\ Answer(c, "not_found")
        /\ UNCHANGED <<instance, cancelled, active>>
    BY <1>2, <2>1 DEF RunBatch, PendingAfterClaim
  <2>3. QED
    BY <2>2, RefusedStep DEF Refusals
<1>3. CASE ~Conflict(k, m) /\ ~Unknown(k[1])
  <2>1. m = TRUE /\ k \notin active
    BY <1>3 DEF Conflict
  <2>2. QED
    BY <1>3, <2>1, RunStartStep
<1>4. QED
  BY <1>1, <1>2, <1>3

LEMMA CancelRunnerStep ==
  ASSUME IndInv, NEW c \in Calls, NEW k \in Keys, CancelRunner(c, k)
  PROVE  IndInv'
<1>1. CASE ~Unknown(k[1]) /\ ~CancelExhausted(k)
  BY <1>1, CancelStartStep
<1>2. CASE Unknown(k[1]) \/ CancelExhausted(k)
  <2>1. \E a \in Refusals : Answer(c, a)
    BY <1>2 DEF CancelRunner, Refusals
  <2>2. call[c].stage = "idle" /\ UNCHANGED <<instance, cancelled, active>>
    BY <1>2 DEF CancelRunner
  <2>3. QED
    BY <2>1, <2>2, RefusedStep
<1>3. QED
  BY <1>1, <1>2

LEMMA DisposeRunnerStep ==
  ASSUME IndInv, NEW c \in Calls, NEW k \in Keys, DisposeRunner(c, k)
  PROVE  IndInv'
<1>1. CASE ~Unknown(k[1])
  BY <1>1, DisposeStartStep
<1>2. CASE Unknown(k[1])
  <2>1. /\ call[c].stage = "idle" /\ Answer(c, "not_found")
        /\ UNCHANGED <<instance, cancelled, active>>
    BY <1>2 DEF DisposeRunner
  <2>2. QED
    BY <2>1, RefusedStep DEF Refusals
<1>3. QED
  BY <1>1, <1>2

(* The end of a dispose moves no bookkeeping, like a refusal. *)
LEMMA DisposeEndsStep ==
  ASSUME IndInv, NEW c \in Calls, NEW a \in Endings, DisposeEnds(c, a)
  PROVE  IndInv'
<1>a. /\ \A x : x \in active <=> \E d \in Running : x = call[d].key
      /\ \A x : x \in cancelled <=> \E d \in Latched : x = call[d].key
  BY Elementwise
<1> USE DEF IndInv
<1>1. /\ call[c].stage = "disposing"
      /\ instance' = instance /\ cancelled' = cancelled /\ active' = active
      /\ call' \in [Calls -> Frames]
      /\ \A d \in Calls : d # c => call'[d] = call[d]
      /\ call'[c] = [NewFrame EXCEPT !.stage = "answered", !.answer = a]
  BY NewFrameType DEF DisposeEnds, Answer, TypeOK, Frames, Stages, Answers, Endings
<1>2. call'[c].stage = "answered" /\ call'[c].aimed = {} /\ ~call'[c].latched
  BY <1>1 DEF NewFrame
<1>3. call[c].aimed = {} /\ ~call[c].latched
  BY <1>1 DEF FramesOK
<1>4. TypeOK'
  BY <1>1 DEF TypeOK, KnownKeys
<1>5. FramesOK'
  <2>1. KnownKeys' = KnownKeys
    BY <1>1 DEF KnownKeys
  <2> SUFFICES ASSUME NEW d \in Calls
               PROVE  FramesOK!(d)'
    BY DEF FramesOK
  <2>2. CASE d = c
    BY <1>2, <2>2
  <2>3. CASE d # c
    BY <1>1, <2>1, <2>3 DEF FramesOK
  <2>4. QED
    BY <2>2, <2>3
<1>6. CancelsOK'
  <2> SUFFICES ASSUME NEW x \in Calls, NEW d \in call'[x].aimed
               PROVE  CancelsOK!(x)!(d)'
    BY DEF CancelsOK
  <2>1. x # c /\ d \in call[x].aimed /\ d \in Calls
    BY <1>1, <1>2 DEF TypeOK, Frames
  <2>2. CASE d = c
    BY <1>2, <2>2
  <2>3. CASE d # c
    BY <1>1, <2>1, <2>3 DEF CancelsOK
  <2>4. QED
    BY <2>2, <2>3
<1>7. Running' = Running /\ Latched' = Latched
  BY <1>1, <1>2, <1>3 DEF Running, Latched
<1>8. ActiveMarksLiveRuns'
  <2>1. \A d \in Running : call'[d] = call[d]
    BY <1>1 DEF Running
  <2>2. QED
    BY <1>1, <1>7, <2>1 DEF ActiveMarksLiveRuns
<1>9. PendingIsLatched'
  <2>1. \A d \in Latched : call'[d] = call[d]
    BY <1>1, <1>3 DEF Latched
  <2>2. QED
    BY <1>1, <1>7, <2>1 DEF PendingIsLatched
<1>10. PendingBounded'
  BY <1>1 DEF PendingBounded
<1>11. QED
  BY <1>1, <1>4, <1>5, <1>6, <1>8, <1>9, <1>10

(* Every step of the backend preserves the invariant. *)
LEMMA NextIndInv == IndInv /\ [Next]_vars => IndInv'
<1> SUFFICES ASSUME IndInv, [Next]_vars PROVE IndInv'
  OBVIOUS
<1>1. ASSUME NEW r \in RunnerIds, Register(r) PROVE IndInv'
  BY <1>1, RegisterStep
<1>2. ASSUME NEW c \in Calls, NEW k \in Keys, NEW m \in BOOLEAN,
             NEW asked \in BOOLEAN, RunBatch(c, k, m, asked)
      PROVE  IndInv'
  BY <1>2, RunBatchStep
<1>3. ASSUME NEW c \in Calls, NEW k \in Keys,
             CancelRunner(c, k) \/ DisposeRunner(c, k)
      PROVE  IndInv'
  BY <1>3, CancelRunnerStep, DisposeRunnerStep
<1>4. ASSUME NEW c \in Calls, RunnerHears(c) PROVE IndInv'
  BY <1>4, RunnerHearsStep
<1>5. ASSUME NEW c \in Calls, NEW a \in Endings,
             RunEnds(c, a) \/ CancelEnds(c, a) \/ DisposeEnds(c, a)
      PROVE  IndInv'
  BY <1>5, RunEndsStep, CancelEndsStep, DisposeEndsStep
<1>6. CASE UNCHANGED vars
  BY <1>6 DEF vars, IndInv, TypeOK, FramesOK, CancelsOK, ActiveMarksLiveRuns,
              PendingBounded, PendingIsLatched, KnownKeys, Running, Latched
<1>7. QED
  BY <1>1, <1>2, <1>3, <1>4, <1>5, <1>6 DEF Next

LEMMA Invariance == Spec => []IndInv
<1>1. QED
  BY InitIndInv, NextIndInv, PTL DEF Spec

-----------------------------------------------------------------------------
(* The state is well typed, and only runners the registry knows have       *)
(* remembered cancels or live runs.                                        *)
THEOREM TypeCorrect == Spec => []TypeOK
<1>1. IndInv => TypeOK
  BY DEF IndInv
<1>2. QED
  BY <1>1, Invariance, PTL

(* run_batch_runner never has two live runs of one invocation, and the     *)
(* active marks are those of the live runs.                                *)
THEOREM OneRunPerInvocation == Spec => []ActiveMarksLiveRuns
<1>1. IndInv => ActiveMarksLiveRuns
  BY DEF IndInv
<1>2. QED
  BY <1>1, Invariance, PTL

(* cancel_runner never remembers more than max_pending_cancels cancels nor *)
(* one of a running invocation, whatever the traffic.                      *)
THEOREM PendingStaysBounded == Spec => []PendingBounded
<1>1. IndInv => PendingBounded
  BY DEF IndInv
<1>2. QED
  BY <1>1, Invariance, PTL

(* No accepted cancel is forgotten before a run or a dispose consumes it.  *)
THEOREM NoCancelForgotten == Spec => []PendingIsLatched
<1>1. IndInv => PendingIsLatched
  BY DEF IndInv
<1>2. QED
  BY <1>1, Invariance, PTL

(* A cancel answered with success has reached the run it was meant for.    *)
THEOREM CancelReachesItsRun == Spec => []AnsweredCancelReachedRun
<1>1. IndInv => AnsweredCancelReachedRun
  BY DEF IndInv, CancelsOK, AnsweredCancelReachedRun
<1>2. QED
  BY <1>1, Invariance, PTL

(* Only an accepted run_batch_runner makes a call run. *)
LEMMA StartsByRunBatch ==
  ASSUME IndInv, Next, NEW c \in Calls, Starts(c)
  PROVE  \E k \in Keys, asked \in BOOLEAN :
           /\ ~Conflict(k, TRUE) /\ ~Unknown(k[1])
           /\ RunBatch(c, k, TRUE, asked)
<1> USE DEF Starts, NewFrame
<1>0. call[c].stage = "idle" /\ call'[c].stage = "running" /\ call \in [Calls -> Frames]
  BY DEF IndInv, TypeOK
<1>1. ASSUME NEW d \in Calls, NEW k \in Keys, NEW m \in BOOLEAN,
             NEW asked \in BOOLEAN, RunBatch(d, k, m, asked)
      PROVE  d = c /\ m = TRUE /\ ~Conflict(k, TRUE) /\ ~Unknown(k[1])
  <2>1. ASSUME NEW a, Answer(d, a) PROVE FALSE
    BY <1>0, <2>1 DEF Answer
  <2>2. ~Conflict(k, m) /\ ~Unknown(k[1])
    BY <1>1, <2>1 DEF RunBatch
  <2>3. m = TRUE /\ ~Conflict(k, TRUE)
    BY <2>2 DEF Conflict
  <2>4. CASE d # c
    BY <1>0, <1>1, <2>2, <2>4 DEF RunBatch, Frames
  <2>5. QED
    BY <2>2, <2>3, <2>4
<1>2. ASSUME NEW d \in Calls, NEW k \in Keys, CancelRunner(d, k) PROVE FALSE
  BY <1>0, <1>2 DEF CancelRunner, Answer
<1>3. ASSUME NEW d \in Calls, NEW k \in Keys, DisposeRunner(d, k) PROVE FALSE
  <2>1. CASE Unknown(k[1])
    BY <1>0, <1>3, <2>1 DEF DisposeRunner, Answer
  <2>2. CASE ~Unknown(k[1])
    <3> DEFINE f == [NewFrame EXCEPT !.stage = "disposing", !.key = k,
                       !.impl = instance[k[1]]]
    <3>1. call' = [e \in Calls |->
            IF e = d THEN f
            ELSE [call[e] EXCEPT !.latched = @ /\ call[e].key[1] # k[1]]]
      BY <1>3, <2>2 DEF DisposeRunner
    <3>2. f.stage = "disposing" /\ call[c] \in Frames
      BY <1>0
    <3> HIDE DEF f
    <3>3. call'[c].stage = "disposing" \/ call'[c].stage = call[c].stage
      BY <3>1, <3>2 DEF Frames
    <3>4. QED
      BY <1>0, <3>3
  <2>3. QED
    BY <2>1, <2>2
<1>4. ASSUME NEW d \in Calls, RunnerHears(d) PROVE FALSE
  <2> DEFINE H(e) == \/ call[e].heard
                     \/ e = d
                     \/ e \in RunsOf(call[d].key) /\ call[e].impl = call[d].impl
  <2>1. call'[c] = [call[c] EXCEPT !.heard = H(c)]
    BY <1>4 DEF RunnerHears
  <2>2. call[c] \in Frames
    BY <1>0
  <2> HIDE DEF H
  <2>3. call'[c].stage = call[c].stage
    BY <2>1, <2>2 DEF Frames
  <2>4. QED
    BY <1>0, <2>3
<1>5. ASSUME NEW d \in Calls, NEW a \in Endings,
             RunEnds(d, a) \/ CancelEnds(d, a) \/ DisposeEnds(d, a)
      PROVE  FALSE
  BY <1>0, <1>5 DEF RunEnds, CancelEnds, DisposeEnds, Answer, Frames
<1>6. ASSUME NEW r \in RunnerIds, Register(r) PROVE FALSE
  BY <1>0, <1>6 DEF Register
<1>7. QED
  BY <1>1, <1>2, <1>3, <1>4, <1>5, <1>6 DEF Next

(* A run is told of a cancel if and only if one of it was accepted and not *)
(* yet consumed, or its own context carries the flag.                      *)
THEOREM RunsSeeTheirCancels == Spec => RunSeesExactlyItsCancels
<1>1. ASSUME IndInv, [Next]_vars, NEW c \in Calls, Starts(c)
      PROVE  call'[c].told <=> \/ call'[c].asked
                               \/ \E d \in Latched : call[d].key = call'[c].key
  <2>1. Next
    BY <1>1 DEF vars, Starts
  <2>2. PICK k \in Keys, asked \in BOOLEAN :
          /\ ~Conflict(k, TRUE) /\ ~Unknown(k[1])
          /\ RunBatch(c, k, TRUE, asked)
    BY <1>1, <2>1, StartsByRunBatch
  <2>3. call'[c] = [NewFrame EXCEPT !.stage = "running", !.key = k,
                                    !.impl = instance[k[1]], !.asked = asked,
                                    !.told = asked \/ k \in cancelled]
    BY <2>2 DEF RunBatch
  <2>4. /\ call'[c].key = k
        /\ call'[c].asked <=> asked
        /\ call'[c].told <=> asked \/ k \in cancelled
    BY <2>3 DEF NewFrame
  <2>5. k \in cancelled <=> \E d \in Latched : call[d].key = k
    BY <1>1, Elementwise
  <2>6. QED
    BY <2>4, <2>5
<1>2. IndInv /\ [Next]_vars =>
        [\A c \in Calls : Starts(c) =>
           (call'[c].told <=> \/ call'[c].asked
                              \/ \E d \in Latched : call[d].key = call'[c].key)]_vars
  BY <1>1
<1>3. QED
  BY <1>2, Invariance, PTL DEF Spec, RunSeesExactlyItsCancels

(* A call that is not yet made has no answer. *)
LEMMA IdleUnanswered ==
  ASSUME IndInv, NEW c \in Calls, call[c].stage = "idle"
  PROVE  call[c].answer \notin Refusals
BY DEF IndInv, FramesOK, NewFrame, Refusals

(* A request refused before it reaches a runner is a no-op. *)
THEOREM RefusalIsNoOp == Spec => RefusalsChangeNothing
<1> DEFINE Kept == UNCHANGED <<instance, cancelled, active>>
<1>1. ASSUME IndInv, [Next]_vars, NEW c \in Calls, call[c].stage = "idle",
             call'[c].answer \in Refusals
      PROVE  Kept
  <2>0. call[c].answer \notin Refusals /\ call \in [Calls -> Frames]
        /\ call[c] \in Frames
    BY <1>1, IdleUnanswered DEF IndInv, TypeOK
  <2>1. ASSUME NEW d \in Calls, NEW k \in Keys, NEW m \in BOOLEAN,
               NEW asked \in BOOLEAN, RunBatch(d, k, m, asked)
        PROVE  Kept
    <3>1. CASE Conflict(k, m)
      BY <2>1, <3>1 DEF RunBatch, PendingAfterClaim
    <3>2. CASE ~Conflict(k, m) /\ Unknown(k[1])
      <4>1. k \notin cancelled
        BY <1>1, <3>2 DEF Unknown, IndInv, TypeOK, KnownKeys
      <4>2. QED
        BY <2>1, <3>2, <4>1 DEF RunBatch, PendingAfterClaim
    <3>3. CASE ~Conflict(k, m) /\ ~Unknown(k[1])
      <4> DEFINE f == [NewFrame EXCEPT !.stage = "running", !.key = k,
                         !.impl = instance[k[1]], !.asked = asked,
                         !.told = asked \/ k \in cancelled]
      <4>1. call' = [e \in Calls |->
              IF e = d THEN f
              ELSE [call[e] EXCEPT !.latched = @ /\ call[e].key # k]]
        BY <2>1, <3>3 DEF RunBatch
      <4>2. f.answer = "none"
        BY DEF NewFrame
      <4> HIDE DEF f
      <4>3. call'[c].answer = "none" \/ call'[c].answer = call[c].answer
        BY <2>0, <4>1, <4>2 DEF Frames
      <4>4. QED
        BY <1>1, <2>0, <4>3 DEF Refusals
    <3>4. QED
      BY <3>1, <3>2, <3>3
  <2>2. ASSUME NEW d \in Calls, NEW k \in Keys, CancelRunner(d, k)
        PROVE  Kept
    <3>1. CASE Unknown(k[1]) \/ CancelExhausted(k)
      BY <2>2, <3>1 DEF CancelRunner
    <3>2. CASE ~Unknown(k[1]) /\ ~CancelExhausted(k)
      <4> DEFINE f == [NewFrame EXCEPT !.stage = "cancelling", !.key = k,
                         !.impl = instance[k[1]],
                         !.latched = RunsOf(k) = {}, !.aimed = RunsOf(k)]
      <4>1. call' = [call EXCEPT ![d] = f]
        BY <2>2, <3>2 DEF CancelRunner
      <4>2. f.answer = "none"
        BY DEF NewFrame
      <4> HIDE DEF f
      <4>3. call'[c].answer = "none" \/ call'[c].answer = call[c].answer
        BY <2>0, <4>1, <4>2
      <4>4. QED
        BY <1>1, <2>0, <4>3 DEF Refusals
    <3>3. QED
      BY <3>1, <3>2
  <2>3. ASSUME NEW d \in Calls, NEW k \in Keys, DisposeRunner(d, k)
        PROVE  Kept
    <3>1. CASE Unknown(k[1])
      BY <2>3, <3>1 DEF DisposeRunner
    <3>2. CASE ~Unknown(k[1])
      <4> DEFINE f == [NewFrame EXCEPT !.stage = "disposing", !.key = k,
                         !.impl = instance[k[1]]]
      <4>1. call' = [e \in Calls |->
              IF e = d THEN f
              ELSE [call[e] EXCEPT !.latched = @ /\ call[e].key[1] # k[1]]]
        BY <2>3, <3>2 DEF DisposeRunner
      <4>2. f.answer = "none"
        BY DEF NewFrame
      <4> HIDE DEF f
      <4>3. call'[c].answer = "none" \/ call'[c].answer = call[c].answer
        BY <2>0, <4>1, <4>2 DEF Frames
      <4>4. QED
        BY <1>1, <2>0, <4>3 DEF Refusals
    <3>3. QED
      BY <3>1, <3>2
  <2>4. ASSUME NEW d \in Calls, RunnerHears(d) PROVE Kept
    BY <2>4 DEF RunnerHears
  <2>5. ASSUME NEW d \in Calls, NEW a \in Endings, RunEnds(d, a) PROVE Kept
    BY <1>1, <2>0, <2>5 DEF RunEnds, Answer, Endings, Refusals
  <2>6. ASSUME NEW d \in Calls, NEW a \in Endings,
               CancelEnds(d, a) \/ DisposeEnds(d, a)
        PROVE  Kept
    BY <2>6 DEF CancelEnds, DisposeEnds
  <2>7. ASSUME NEW r \in RunnerIds, Register(r) PROVE Kept
    BY <1>1, <2>0, <2>7 DEF Register
  <2>8. CASE UNCHANGED vars
    BY <2>8 DEF vars
  <2>9. QED
    BY <1>1, <2>1, <2>2, <2>3, <2>4, <2>5, <2>6, <2>7, <2>8 DEF Next
<1>2. IndInv /\ [Next]_vars =>
        [\A c \in Calls : call[c].stage = "idle" /\ call'[c].answer \in Refusals
           => UNCHANGED <<instance, cancelled, active>>]_vars
  BY <1>1
<1>3. QED
  BY <1>2, Invariance, PTL DEF Spec, RefusalsChangeNothing
=============================================================================
