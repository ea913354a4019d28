------------------------ MODULE AsyncAdapterProofs ------------------------
(***************************************************************************)
(* What the adapters guarantee for any tasks, calls and invocation ids, in *)
(* batches of any size, whatever the runner's code and the client raise.   *)
(***************************************************************************)
EXTENDS AsyncAdapter, SequenceTheorems, TLAPS

(* A coroutine kept is the latest made for its task.                       *)
KeptOK ==
  \A t \in Tasks : coroutine[t] # None => coroutine[t].attempt = made[t]

(* The calls whose child was handed on: Core has it, the completions of    *)
(* the batch will bring it, or it went with those of another.              *)
Handed == known \cup lost \cup (IF batch = None THEN {} ELSE batch.children)

(* They were made by a coroutine of the past, or are awaited by the one at *)
(* hand, or it has awaited them and got the outcome.                       *)
HandedOK ==
  \A c \in Handed :
    /\ c[3] <= made[c[1]]
    /\ coroutine[c[1]] # None /\ c[3] = made[c[1]] =>
         c[2] = coroutine[c[1]].pending \/ ChildId(c) \in outcomes

(* The inductive invariant. *)
IndInv == TypeOK /\ KeptOK /\ HandedOK /\ ChildAccountedFor /\ CancelFindsLatest

Batches == [invocation : Invocations, rest : Entries \cup {<<>>}, children : SUBSET Calls]

-----------------------------------------------------------------------------
(* The first entry of a batch is a task; the others are a batch or none.   *)
LEMMA EntriesOK ==
  ASSUME NEW s \in Entries
  PROVE  /\ s # <<>> /\ Len(s) \in 1..MaxEntries
         /\ Head(s) \in Tasks /\ Tail(s) \in Entries \cup {<<>>}
         /\ Len(s) = 1 => Tail(s) = <<>>
<1>1. PICK n \in 1..MaxEntries : s \in [1..n -> Tasks]
  BY DEF Entries
<1>2. MaxEntries \in Nat /\ n \in Nat /\ n >= 1
  BY AdapterAssumption
<1>3. s \in Seq(Tasks) /\ Len(s) = n
  BY <1>1, <1>2
<1>4. s # <<>> /\ Head(s) \in Tasks
  BY <1>2, <1>3
<1>5. /\ Tail(s) \in Seq(Tasks) /\ Len(Tail(s)) = n - 1
      /\ \A i \in 1..(n - 1) : Tail(s)[i] = s[i + 1]
  BY <1>3, <1>4, HeadTailProperties
<1>6. n = 1 => Tail(s) = <<>>
  BY <1>2, <1>5, EmptySeq
<1>7. n # 1 => Tail(s) \in Entries
  <2> SUFFICES ASSUME n # 1 PROVE Tail(s) \in Entries
    OBVIOUS
  <2>1. n - 1 \in 1..MaxEntries
    BY <1>2
  <2>2. Tail(s) \in UNION {[1..m -> Tasks] : m \in 1..MaxEntries}
    <3>1. Tail(s) \in [1..(n - 1) -> Tasks]
      BY <1>2, <1>5, LenProperties
    <3> QED
      BY <2>1, <3>1
  <2>3. \A i, j \in DOMAIN s : s[i] = s[j] => i = j
    BY DEF Entries
  <2>4. DOMAIN Tail(s) = 1..(n - 1) /\ DOMAIN s = 1..n
    BY <1>1, <1>2, <1>5
  <2>5. \A i, j \in DOMAIN Tail(s) : Tail(s)[i] = Tail(s)[j] => i = j
    BY <1>2, <1>5, <2>3, <2>4
  <2> QED
    BY <2>2, <2>5 DEF Entries
<1> QED
  BY <1>2, <1>3, <1>4, <1>6, <1>7

LEMMA KeptIsSome ==
  ASSUME NEW c \in Coroutines
  PROVE  c # None
  BY DEF Coroutines, None

(* The coroutine that run_one goes on with is well formed, runs under the  *)
(* batch, and is new exactly when none is kept.                            *)
LEMMA CurrentOK ==
  ASSUME TypeOK, NEW t \in Tasks, Entry(t)
  PROVE  /\ Current(t) \in Coroutines /\ Current(t) # None
         /\ Current(t).under = batch.invocation
         /\ coroutine[t] = None =>
              /\ Current(t).attempt = made[t] + 1
              /\ Current(t).pending = 0 /\ ~Current(t).over
         /\ coroutine[t] # None =>
              /\ Current(t).attempt = coroutine[t].attempt
              /\ Current(t).pending = coroutine[t].pending
              /\ Current(t).over = coroutine[t].over
<1> USE AdapterAssumption
<1>1. batch.invocation \in Invocations
  BY DEF TypeOK, Entry
<1>2. CASE coroutine[t] = None
  <2>1. made[t] + 1 \in Nat \ {0}
    BY <1>2 DEF TypeOK
  <2> DEFINE fresh == [attempt |-> made[t] + 1, pending |-> 0, over |-> FALSE,
                       under |-> batch.invocation]
  <2>2. Current(t) = [fresh EXCEPT !.under = batch.invocation]
    BY <1>2 DEF Current
  <2>3. /\ fresh \in Coroutines /\ fresh.attempt = made[t] + 1
        /\ fresh.pending = 0 /\ ~fresh.over
    BY <1>1, <2>1 DEF Coroutines
  <2> HIDE DEF fresh
  <2> QED
    BY <1>1, <1>2, <2>2, <2>3 DEF Coroutines, None
<1>3. CASE coroutine[t] # None
  <2>1. coroutine[t] \in Coroutines
    BY <1>3 DEF TypeOK
  <2>2. Current(t) = [coroutine[t] EXCEPT !.under = batch.invocation]
    BY <1>3 DEF Current
  <2> QED
    BY <1>1, <1>3, <2>1, <2>2 DEF Coroutines, None
<1> QED
  BY <1>2, <1>3

(* What an entry that completes makes of the batch. *)
LEMMA BatchGoesOn ==
  ASSUME TypeOK, NEW t \in Tasks, Entry(t), NEW children \in SUBSET Calls,
         EntryCompletes(children)
  PROVE  /\ batch' \in Batches /\ batch' # None
         /\ batch'.children = batch.children \cup children
         /\ Handed' = Handed \cup children
         /\ UNCHANGED <<known, lost, failed>>
<1>1. batch # None /\ batch \in Batches /\ batch.rest \in Entries
  BY DEF TypeOK, Entry, Batches
<1>2. Tail(batch.rest) \in Entries \cup {<<>>}
  BY <1>1, EntriesOK
<1> DEFINE rest == Tail(batch.rest)
           handed == batch.children \cup children
<1>3. batch' = [batch EXCEPT !.rest = rest, !.children = handed]
  BY DEF EntryCompletes
<1>4. rest \in Entries \cup {<<>>} /\ handed \in SUBSET Calls
  BY <1>1, <1>2 DEF Batches
<1> HIDE DEF rest
<1>5. batch' = [invocation |-> batch.invocation, rest |-> rest, children |-> handed]
  BY <1>1, <1>3 DEF Batches
<1>6. batch' \in Batches /\ batch' # None /\ batch'.children = handed
  BY <1>1, <1>4, <1>5 DEF Batches, None
<1>7. UNCHANGED <<known, lost, failed>>
  BY DEF EntryCompletes
<1>8. Handed' = Handed \cup children
  BY <1>1, <1>6, <1>7 DEF Handed
<1> QED
  BY <1>6, <1>7, <1>8

(* A batch that fails hands its children on no further, but accounts for   *)
(* them.                                                                   *)
LEMMA BatchLost ==
  ASSUME TypeOK, batch # None, BatchFails
  PROVE  /\ batch' = None /\ Handed' = Handed /\ failed' = TRUE
         /\ known' = known /\ lost' \subseteq Calls
<1>1. batch.children \subseteq Calls
  BY DEF TypeOK
<1>2. batch' = None /\ known' = known /\ lost' = lost \cup batch.children /\ failed' = TRUE
  BY DEF BatchFails
<1>3. Handed' = Handed
  BY <1>2 DEF Handed
<1> QED
  BY <1>1, <1>2, <1>3 DEF TypeOK

(* Either way the children of the entry are accounted for.                 *)
LEMMA EntryHandsOn ==
  ASSUME TypeOK, NEW t \in Tasks, Entry(t), NEW new \in SUBSET Calls,
         EntryCompletes(new) \/ (new = {} /\ BatchFails)
  PROVE  /\ batch' \in Batches \cup {None} /\ Handed' = Handed \cup new
         /\ known' \subseteq Calls /\ lost' \subseteq Calls /\ failed' \in BOOLEAN
<1>1. batch # None
  BY DEF Entry
<1>2. known \subseteq Calls /\ lost \subseteq Calls /\ failed \in BOOLEAN
  BY DEF TypeOK
<1>3. CASE EntryCompletes(new)
  BY <1>2, <1>3, BatchGoesOn
<1>4. CASE new = {} /\ BatchFails
  BY <1>1, <1>2, <1>4, BatchLost
<1> QED
  BY <1>3, <1>4

LEMMA FaultOK ==
  ASSUME NEW fault \in Faults, EntryFails(fault)
  PROVE  EntryCompletes({}) \/ BatchFails
  BY DEF EntryFails

-----------------------------------------------------------------------------
(* An entry of t whose coroutine is kept as c and hands on the calls new:  *)
(* c waits for what it waited for, or awaits another call and hands it on. *)
Keeps(t, c, new) ==
  /\ Runs(t)
  /\ c \in Coroutines
  /\ c.attempt = Current(t).attempt
  /\ c.under = batch.invocation
  /\ new \subseteq Calls
  /\ \/ new = {} /\ c.pending = Current(t).pending
     \/ new = {<<t, c.pending, c.attempt>>} /\ ~Waits(t)
  /\ coroutine' = [coroutine EXCEPT ![t] = c]
  /\ invocationTask' = Tracked(t)
  /\ EntryCompletes(new) \/ (new = {} /\ BatchFails)

(* The index and the history of the invocations after such an entry.       *)
LEMMA TrackedOK ==
  ASSUME TypeOK, NEW t \in Tasks, Runs(t)
  PROVE  /\ batch.invocation \in Invocations
         /\ Tracked(t) \in [Invocations -> Tasks \cup {None}]
         /\ latest' \in [Invocations -> Tasks \cup {None}]
         /\ \A i \in Invocations :
              IF i = batch.invocation /\ i # Unnamed
              THEN Tracked(t)[i] = t /\ latest'[i] = t
              ELSE Tracked(t)[i] = invocationTask[i] /\ latest'[i] = latest[i]
<1>1. batch.invocation \in Invocations
  BY DEF TypeOK, Runs, Entry
<1> QED
  BY <1>1 DEF TypeOK, Runs, Tracked

LEMMA KeepsOK ==
  ASSUME IndInv, NEW t \in Tasks, NEW c, NEW new, Keeps(t, c, new)
  PROVE  IndInv'
<1>1. /\ TypeOK /\ KeptOK /\ HandedOK /\ ChildAccountedFor /\ CancelFindsLatest
      /\ Entry(t) /\ Runs(t)
  BY DEF IndInv, Keeps, Runs
<1>2. /\ batch' \in Batches \cup {None} /\ Handed' = Handed \cup new
      /\ known' \subseteq Calls /\ lost' \subseteq Calls /\ failed' \in BOOLEAN
  BY <1>1, EntryHandsOn DEF Keeps
<1>3. /\ coroutine'[t] = c /\ c # None /\ made'[t] = c.attempt
      /\ \A u \in Tasks \ {t} : coroutine'[u] = coroutine[u] /\ made'[u] = made[u]
      /\ c \in Coroutines /\ c.attempt \in Nat /\ outcomes' = outcomes
  <2>1. c \in Coroutines
    BY DEF Keeps
  <2>2. c # None /\ c.attempt \in Nat
    BY <2>1 DEF Coroutines, None
  <2>3. coroutine'[t] = c /\ \A u \in Tasks \ {t} : coroutine'[u] = coroutine[u]
    BY <1>1 DEF TypeOK, Keeps
  <2>4. made'[t] = c.attempt /\ \A u \in Tasks \ {t} : made'[u] = made[u]
    BY <1>1 DEF TypeOK, Keeps, Runs
  <2> QED
    BY <2>1, <2>2, <2>3, <2>4 DEF Keeps, Runs
<1>4. invocationTask' = Tracked(t)
  BY DEF Keeps
<1>5. TypeOK'
  <2>1. coroutine' \in [Tasks -> Coroutines \cup {None}]
    BY <1>1, <1>3 DEF TypeOK, Keeps
  <2>2. /\ invocationTask' \in [Invocations -> Tasks \cup {None}]
        /\ latest' \in [Invocations -> Tasks \cup {None}]
    BY <1>1, <1>4, TrackedOK
  <2>3. made' \in [Tasks -> Nat]
    BY <1>1, <1>3 DEF TypeOK, Keeps, Runs
  <2>4. \A i \in Invocations :
          invocationTask'[i] # None => coroutine'[invocationTask'[i]] # None
    <3> SUFFICES ASSUME NEW i \in Invocations, invocationTask'[i] # None
                 PROVE  coroutine'[invocationTask'[i]] # None
      OBVIOUS
    <3>1. invocationTask'[i] = t \/ invocationTask'[i] = invocationTask[i]
      BY <1>1, <1>4, TrackedOK
    <3> QED
      BY <1>1, <1>3, <3>1 DEF TypeOK
  <2>5. batch' \in [invocation : Invocations, rest : Entries \cup {<<>>},
                    children : SUBSET Calls] \cup {None}
    BY <1>2 DEF Batches
  <2>6. outcomes' \subseteq {ChildId(d) : d \in Calls}
    BY <1>1, <1>3 DEF TypeOK
  <2> QED
    BY <1>2, <2>1, <2>2, <2>3, <2>4, <2>5, <2>6 DEF TypeOK
<1>6. KeptOK'
  BY <1>1, <1>3 DEF KeptOK
<1>7. coroutine[t] # None => c.attempt = made[t] /\ made[t] = coroutine[t].attempt
  BY <1>1, CurrentOK DEF KeptOK, Keeps
<1>8. coroutine[t] = None => c.attempt = made[t] + 1 /\ Current(t).pending = 0
  BY <1>1, CurrentOK DEF Keeps
<1>9. HandedOK'
  <2> SUFFICES ASSUME NEW d \in Handed'
               PROVE  /\ d[3] <= made'[d[1]]
                      /\ coroutine'[d[1]] # None /\ d[3] = made'[d[1]] =>
                           d[2] = coroutine'[d[1]].pending \/ ChildId(d) \in outcomes
    BY <1>3 DEF HandedOK
  <2>1. CASE d \in new
    <3>1. d[1] = t /\ d[2] = c.pending /\ d[3] = c.attempt
      BY <2>1 DEF Keeps
    <3> QED
      BY <1>3, <3>1
  <2>2. CASE d \in Handed
    <3>1. d[1] \in Tasks /\ d[3] \in Nat /\ made[d[1]] \in Nat
      BY <1>1, <2>2, AdapterAssumption DEF Handed, TypeOK
    <3>2. /\ d[3] <= made[d[1]]
          /\ coroutine[d[1]] # None /\ d[3] = made[d[1]] =>
               d[2] = coroutine[d[1]].pending \/ ChildId(d) \in outcomes
      BY <1>1, <2>2 DEF HandedOK
    <3>3. CASE d[1] = t /\ coroutine[t] = None
      BY <1>3, <1>8, <3>1, <3>2, <3>3
    <3>4. CASE d[1] = t /\ coroutine[t] # None
      <4>1. Current(t).pending = coroutine[t].pending
        BY <1>1, <3>4, CurrentOK
      <4>2. /\ d[2] # c.pending /\ d[2] = coroutine[t].pending => ~Waits(t)
        BY <4>1 DEF Keeps
      <4>3. d[2] \in Nat \ {0} /\ ChildId(d) = <<t, d[2]>>
        BY <1>1, <2>2, <3>4, AdapterAssumption DEF Handed, TypeOK, ChildId
      <4>4. d[2] # c.pending /\ d[2] = coroutine[t].pending => ChildId(d) \in outcomes
        BY <3>4, <4>2, <4>3 DEF Waits
      <4> QED
        BY <1>3, <1>7, <3>1, <3>2, <3>4, <4>4
    <3>5. CASE d[1] # t
      BY <1>3, <3>1, <3>2, <3>5
    <3> QED
      BY <3>3, <3>4, <3>5
  <2> QED
    BY <1>2, <2>1, <2>2
<1>10. ChildAccountedFor'
  <2> SUFFICES ASSUME NEW u \in Tasks, coroutine'[u] # None, coroutine'[u].pending # 0
               PROVE  <<u, coroutine'[u].pending, coroutine'[u].attempt>> \in Handed'
    BY DEF ChildAccountedFor, Handed
  <2>1. coroutine[u] # None /\ coroutine[u].pending # 0 =>
          <<u, coroutine[u].pending, coroutine[u].attempt>> \in Handed
    BY <1>1 DEF ChildAccountedFor, Handed
  <2>2. CASE u # t
    BY <1>2, <1>3, <2>1, <2>2
  <2>3. CASE u = t /\ new = {<<t, c.pending, c.attempt>>}
    BY <1>2, <1>3, <2>3
  <2>4. CASE u = t /\ c.pending = Current(t).pending
    <3>1. coroutine[t] # None /\ Current(t).pending = coroutine[t].pending
      BY <1>1, <1>3, <1>8, <2>4, CurrentOK
    <3> QED
      BY <1>2, <1>3, <1>7, <2>1, <2>4, <3>1
  <2> QED
    BY <2>2, <2>3, <2>4 DEF Keeps
<1>11. CancelFindsLatest'
  <2> SUFFICES ASSUME NEW u \in Tasks, NEW i, coroutine'[u] # None,
                      i = coroutine'[u].under, i # Unnamed, latest'[i] = u
               PROVE  invocationTask'[i] = u
    BY DEF CancelFindsLatest
  <2>1. i \in Invocations
    BY <1>5 DEF TypeOK, Coroutines
  <2>2. CASE i = batch.invocation
    BY <1>1, <1>4, <2>1, <2>2, TrackedOK
  <2>3. CASE i # batch.invocation
    <3>1. u # t
      BY <1>3, <2>3 DEF Keeps
    <3>2. invocationTask'[i] = invocationTask[i] /\ latest[i] = u
      BY <1>1, <1>4, <2>1, <2>3, TrackedOK
    <3>3. coroutine[u] = coroutine'[u]
      BY <1>3, <3>1
    <3> QED
      BY <1>1, <3>2, <3>3 DEF CancelFindsLatest
  <2> QED
    BY <2>2, <2>3
<1> QED
  BY <1>5, <1>6, <1>9, <1>10, <1>11 DEF IndInv

(* A step that keeps some coroutines, drops the others, and loses track of *)
(* none that is kept.                                                      *)
LEMMA DropsOK ==
  ASSUME IndInv,
         coroutine' \in [Tasks -> Coroutines \cup {None}],
         \A t \in Tasks : coroutine'[t] \in {coroutine[t], None},
         invocationTask' \in [Invocations -> Tasks \cup {None}],
         \A i \in Invocations :
           invocationTask'[i] # None => coroutine'[invocationTask'[i]] # None,
         made' \in [Tasks -> Nat],
         \A t \in Tasks : made'[t] >= made[t] /\ (coroutine'[t] # None => made'[t] = made[t]),
         batch' \in Batches \cup {None}, Handed' = Handed, known' \subseteq Calls,
         lost' \subseteq Calls, latest' \in [Invocations -> Tasks \cup {None}],
         outcomes \subseteq outcomes', outcomes' \subseteq {ChildId(c) : c \in Calls},
         failed' \in BOOLEAN, CancelFindsLatest'
  PROVE  IndInv'
<1>1. TypeOK /\ KeptOK /\ HandedOK /\ ChildAccountedFor
  BY DEF IndInv
<1>2. TypeOK'
  BY DEF TypeOK, Batches
<1>3. KeptOK'
  BY <1>1 DEF KeptOK
<1>4. HandedOK'
  <2> SUFFICES ASSUME NEW d \in Handed
               PROVE  /\ d[3] <= made'[d[1]]
                      /\ coroutine'[d[1]] # None /\ d[3] = made'[d[1]] =>
                           d[2] = coroutine'[d[1]].pending \/ ChildId(d) \in outcomes'
    BY DEF HandedOK
  <2>1. d[1] \in Tasks /\ d[3] \in Nat
    BY <1>1, AdapterAssumption DEF Handed, TypeOK
  <2>2. /\ d[3] <= made[d[1]]
        /\ coroutine[d[1]] # None /\ d[3] = made[d[1]] =>
             d[2] = coroutine[d[1]].pending \/ ChildId(d) \in outcomes
    BY <1>1 DEF HandedOK
  <2>3. made[d[1]] \in Nat /\ made'[d[1]] \in Nat
    BY <1>1, <2>1 DEF TypeOK
  <2>4. coroutine'[d[1]] # None =>
          coroutine'[d[1]] = coroutine[d[1]] /\ made'[d[1]] = made[d[1]]
    BY <2>1
  <2> QED
    BY <2>1, <2>2, <2>3, <2>4
<1>5. ChildAccountedFor'
  <2> SUFFICES ASSUME NEW u \in Tasks, coroutine'[u] # None, coroutine'[u].pending # 0
               PROVE  <<u, coroutine'[u].pending, coroutine'[u].attempt>> \in Handed'
    BY DEF ChildAccountedFor, Handed
  <2>1. coroutine'[u] = coroutine[u]
    OBVIOUS
  <2> QED
    BY <1>1, <2>1 DEF ChildAccountedFor, Handed
<1> QED
  BY <1>2, <1>3, <1>4, <1>5 DEF IndInv

(* A step that touches neither the coroutines nor what is known of them.   *)
LEMMA OutsideOK ==
  ASSUME IndInv, UNCHANGED <<coroutine, invocationTask, made, latest>>,
         batch' \in Batches \cup {None}, Handed' = Handed, known' \subseteq Calls,
         lost' \subseteq Calls, outcomes \subseteq outcomes',
         outcomes' \subseteq {ChildId(c) : c \in Calls}, failed' \in BOOLEAN
  PROVE  IndInv'
<1>1. TypeOK /\ CancelFindsLatest
  BY DEF IndInv
<1>2. \A t \in Tasks : made[t] >= made[t]
  BY <1>1 DEF TypeOK
<1>3. CancelFindsLatest'
  BY <1>1 DEF CancelFindsLatest
<1> QED
  BY <1>1, <1>2, <1>3, DropsOK DEF TypeOK

-----------------------------------------------------------------------------
LEMMA InitOK == Init => IndInv
<1> SUFFICES ASSUME Init PROVE IndInv
  OBVIOUS
<1>1. TypeOK
  BY DEF Init, TypeOK
<1>2. KeptOK /\ ChildAccountedFor /\ CancelFindsLatest
  BY DEF Init, KeptOK, ChildAccountedFor, CancelFindsLatest
<1>3. Handed = {}
  BY DEF Init, Handed
<1> QED
  BY <1>1, <1>2, <1>3 DEF IndInv, HandedOK

LEMMA StartBatchOK ==
  ASSUME IndInv, NEW i \in Invocations, NEW entries \in Entries, StartBatch(i, entries)
  PROVE  IndInv'
<1>1. batch' = [invocation |-> i, rest |-> entries, children |-> {}]
  BY DEF StartBatch
<1>2. batch' \in Batches /\ batch' # None
  BY <1>1 DEF Batches, None
<1>3. Handed' = Handed
  BY <1>1, <1>2 DEF StartBatch, Handed
<1>4. /\ UNCHANGED <<coroutine, invocationTask, made, known, lost, latest, outcomes>>
      /\ failed' = FALSE
  BY DEF StartBatch
<1> QED
  BY <1>2, <1>3, <1>4, OutsideOK DEF IndInv, TypeOK

(* The coroutine goes on waiting, whether the client says so or raises.    *)
LEMMA UnsentKeeps ==
  ASSUME IndInv, NEW t \in Tasks, Runs(t), coroutine' = [coroutine EXCEPT ![t] = Current(t)],
         invocationTask' = Tracked(t), EntryCompletes({}) \/ BatchFails
  PROVE  Keeps(t, Current(t), {})
<1>1. Entry(t) /\ TypeOK
  BY DEF IndInv, Runs
<1>2. Current(t) \in Coroutines /\ Current(t).under = batch.invocation
  BY <1>1, CurrentOK
<1> QED
  BY <1>2 DEF Keeps

LEMMA StillWaitingKeeps ==
  ASSUME IndInv, NEW t \in Tasks, StillWaiting(t)
  PROVE  Keeps(t, Current(t), {})
<1>1. EntryCompletes({})
  BY DEF Descriptor, StillWaiting
<1> QED
  BY <1>1, UnsentKeeps DEF StillWaiting

LEMMA ClientRaisesKeeps ==
  ASSUME IndInv, NEW t \in Tasks, NEW fault \in Faults, ClientRaises(t, fault)
  PROVE  Keeps(t, Current(t), {})
  BY FaultOK, UnsentKeeps DEF ClientRaises

LEMMA ReusesKeeps ==
  ASSUME IndInv, NEW t \in Tasks, Reuses(t)
  PROVE  Keeps(t, Current(t), {})
  BY UnsentKeeps DEF Reuses, Sends

LEMMA AwaitsKeeps ==
  ASSUME IndInv, NEW t \in Tasks, NEW n, Awaits(t, n)
  PROVE  \E c : Keeps(t, c, {<<t, n, Current(t).attempt>>})
<1>1. Entry(t) /\ TypeOK /\ Runs(t) /\ ~Waits(t)
  BY DEF IndInv, Awaits, Sends, Runs
<1> DEFINE k == Current(t)
           c == [k EXCEPT !.pending = n]
<1>2. k \in Coroutines /\ k.under = batch.invocation
  BY <1>1, CurrentOK
<1>3. <<t, n, k.attempt>> \in Calls /\ n \in Nat
  BY AdapterAssumption DEF Awaits
<1>4. /\ coroutine' = [coroutine EXCEPT ![t] = c] /\ invocationTask' = Tracked(t)
      /\ EntryCompletes({<<t, n, k.attempt>>})
  BY DEF Awaits, Descriptor
<1> HIDE DEF k
<1>5. c \in Coroutines /\ c.attempt = k.attempt /\ c.pending = n /\ c.under = k.under
  BY <1>2, <1>3 DEF Coroutines
<1> HIDE DEF c
<1>6. Keeps(t, c, {<<t, n, k.attempt>>})
  BY <1>1, <1>2, <1>3, <1>4, <1>5 DEF Keeps, k
<1> QED
  BY <1>6 DEF k

LEMMA RaisesKeeps ==
  ASSUME IndInv, NEW t \in Tasks, NEW fault \in Faults, Raises(t, fault)
  PROVE  \E c : Keeps(t, c, {})
<1>1. Entry(t) /\ TypeOK /\ Runs(t)
  BY DEF IndInv, Raises, Sends, Runs
<1> DEFINE k == Current(t)
           c == [k EXCEPT !.over = TRUE]
<1>2. k \in Coroutines /\ k.under = batch.invocation
  BY <1>1, CurrentOK
<1>3. EntryCompletes({}) \/ BatchFails
  BY FaultOK DEF Raises
<1>4. coroutine' = [coroutine EXCEPT ![t] = c] /\ invocationTask' = Tracked(t)
  BY DEF Raises
<1> HIDE DEF k
<1>5. /\ c \in Coroutines /\ c.attempt = k.attempt
      /\ c.pending = k.pending /\ c.under = k.under
  BY <1>2 DEF Coroutines
<1> HIDE DEF c
<1>6. Keeps(t, c, {})
  BY <1>1, <1>2, <1>3, <1>4, <1>5 DEF Keeps, k
<1> QED
  BY <1>6

(* The index after the names of t have been taken out of it.               *)
LEMMA ForgottenOK ==
  ASSUME NEW t \in Tasks, NEW index \in [Invocations -> Tasks \cup {None}]
  PROVE  /\ Forgotten(t, index) \in [Invocations -> Tasks \cup {None}]
         /\ \A i \in Invocations :
              Forgotten(t, index)[i] = IF index[i] = t THEN None ELSE index[i]
  BY DEF Forgotten

LEMMA EndsOK ==
  ASSUME IndInv, NEW t \in Tasks, Ends(t)
  PROVE  IndInv'
<1>1. Entry(t) /\ TypeOK /\ KeptOK /\ CancelFindsLatest /\ Runs(t)
  BY DEF IndInv, Ends, Sends, Runs
<1>2. /\ coroutine' = [coroutine EXCEPT ![t] = None]
      /\ invocationTask' = Forgotten(t, Tracked(t))
      /\ made' = [made EXCEPT ![t] = Current(t).attempt]
      /\ EntryCompletes({}) /\ outcomes' = outcomes
  BY DEF Ends, Sends, Runs
<1>3. /\ batch' \in Batches \cup {None} /\ Handed' = Handed
      /\ known' \subseteq Calls /\ lost' \subseteq Calls /\ failed' \in BOOLEAN
  <2>1. {} \in SUBSET Calls /\ Handed \cup {} = Handed
    OBVIOUS
  <2> QED
    BY <1>1, <1>2, <2>1, EntryHandsOn
<1>4. /\ coroutine' \in [Tasks -> Coroutines \cup {None}] /\ coroutine'[t] = None
      /\ \A u \in Tasks : coroutine'[u] \in {coroutine[u], None}
      /\ \A u \in Tasks \ {t} : coroutine'[u] = coroutine[u]
  BY <1>1, <1>2 DEF TypeOK
<1>5. /\ batch.invocation \in Invocations
      /\ invocationTask' \in [Invocations -> Tasks \cup {None}]
      /\ latest' \in [Invocations -> Tasks \cup {None}]
      /\ \A i \in Invocations : \/ invocationTask'[i] = None
                                \/ invocationTask'[i] = invocationTask[i]
                                     /\ invocationTask[i] # t
  BY <1>1, <1>2, TrackedOK, ForgottenOK
<1>6. \A i \in Invocations :
        invocationTask'[i] # None => coroutine'[invocationTask'[i]] # None
  <2> SUFFICES ASSUME NEW i \in Invocations, invocationTask'[i] # None
               PROVE  coroutine'[invocationTask'[i]] # None
    OBVIOUS
  <2>1. /\ invocationTask'[i] = invocationTask[i] /\ invocationTask[i] \in Tasks \ {t}
        /\ coroutine[invocationTask[i]] # None
    BY <1>1, <1>5 DEF TypeOK
  <2> QED
    BY <1>4, <2>1
<1>7. made' \in [Tasks -> Nat] /\ \A u \in Tasks \ {t} : made'[u] = made[u]
  BY <1>1, <1>2, CurrentOK DEF TypeOK, Coroutines
<1>8. made'[t] >= made[t]
  <2>1. made[t] \in Nat /\ made'[t] = Current(t).attempt
    BY <1>1, <1>2 DEF TypeOK
  <2>2. Current(t).attempt \in {made[t], made[t] + 1}
    BY <1>1, CurrentOK DEF KeptOK
  <2> QED
    BY <2>1, <2>2
<1>9. \A u \in Tasks : made'[u] >= made[u] /\ (coroutine'[u] # None => made'[u] = made[u])
  BY <1>1, <1>4, <1>7, <1>8 DEF TypeOK
<1>10. CancelFindsLatest'
  <2> SUFFICES ASSUME NEW u \in Tasks, NEW i, coroutine'[u] # None,
                      i = coroutine'[u].under, i # Unnamed, latest'[i] = u
               PROVE  invocationTask'[i] = u
    BY DEF CancelFindsLatest
  <2>1. u # t /\ coroutine'[u] = coroutine[u]
    BY <1>4
  <2>2. i \in Invocations
    BY <1>4 DEF Coroutines
  <2>3. Tracked(t)[i] = invocationTask[i] /\ latest[i] = u
    BY <1>1, <2>1, <2>2, TrackedOK
  <2>4. invocationTask[i] = u
    BY <1>1, <2>1, <2>3 DEF CancelFindsLatest
  <2> QED
    BY <1>1, <1>2, <2>1, <2>2, <2>3, <2>4, TrackedOK, ForgottenOK
<1> QED
  BY <1>1, <1>2, <1>3, <1>4, <1>5, <1>6, <1>7, <1>9, <1>10, DropsOK DEF TypeOK

LEMMA FactoryRaisesOK ==
  ASSUME IndInv, NEW t \in Tasks, NEW fault \in Faults, FactoryRaises(t, fault)
  PROVE  IndInv'
<1>1. Entry(t) /\ TypeOK
  BY DEF IndInv, FactoryRaises
<1>2. UNCHANGED <<coroutine, invocationTask, made, latest, outcomes>>
  BY DEF FactoryRaises
<1>3. EntryCompletes({}) \/ BatchFails
  BY FaultOK DEF FactoryRaises
<1>4. /\ batch' \in Batches \cup {None} /\ Handed' = Handed
      /\ known' \subseteq Calls /\ lost' \subseteq Calls /\ failed' \in BOOLEAN
  <2>1. {} \in SUBSET Calls /\ Handed \cup {} = Handed
    OBVIOUS
  <2> QED
    BY <1>1, <1>3, <2>1, EntryHandsOn
<1> QED
  BY <1>1, <1>2, <1>4, OutsideOK DEF TypeOK

LEMMA BatchOverOK ==
  ASSUME IndInv, EndBatch \/ CompletionsUnwritable
  PROVE  IndInv'
<1>1. TypeOK /\ batch # None /\ batch.children \subseteq Calls
  BY DEF IndInv, TypeOK, EndBatch, CompletionsUnwritable
<1>2. UNCHANGED <<coroutine, invocationTask, made, latest, outcomes>>
  BY DEF EndBatch, CompletionsUnwritable
<1>3. CASE EndBatch
  <2>1. /\ batch' = None /\ known' = known \cup batch.children
        /\ UNCHANGED <<lost, failed>>
    BY <1>3 DEF EndBatch
  <2>2. Handed' = Handed
    BY <1>1, <2>1 DEF Handed
  <2> QED
    BY <1>1, <1>2, <2>1, <2>2, OutsideOK DEF TypeOK
<1>4. CASE CompletionsUnwritable
  <2>1. /\ batch' = None /\ Handed' = Handed /\ failed' = TRUE
        /\ known' = known /\ lost' \subseteq Calls
    BY <1>1, <1>4, BatchLost DEF CompletionsUnwritable
  <2> QED
    BY <1>1, <1>2, <2>1, OutsideOK DEF TypeOK
<1> QED
  BY <1>3, <1>4

LEMMA CancelOK ==
  ASSUME IndInv, NEW i \in Invocations, Cancel(i)
  PROVE  IndInv'
<1>1. TypeOK /\ CancelFindsLatest /\ invocationTask[i] \in Tasks
  BY DEF IndInv, TypeOK, Cancel
<1> DEFINE t == invocationTask[i]
<1>2. UNCHANGED <<batch, made, known, lost, latest, outcomes, failed>>
  BY DEF Cancel
<1>3. coroutine' = [coroutine EXCEPT ![t] = None] /\ invocationTask' = Forgotten(t, invocationTask)
  BY DEF Cancel
<1>4. t \in Tasks
  BY <1>1
<1> HIDE DEF t
<1>5. /\ coroutine' \in [Tasks -> Coroutines \cup {None}]
      /\ \A u \in Tasks : coroutine'[u] \in {coroutine[u], None}
      /\ \A u \in Tasks \ {t} : coroutine'[u] = coroutine[u]
      /\ coroutine'[t] = None
  BY <1>1, <1>3, <1>4 DEF TypeOK
<1>6. /\ invocationTask' \in [Invocations -> Tasks \cup {None}]
      /\ \A j \in Invocations :
           invocationTask'[j] = IF invocationTask[j] = t THEN None ELSE invocationTask[j]
  BY <1>1, <1>3, <1>4, ForgottenOK DEF TypeOK
<1>7. \A j \in Invocations :
        invocationTask'[j] # None => coroutine'[invocationTask'[j]] # None
  <2> SUFFICES ASSUME NEW j \in Invocations, invocationTask'[j] # None
               PROVE  coroutine'[invocationTask'[j]] # None
    OBVIOUS
  <2>1. /\ invocationTask'[j] = invocationTask[j] /\ invocationTask[j] \in Tasks \ {t}
        /\ coroutine[invocationTask[j]] # None
    BY <1>1, <1>6 DEF TypeOK
  <2> QED
    BY <1>5, <2>1
<1>8. Handed' = Handed /\ batch' \in Batches \cup {None}
  BY <1>1, <1>2 DEF Handed, TypeOK, Batches
<1>9. \A u \in Tasks : made[u] >= made[u]
  BY <1>1 DEF TypeOK
<1>10. CancelFindsLatest'
  <2> SUFFICES ASSUME NEW u \in Tasks, NEW j, coroutine'[u] # None,
                      j = coroutine'[u].under, j # Unnamed, latest[j] = u
               PROVE  invocationTask'[j] = u
    BY <1>2 DEF CancelFindsLatest
  <2>1. u # t /\ coroutine'[u] = coroutine[u] /\ j \in Invocations
    BY <1>5 DEF Coroutines
  <2> QED
    BY <1>1, <1>6, <2>1 DEF CancelFindsLatest
<1> QED
  BY <1>1, <1>2, <1>5, <1>6, <1>7, <1>8, <1>9, <1>10, DropsOK DEF TypeOK

LEMMA DisposeOK ==
  ASSUME IndInv, Dispose
  PROVE  IndInv'
<1>1. TypeOK
  BY DEF IndInv
<1>2. UNCHANGED <<batch, made, known, lost, latest, outcomes, failed>>
  BY DEF Dispose
<1>3. /\ coroutine' \in [Tasks -> Coroutines \cup {None}]
      /\ \A u \in Tasks : coroutine'[u] = None
      /\ invocationTask' \in [Invocations -> Tasks \cup {None}]
      /\ \A i \in Invocations : invocationTask'[i] = None
  BY DEF Dispose
<1>4. Handed' = Handed /\ batch' \in Batches \cup {None}
  BY <1>1, <1>2 DEF Handed, TypeOK, Batches
<1>5. \A u \in Tasks : made[u] >= made[u]
  BY <1>1 DEF TypeOK
<1>6. CancelFindsLatest'
  BY <1>3 DEF CancelFindsLatest
<1> QED
  BY <1>1, <1>2, <1>3, <1>4, <1>5, <1>6, DropsOK DEF TypeOK

LEMMA CoreCompletesOK ==
  ASSUME IndInv, NEW c \in Calls, CoreCompletes(c)
  PROVE  IndInv'
<1>1. TypeOK
  BY DEF IndInv
<1>2. UNCHANGED <<coroutine, invocationTask, batch, made, known, lost, latest, failed>>
  BY DEF CoreCompletes
<1>3. outcomes \subseteq outcomes' /\ outcomes' \subseteq {ChildId(d) : d \in Calls}
  BY <1>1 DEF CoreCompletes, TypeOK
<1>4. Handed' = Handed /\ batch' \in Batches \cup {None}
  BY <1>1, <1>2 DEF Handed, TypeOK, Batches
<1> QED
  BY <1>1, <1>2, <1>3, <1>4, OutsideOK DEF TypeOK

(* The entries whose coroutine is kept, whatever it does. *)
KeepsCoroutine(t) ==
  \/ StillWaiting(t)
  \/ Reuses(t)
  \/ \E n \in {c[2] : c \in Calls} : Awaits(t, n)
  \/ \E fault \in Faults : ClientRaises(t, fault) \/ Raises(t, fault)

LEMMA EntryKeeps ==
  ASSUME IndInv, NEW t \in Tasks, KeepsCoroutine(t)
  PROVE  \E c, new : Keeps(t, c, new)
  BY StillWaitingKeeps, ReusesKeeps, AwaitsKeeps, ClientRaisesKeeps, RaisesKeeps
  DEF KeepsCoroutine

LEMMA Invariance == Spec => []IndInv
<1>1. IndInv /\ [Next]_vars => IndInv'
  <2> SUFFICES ASSUME IndInv, [Next]_vars PROVE IndInv'
    OBVIOUS
  <2>1. CASE Next
    <3>1. ASSUME NEW t \in Tasks, KeepsCoroutine(t) PROVE IndInv'
      BY <3>1, EntryKeeps, KeepsOK
    <3> QED
      BY <2>1, <3>1, CancelOK, StartBatchOK, EndsOK, CoreCompletesOK, FactoryRaisesOK,
         BatchOverOK, DisposeOK DEF Next, KeepsCoroutine
  <2>2. CASE UNCHANGED vars
    BY <2>2 DEF vars, IndInv, TypeOK, KeptOK, HandedOK, Handed, ChildAccountedFor,
                CancelFindsLatest
  <2> QED
    BY <2>1, <2>2
<1> QED
  BY InitOK, <1>1, PTL DEF Spec

-----------------------------------------------------------------------------
(* What a step hands on: the call of a coroutine that awaits, or nothing.  *)
LEMMA NewChildren ==
  ASSUME IndInv, Next, batch # None, batch' # None,
         NEW d \in batch'.children \ batch.children
  PROVE  \E t \in Tasks : \E n \in {c[2] : c \in Calls} :
           Awaits(t, n) /\ d = <<t, n, Current(t).attempt>>
<1>1. TypeOK /\ batch' # batch
  BY DEF IndInv
<1>2. ASSUME NEW t \in Tasks, NEW children \in SUBSET Calls,
             Entry(t), EntryCompletes(children)
      PROVE  d \in children
  BY <1>1, <1>2, BatchGoesOn
<1>3. {} \in SUBSET Calls /\ ~BatchFails
  BY DEF BatchFails
<1>4. ASSUME NEW t \in Tasks, StillWaiting(t) \/ Ends(t) PROVE FALSE
  <2>1. Entry(t) /\ EntryCompletes({})
    BY <1>4 DEF StillWaiting, Ends, Sends, Runs, Descriptor
  <2> QED
    BY <1>2, <1>3, <2>1
<1>5. ASSUME NEW t \in Tasks, NEW fault \in Faults,
             ClientRaises(t, fault) \/ Raises(t, fault) \/ FactoryRaises(t, fault)
      PROVE  FALSE
  <2>1. Entry(t) /\ EntryFails(fault)
    BY <1>5 DEF ClientRaises, Raises, FactoryRaises, Sends, Runs
  <2>2. EntryCompletes({})
    BY <1>3, <2>1, FaultOK
  <2> QED
    BY <1>2, <1>3, <2>1, <2>2
<1>6. ASSUME NEW t \in Tasks, Reuses(t) PROVE FALSE
  BY <1>3, <1>6 DEF Reuses
<1>7. ASSUME NEW t \in Tasks, NEW n \in {c[2] : c \in Calls}, Awaits(t, n)
      PROVE  d = <<t, n, Current(t).attempt>>
  <2>1. Entry(t) /\ EntryCompletes({<<t, n, Current(t).attempt>>})
    BY <1>7 DEF Awaits, Sends, Runs, Descriptor
  <2>2. {<<t, n, Current(t).attempt>>} \in SUBSET Calls
    BY <1>7 DEF Awaits
  <2>3. d \in {<<t, n, Current(t).attempt>>}
    BY <1>2, <2>1, <2>2
  <2> QED
    BY <2>3
<1>8. CASE \E t \in Tasks : \E n \in {c[2] : c \in Calls} : Awaits(t, n)
  BY <1>7, <1>8
<1>9. CASE \/ EndBatch \/ CompletionsUnwritable \/ Dispose
           \/ \E i \in Invocations : Cancel(i) \/ \E entries \in Entries : StartBatch(i, entries)
           \/ \E c \in Calls : CoreCompletes(c)
  BY <1>1, <1>3, <1>9
  DEF EndBatch, CompletionsUnwritable, Dispose, Cancel, StartBatch, CoreCompletes
<1> QED
  BY <1>4, <1>5, <1>6, <1>8, <1>9 DEF Next

(* The state has its type; the index names no task whose coroutine is      *)
(* gone, so that the cancel of a finished invocation hits nothing else.    *)
THEOREM TypeCorrect == Spec => []TypeOK
  BY Invariance, PTL DEF IndInv

(* While the outcome of a call is outstanding its child is not handed out  *)
(* again, be the calls awaited in any order and as often as one likes, and *)
(* whatever cancels, disposals and failed batches have come in between.    *)
THEOREM DescriptorsAreNew == Spec => DescriptorOnce
<1> DEFINE Once ==
      batch # None /\ batch' # None =>
        \A c \in batch'.children \ batch.children :
          c \in known \cup lost => ChildId(c) \in outcomes
<1>1. IndInv /\ [Next]_vars => [Once]_vars
  <2> SUFFICES ASSUME IndInv, Next, batch # None, batch' # None,
                      NEW d \in batch'.children \ batch.children, d \in known \cup lost
               PROVE  ChildId(d) \in outcomes
    OBVIOUS
  <2>1. PICK t \in Tasks, n \in {c[2] : c \in Calls} :
               Awaits(t, n) /\ d = <<t, n, Current(t).attempt>>
    BY NewChildren
  <2>2. TypeOK /\ KeptOK /\ HandedOK /\ Entry(t) /\ ~Waits(t)
    BY <2>1 DEF IndInv, Awaits, Sends, Runs
  <2>3. d[1] = t /\ d[2] = n /\ d[3] = Current(t).attempt /\ d \in Handed
    BY <2>1 DEF Handed
  <2>4. d[3] <= made[t] /\ made[t] \in Nat
    BY <2>2, <2>3 DEF HandedOK, TypeOK
  <2>5. coroutine[t] # None
    BY <2>2, <2>3, <2>4, CurrentOK
  <2>6. d[3] = made[t]
    BY <2>2, <2>3, <2>5, CurrentOK DEF KeptOK
  <2>7. d[2] = coroutine[t].pending \/ ChildId(d) \in outcomes
    BY <2>2, <2>3, <2>5, <2>6 DEF HandedOK
  <2>8. n # 0 /\ ChildId(d) = <<t, n>>
    BY <2>3, AdapterAssumption DEF ChildId
  <2> QED
    BY <2>2, <2>3, <2>5, <2>7, <2>8 DEF Waits
<1> QED
  BY Invariance, <1>1, PTL DEF Spec, DescriptorOnce

(* A child that a task waits for is with Core, or on its way there, or was *)
(* in the completions of a batch that was answered by an error.            *)
THEOREM ChildrenAccountedFor == Spec => []ChildAccountedFor
  BY Invariance, PTL DEF IndInv

(* The cancel of an invocation finds the coroutine it ran last, as long as *)
(* no other invocation has run it since.                                   *)
THEOREM LatestCanBeCancelled == Spec => []CancelFindsLatest
  BY Invariance, PTL DEF IndInv

(* A coroutine that waits for a child is left alone until the client has   *)
(* that child's outcome, or it is dropped between two batches.             *)
THEOREM ResumedOnlyByOutcome == Spec => ResumedByOutcome
<1> DEFINE Body ==
      \A t \in Tasks :
         /\ coroutine[t] # None
         /\ coroutine[t].pending # 0
         /\ <<t, coroutine[t].pending>> \notin outcomes
         =>
           \/ batch = None /\ coroutine'[t] = None
           \/ /\ coroutine'[t] # None
              /\ coroutine'[t].pending = coroutine[t].pending
              /\ coroutine'[t].over = coroutine[t].over
<1>1. IndInv /\ [Next]_vars => [Body]_vars
  <2> DEFINE Left(t) == \/ batch = None /\ coroutine'[t] = None
                        \/ /\ coroutine'[t] # None
                           /\ coroutine'[t].pending = coroutine[t].pending
                           /\ coroutine'[t].over = coroutine[t].over
  <2> SUFFICES ASSUME IndInv, Next, NEW t \in Tasks, coroutine[t] # None,
                      coroutine[t].pending # 0, <<t, coroutine[t].pending>> \notin outcomes
               PROVE  Left(t)
    OBVIOUS
  <2>1. TypeOK
    BY DEF IndInv
  <2>2. CASE coroutine' = coroutine
    BY <2>2
  <2>3. ASSUME NEW u \in Tasks, NEW c,
               u # t, coroutine' = [coroutine EXCEPT ![u] = c]
        PROVE  Left(t)
    BY <2>1, <2>3 DEF TypeOK
  <2>4. ASSUME Sends(t) PROVE FALSE
    BY <2>4 DEF Sends, Waits
  <2>5. CASE StillWaiting(t) \/ \E fault \in Faults : ClientRaises(t, fault)
    <3>1. Entry(t) /\ coroutine'[t] = Current(t)
      BY <2>1, <2>5 DEF StillWaiting, ClientRaises, Runs, TypeOK
    <3> QED
      BY <2>1, <3>1, CurrentOK
  <2>6. ASSUME NEW u \in Tasks,
               \/ StillWaiting(u) \/ Ends(u) \/ Reuses(u)
               \/ \E n \in {c[2] : c \in Calls} : Awaits(u, n)
               \/ \E fault \in Faults : ClientRaises(u, fault) \/ Raises(u, fault)
        PROVE  Left(t)
    <3>1. CASE u = t
      BY <2>4, <2>5, <2>6, <3>1 DEF Ends, Reuses, Awaits, Raises
    <3>2. CASE u # t
      <4>1. \E c : coroutine' = [coroutine EXCEPT ![u] = c]
        BY <2>6 DEF StillWaiting, ClientRaises, Ends, Reuses, Awaits, Raises
      <4> QED
        BY <2>3, <3>2, <4>1
    <3> QED
      BY <3>1, <3>2
  <2>7. ASSUME NEW i \in Invocations, Cancel(i) PROVE Left(t)
    <3>1. /\ batch = None /\ invocationTask[i] \in Tasks
          /\ coroutine' = [coroutine EXCEPT ![invocationTask[i]] = None]
      BY <2>1, <2>7 DEF Cancel, TypeOK
    <3>2. CASE invocationTask[i] = t
      BY <2>1, <3>1, <3>2 DEF TypeOK
    <3> QED
      BY <2>3, <3>1, <3>2
  <2>8. CASE Dispose
    BY <2>8 DEF Dispose
  <2> QED
    BY <2>2, <2>6, <2>7, <2>8
    DEF Next, StartBatch, EndBatch, CompletionsUnwritable, CoreCompletes, FactoryRaises
<1> QED
  BY Invariance, <1>1, PTL DEF Spec, ResumedByOutcome

(* A step that only drops coroutines and names leaves what is named alone. *)
LEMMA DropsNames ==
  ASSUME TypeOK, TypeOK', NEW i \in Invocations, invocationTask'[i] # None,
         invocationTask'[i] = invocationTask[i],
         \A t \in Tasks : coroutine'[t] \in {coroutine[t], None}
  PROVE  LET t == invocationTask'[i]
         IN  /\ t = invocationTask[i]
             /\ coroutine[t] # None /\ coroutine'[t] # None
             /\ coroutine'[t].attempt = coroutine[t].attempt
<1>1. invocationTask[i] \in Tasks /\ coroutine[invocationTask[i]] # None
  BY DEF TypeOK
<1>2. coroutine'[invocationTask'[i]] # None
  BY DEF TypeOK
<1> QED
  BY <1>1, <1>2

(* Every name in the index is that of a coroutine its invocation has run,  *)
(* with batches of any size: neither a coroutine that ends, nor one that   *)
(* is dropped and made anew, leaves a name behind for a cancel to follow.  *)
THEOREM NamesAreEarned == Spec => NamedByItsRuns
<1> DEFINE Earned(i) ==
      LET t == invocationTask'[i]
      IN  t # None =>
            /\ coroutine'[t] # None
            /\ \/ coroutine'[t].under = i
               \/ /\ t = invocationTask[i] /\ coroutine[t] # None
                  /\ coroutine'[t].attempt = coroutine[t].attempt
<1>1. ASSUME IndInv, IndInv', Next, NEW i \in Invocations PROVE Earned(i)
  <2> SUFFICES ASSUME invocationTask'[i] # None PROVE Earned(i)
    OBVIOUS
  <2>1. TypeOK /\ TypeOK'
    BY <1>1 DEF IndInv
  <2>2. CASE /\ invocationTask'[i] = invocationTask[i]
             /\ \A t \in Tasks : coroutine'[t] \in {coroutine[t], None}
    BY <2>1, <2>2, DropsNames
  <2>3. CASE UNCHANGED <<coroutine, invocationTask>>
    BY <2>2, <2>3
  <2>4. ASSUME NEW t \in Tasks, NEW c, NEW new, Keeps(t, c, new) PROVE Earned(i)
    <3>1. /\ Entry(t) /\ c \in Coroutines /\ c.attempt = Current(t).attempt
          /\ c.under = batch.invocation /\ invocationTask' = Tracked(t) /\ Runs(t)
      BY <2>4 DEF Keeps, Runs
    <3>2. c # None
      BY <3>1, KeptIsSome
    <3>3. coroutine'[t] = c /\ \A u \in Tasks \ {t} : coroutine'[u] = coroutine[u]
      BY <2>1, <2>4 DEF Keeps, TypeOK
    <3>4. CASE i = batch.invocation /\ i # Unnamed
      BY <2>1, <3>1, <3>2, <3>3, <3>4, TrackedOK
    <3>5. CASE ~(i = batch.invocation /\ i # Unnamed)
      <4>1. /\ invocationTask'[i] = invocationTask[i] /\ invocationTask[i] \in Tasks
            /\ coroutine[invocationTask[i]] # None
        BY <2>1, <3>1, <3>5, TrackedOK DEF TypeOK
      <4>2. coroutine[t] # None => c.attempt = coroutine[t].attempt
        BY <2>1, <3>1, CurrentOK
      <4> QED
        BY <3>1, <3>2, <3>3, <4>1, <4>2
    <3> QED
      BY <3>4, <3>5
  <2>5. ASSUME NEW t \in Tasks, Ends(t) PROVE Earned(i)
    <3>1. /\ Runs(t) /\ coroutine' = [coroutine EXCEPT ![t] = None]
          /\ invocationTask' = Forgotten(t, Tracked(t))
      BY <2>5 DEF Ends, Sends
    <3>2. invocationTask'[i] = Tracked(t)[i] /\ Tracked(t)[i] # t
      BY <3>1 DEF Forgotten
    <3>3. Tracked(t)[i] = invocationTask[i]
      BY <2>1, <3>1, <3>2, TrackedOK
    <3> QED
      BY <2>1, <2>2, <3>1, <3>2, <3>3 DEF TypeOK
  <2>6. ASSUME NEW j \in Invocations, Cancel(j) PROVE Earned(i)
    <3>1. /\ invocationTask[j] \in Tasks
          /\ coroutine' = [coroutine EXCEPT ![invocationTask[j]] = None]
          /\ invocationTask' = Forgotten(invocationTask[j], invocationTask)
      BY <2>1, <2>6 DEF Cancel, TypeOK
    <3>2. invocationTask'[i] = invocationTask[i]
      BY <3>1 DEF Forgotten
    <3> QED
      BY <2>1, <2>2, <3>1, <3>2 DEF TypeOK
  <2>7. CASE Dispose
    BY <2>7 DEF Dispose
  <2>8. CASE \/ EndBatch \/ CompletionsUnwritable
             \/ \E c \in Calls : CoreCompletes(c)
             \/ \E t \in Tasks : \E fault \in Faults : FactoryRaises(t, fault)
    BY <2>3, <2>8 DEF EndBatch, CompletionsUnwritable, CoreCompletes, FactoryRaises
  <2>9. CASE \E j \in Invocations, entries \in Entries : StartBatch(j, entries)
    BY <2>3, <2>9 DEF StartBatch
  <2>10. CASE \E t \in Tasks : KeepsCoroutine(t)
    BY <1>1, <2>4, <2>10, EntryKeeps
  <2> QED
    BY <1>1, <2>5, <2>6, <2>7, <2>8, <2>9, <2>10 DEF Next, KeepsCoroutine
<1>2. IndInv /\ IndInv' /\ [Next]_vars => [\A i \in Invocations : Earned(i)]_vars
  BY <1>1
<1> QED
  BY <1>2, Invariance, PTL DEF NamedByItsRuns, Spec
=============================================================================
