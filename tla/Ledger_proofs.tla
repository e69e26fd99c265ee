--------------------------- MODULE Ledger_proofs ---------------------------
(***************************************************************************)
(* A journey's history, for any records, any number of requests and any    *)
(* number of events: its chain is never broken, and it tells every change  *)
(* once.  Both rest on what the journey's lock gives: only its holder has  *)
(* read the last event, and nothing has been appended since.               *)
(***************************************************************************)
EXTENDS Ledger, SequenceTheorems, TLAPS

\* The lock has one holder.
OneHolder == \A s, t \in Slot : Step(s, "locked") /\ Step(t, "locked") => s = t

\* What its holder has read is still the last event.
ReadLast == \A s \in Slot : Step(s, "locked") => requests[s].last = Len(events)

\* A request under way is about a record.
AboutRecord == \A s \in Slot : requests[s].step # "idle" => requests[s].record \in Record

IInv == TypeOK /\ OneHolder /\ ReadLast /\ AboutRecord /\ ChainUnbroken

-----------------------------------------------------------------------------
\* What is read of a request that is about a record has its type.
LEMMA RequestType ==
  ASSUME TypeOK, NEW s \in Slot
  PROVE  /\ requests[s] \in Requests
         /\ requests[s].base \in Nat /\ requests[s].last \in Nat
         /\ Following(requests[s]) \in Nat
  BY DEF TypeOK, Requests, Following

\* A journey with its settings only satisfies the invariant.
LEMMA InitInvariant == Init => IInv
<1> SUFFICES ASSUME Init PROVE IInv
  OBVIOUS
<1>1. TypeOK
  <2>1. rows \in [Record -> Nat]
    BY DEF Init
  <2>2. events \in Seq(Events)
    BY DEF Init
  <2>3. requests \in [Slot -> Requests]
    BY DEF Init, Idle, Requests
  <2> QED
    BY <2>1, <2>2, <2>3 DEF TypeOK
<1>2. \A s \in Slot : requests[s].step = "idle"
  BY DEF Init, Idle
<1>3. ChainUnbroken
  BY DEF Init, ChainUnbroken
<1> QED
  BY <1>1, <1>2, <1>3 DEF IInv, OneHolder, ReadLast, AboutRecord, Step

\* A request that asks takes no lock and writes nothing.
LEMMA AskInvariant ==
  ASSUME IInv, NEW s \in Slot, NEW r \in Record, NEW k \in Kinds(r), NEW v \in Versions(r, k),
         Ask(s, r, k, v)
  PROVE  IInv'
<1> DEFINE asked == [step |-> "asked", kind |-> k, record |-> r, version |-> v,
                     base |-> rows[r], last |-> 0]
<1>1. requests' = [requests EXCEPT ![s] = asked] /\ UNCHANGED <<rows, events>>
  BY DEF Ask
<1>2. asked \in Requests
  <2>1. rows[r] \in Nat /\ k \in {"create", "update", "remove", "set", "note"}
    BY DEF IInv, TypeOK, Kinds
  <2>2. v \in Nat
    BY <2>1 DEF Versions
  <2> QED
    BY <2>1, <2>2 DEF Requests
<1>3. TypeOK'
  BY <1>1, <1>2 DEF IInv, TypeOK
<1>4. \A t \in Slot : requests'[t] = IF t = s THEN asked ELSE requests[t]
  BY <1>1 DEF IInv, TypeOK
<1>5. asked.step = "asked" /\ asked.record = r
  OBVIOUS
<1> HIDE DEF asked
<1>6. OneHolder'
  BY <1>4, <1>5 DEF IInv, OneHolder, Step
<1>7. ReadLast'
  BY <1>1, <1>4, <1>5 DEF IInv, ReadLast, Step
<1>8. AboutRecord'
  BY <1>4, <1>5 DEF IInv, AboutRecord
<1>9. ChainUnbroken'
  BY <1>1 DEF IInv, ChainUnbroken
<1> QED
  BY <1>3, <1>6, <1>7, <1>8, <1>9 DEF IInv

\* The one that gets the lock is its only holder, and has read the last event.
LEMMA LockInvariant ==
  ASSUME IInv, NEW s \in Slot, Lock(s)
  PROVE  IInv'
<1> DEFINE request == requests[s]
           base == IF request.kind = "update" /\ request.record \in Settings
                   THEN request.base ELSE rows[request.record]
           locked == [request EXCEPT !.step = "locked", !.last = Len(events), !.base = base]
<1>1. /\ requests' = [requests EXCEPT ![s] = locked] /\ UNCHANGED <<rows, events>>
      /\ request.step = "asked" /\ \A t \in Slot \ {s} : ~Step(t, "locked")
  BY DEF Lock, Step, Holds
<1>2. request \in Requests /\ request.record \in Record
  BY <1>1 DEF IInv, TypeOK, AboutRecord
<1>3. base \in Nat /\ Len(events) \in Nat
  BY <1>2 DEF IInv, TypeOK, Requests
<1>4. /\ locked \in Requests
      /\ locked.step = "locked" /\ locked.last = Len(events) /\ locked.record = request.record
  <2> HIDE DEF base
  <2> QED
    BY <1>2, <1>3 DEF Requests
<1> HIDE DEF locked
<1>5. TypeOK'
  BY <1>1, <1>4 DEF IInv, TypeOK
<1>6. \A t \in Slot : requests'[t] = IF t = s THEN locked ELSE requests[t]
  BY <1>1 DEF IInv, TypeOK
<1>7. OneHolder'
  BY <1>1, <1>6 DEF OneHolder, Step
<1>8. ReadLast'
  BY <1>1, <1>4, <1>6 DEF IInv, ReadLast, Step
<1>9. AboutRecord'
  BY <1>2, <1>4, <1>6 DEF IInv, AboutRecord
<1>10. ChainUnbroken'
  BY <1>1 DEF IInv, ChainUnbroken
<1> QED
  BY <1>5, <1>7, <1>8, <1>9, <1>10 DEF IInv

\* A request that ends holds no lock.
LEMMA DoneHoldsNothing ==
  ASSUME TypeOK, NEW s \in Slot, Done(s)
  PROVE  /\ requests' \in [Slot -> Requests]
         /\ \A t \in Slot : requests'[t] = IF t = s THEN Idle ELSE requests[t]
         /\ Idle.step = "idle"
<1>1. Idle \in Requests /\ Idle.step = "idle"
  BY DEF Idle, Requests
<1> QED
  BY <1>1 DEF Done, TypeOK

\* A change appends the event after the last one, and gives the lock up.
LEMMA WriteInvariant ==
  ASSUME IInv, NEW s \in Slot, Write(s)
  PROVE  IInv'
<1> DEFINE request == requests[s]
           event == [sequence |-> request.last + 1, previous |-> request.last,
                     record |-> request.record, before |-> request.base,
                     after |-> Following(request)]
<1>1. /\ Step(s, "locked") /\ Done(s)
      /\ rows' = [rows EXCEPT ![request.record] = Following(request)]
      /\ events' = Append(events, event)
  BY DEF Write, Appended
<1>2. /\ request.last = Len(events) /\ request.record \in Record
      /\ request.base \in Nat /\ Following(request) \in Nat
  <2>1. request.last = Len(events)
    BY <1>1 DEF IInv, ReadLast
  <2>2. request.record \in Record
    BY <1>1 DEF IInv, AboutRecord, Step
  <2>3. request.base \in Nat /\ Following(request) \in Nat
    BY RequestType DEF IInv
  <2> QED
    BY <2>1, <2>2, <2>3
<1>3. events \in Seq(Events) /\ Len(events) \in Nat
  BY DEF IInv, TypeOK
<1>4. event \in Events /\ event.sequence = Len(events) + 1 /\ event.previous = Len(events)
  <2> HIDE DEF request
  <2> QED
    BY <1>2, <1>3 DEF Events
<1> HIDE DEF event
<1>5. TypeOK'
  <2>1. rows' \in [Record -> Nat]
    BY <1>1, <1>2 DEF IInv, TypeOK
  <2>2. events' \in Seq(Events)
    BY <1>1, <1>3, <1>4
  <2>3. requests' \in [Slot -> Requests]
    BY <1>1, DoneHoldsNothing DEF IInv
  <2> QED
    BY <2>1, <2>2, <2>3 DEF TypeOK
<1>6. \A t \in Slot : ~Step(t, "locked")'
  BY <1>1, DoneHoldsNothing DEF IInv, OneHolder, Step
<1>7. AboutRecord'
  BY <1>1, DoneHoldsNothing DEF IInv, AboutRecord
<1>8. ChainUnbroken'
  <2> SUFFICES ASSUME NEW k \in DOMAIN events'
               PROVE  events'[k].sequence = k /\ events'[k].previous = k - 1
    BY DEF ChainUnbroken
  <2>1. k \in 1 .. Len(events) + 1
    BY <1>1, <1>3, <1>4
  <2>2. CASE k = Len(events) + 1
    BY <2>2, <1>1, <1>3, <1>4
  <2>3. CASE k \in 1 .. Len(events)
    <3>1. events'[k] = events[k] /\ k \in DOMAIN events
      BY <2>3, <1>1, <1>3
    <3> QED
      BY <3>1 DEF IInv, ChainUnbroken
  <2> QED
    BY <2>1, <2>2, <2>3, <1>3
<1> QED
  BY <1>5, <1>6, <1>7, <1>8 DEF IInv, OneHolder, ReadLast

\* A request refused writes nothing, and gives up the lock it may have.
LEMMA RefuseInvariant ==
  ASSUME IInv, NEW s \in Slot, Refuse(s)
  PROVE  IInv'
<1>1. Done(s) /\ UNCHANGED <<rows, events>>
  BY DEF Refuse
<1>2. /\ requests' \in [Slot -> Requests]
      /\ \A t \in Slot : requests'[t] = IF t = s THEN Idle ELSE requests[t]
      /\ Idle.step = "idle"
  BY <1>1, DoneHoldsNothing DEF IInv
<1>3. TypeOK'
  BY <1>1, <1>2 DEF IInv, TypeOK
<1>4. OneHolder' /\ AboutRecord'
  BY <1>2 DEF IInv, OneHolder, AboutRecord, Step
<1>5. ReadLast'
  BY <1>1, <1>2 DEF IInv, ReadLast, Step
<1>6. ChainUnbroken'
  BY <1>1 DEF IInv, ChainUnbroken
<1> QED
  BY <1>3, <1>4, <1>5, <1>6 DEF IInv

LEMMA NextInvariant == IInv /\ [Next]_vars => IInv'
<1> SUFFICES ASSUME IInv, [Next]_vars PROVE IInv'
  OBVIOUS
<1>1. ASSUME NEW s \in Slot, NEW r \in Record, NEW k \in Kinds(r), NEW v \in Versions(r, k),
             Ask(s, r, k, v)
      PROVE  IInv'
  BY <1>1, AskInvariant
<1>2. ASSUME NEW s \in Slot, Lock(s) PROVE IInv'
  BY <1>2, LockInvariant
<1>3. ASSUME NEW s \in Slot, Write(s) PROVE IInv'
  BY <1>3, WriteInvariant
<1>4. ASSUME NEW s \in Slot, Refuse(s) PROVE IInv'
  BY <1>4, RefuseInvariant
<1>5. CASE UNCHANGED vars
  BY <1>5 DEF vars, IInv, TypeOK, OneHolder, ReadLast, AboutRecord, ChainUnbroken, Step
<1> QED
  BY <1>1, <1>2, <1>3, <1>4, <1>5 DEF Next

\* The invariant of every state of a journey's ledger.
THEOREM Invariance == Spec => []IInv
<1> QED
  BY InitInvariant, NextInvariant, PTL DEF Spec

-----------------------------------------------------------------------------
\* Every row, event and request keeps its shape, however many there are.
THEOREM LedgerTypes == Spec => []TypeOK
<1>1. IInv => TypeOK
  BY DEF IInv
<1> QED
  BY <1>1, Invariance, PTL

\* The events of a journey are numbered without a gap, each after the one before it, however many
\* requests append at once (appendEvent under lockJourney).
THEOREM ChainHolds == Spec => []ChainUnbroken
<1>1. IInv => ChainUnbroken
  BY DEF IInv
<1> QED
  BY <1>1, Invariance, PTL

-----------------------------------------------------------------------------
\* What the history tells of the events.
Log(es) ==
  [k \in DOMAIN es |-> [record |-> es[k].record, before |-> es[k].before, after |-> es[k].after]]

Tells == [record : Record, before : Nat, after : Nat]

\* One event more, one thing more told, after all the others.
LEMMA LogAppends ==
  ASSUME NEW es \in Seq(Events), NEW e \in Events
  PROVE  Log(Append(es, e)) =
           Append(Log(es), [record |-> e.record, before |-> e.before, after |-> e.after])
<1> DEFINE Tell(f) == [record |-> f.record, before |-> f.before, after |-> f.after]
           n == Len(es)
<1>1. n \in Nat /\ DOMAIN es = 1 .. n /\ \A k \in 1 .. n : es[k] \in Events
  OBVIOUS
<1>2. \A f \in Events : Tell(f) \in Tells
  BY DEF Events, Tells
<1>3. Log(es) = [k \in 1 .. n |-> Tell(es[k])]
  BY <1>1 DEF Log
<1>4. DOMAIN Append(es, e) = 1 .. n + 1 /\ Append(es, e)[n + 1] = e
      /\ \A k \in 1 .. n : Append(es, e)[k] = es[k]
  BY <1>1
<1>5. Log(Append(es, e)) = [k \in 1 .. n + 1 |-> Tell(Append(es, e)[k])]
  BY <1>4 DEF Log
<1> HIDE DEF Tell
<1>6. Log(es) \in Seq(Tells) /\ Len(Log(es)) = n
  BY <1>1, <1>2, <1>3
<1>7. Tell(e) \in Tells
  BY <1>2
<1>8. /\ DOMAIN Append(Log(es), Tell(e)) = 1 .. n + 1
      /\ Append(Log(es), Tell(e))[n + 1] = Tell(e)
      /\ \A k \in 1 .. n : Append(Log(es), Tell(e))[k] = Tell(es[k])
  BY <1>1, <1>3, <1>6, <1>7
<1>9. /\ Append(Log(es), Tell(e)) \in Seq(Tells)
      /\ Len(Append(Log(es), Tell(e))) = n + 1
  BY <1>6, <1>7
<1>10. /\ Log(Append(es, e)) \in Seq(Tells)
       /\ Len(Log(Append(es, e))) = n + 1
  BY <1>1, <1>2, <1>4, <1>5
<1>11. \A k \in 1 .. n + 1 : Log(Append(es, e))[k] = Append(Log(es), Tell(e))[k]
  BY <1>1, <1>4, <1>5, <1>8
<1>12. Log(Append(es, e)) = Append(Log(es), Tell(e))
  BY <1>9, <1>10, <1>11, SeqEqual
<1> QED
  BY <1>12 DEF Tell

\* A change happens to its record, and to no other, as the event it appends says.
LEMMA WriteTells ==
  ASSUME IInv, NEW s \in Slot, Write(s)
  PROVE  Told!Next
<1> DEFINE request == requests[s]
           event == [sequence |-> request.last + 1, previous |-> request.last,
                     record |-> request.record, before |-> request.base,
                     after |-> Following(request)]
<1>1. /\ Step(s, "locked") /\ Unmoved(request)
      /\ rows' = [rows EXCEPT ![request.record] = Following(request)]
      /\ events' = Append(events, event)
  BY DEF Write, Appended
<1>2. request.record \in Record
  BY <1>1 DEF IInv, AboutRecord, Step
<1>3. /\ request.base = rows[request.record]
      /\ Following(request) \in {0, rows[request.record] + 1}
  BY <1>1 DEF Unmoved, Following
<1>4. event \in Events /\ events \in Seq(Events)
  BY <1>2, RequestType DEF IInv, TypeOK, Events
<1>5. Log(events') =
        Append(Log(events), [record |-> request.record, before |-> rows[request.record],
                             after |-> Following(request)])
  BY <1>1, <1>3, <1>4, LogAppends
<1> HIDE DEF request, event
<1>6. \E r \in Record : \E v \in {0, rows[r] + 1} :
        /\ Log(events') = Append(Log(events), [record |-> r, before |-> rows[r], after |-> v])
        /\ rows' = [rows EXCEPT ![r] = v]
  BY <1>1, <1>2, <1>3, <1>5
<1> QED
  BY <1>6 DEF Told!Next, Told!Happens, Log

\* The ledger implements the history it promises (History): every change of a record is told once,
\* in order, with what was there just before it, whoever else was writing.
THEOREM TellsAll == Spec => TellsEverything
<1>1. Init => Told!Init
  BY DEF Init, Told!Init
<1>2. IInv /\ [Next]_vars => [Told!Next]_Told!vars
  <2> SUFFICES ASSUME IInv, [Next]_vars PROVE [Told!Next]_Told!vars
    OBVIOUS
  <2>1. ASSUME NEW s \in Slot, Write(s) PROVE Told!Next
    BY <2>1, WriteTells
  <2>2. CASE UNCHANGED <<rows, events>>
    BY <2>2 DEF Told!vars
  <2> QED
    BY <2>1, <2>2 DEF Next, Ask, Lock, Refuse, vars
<1> QED
  BY <1>1, <1>2, Invariance, PTL DEF Spec, TellsEverything, Told!Spec
=============================================================================
