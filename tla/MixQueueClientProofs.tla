------------------------ MODULE MixQueueClientProofs ------------------------
(***************************************************************************)
(* What is proved of MixQueueClient for all processes, subscribers and     *)
(* messages, batches of any size, and any number of failures and crashes.  *)
(***************************************************************************)
EXTENDS MixQueueClient, FiniteSetTheorems, SequenceTheorems, TLAPS

-----------------------------------------------------------------------------
(* What is in a queue                                                       *)

LEMMA ElementAt == ASSUME NEW q \in Seq(Items), NEW k \in 1 .. Len(q) PROVE q[k] \in Elements(q)
  BY DEF Elements

\* At the end of a queue.
LEMMA ElementsOfAppend ==
    ASSUME NEW q \in Seq(Items), NEW i \in Items
    PROVE  /\ Append(q, i) \in Seq(Items)
           /\ \A x \in Elements(q) : x \in Elements(Append(q, i))
           /\ i \in Elements(Append(q, i))
  <1>1. /\ Append(q, i) \in Seq(Items) /\ Len(Append(q, i)) = Len(q) + 1
        /\ \A k \in 1 .. Len(q) : Append(q, i)[k] = q[k]
        /\ Append(q, i)[Len(q) + 1] = i
    OBVIOUS
  <1> QED BY <1>1 DEF Elements

\* Several at the end of a queue.
LEMMA ElementsOfConcat ==
    ASSUME NEW q \in Seq(Items), NEW r \in Seq(Items)
    PROVE  q \o r \in Seq(Items) /\ \A x \in Elements(q) : x \in Elements(q \o r)
  <1>1. /\ q \o r \in Seq(Items) /\ Len(q \o r) = Len(q) + Len(r)
        /\ \A k \in 1 .. Len(q) : (q \o r)[k] = q[k]
    OBVIOUS
  <1> QED BY <1>1 DEF Elements

\* A queue and the first of it.
LEMMA ElementsOfTail ==
    ASSUME NEW q \in Seq(Items), q # <<>>
    PROVE  /\ Head(q) \in Items /\ Tail(q) \in Seq(Items) /\ Len(Tail(q)) = Len(q) - 1
           /\ \A x \in Elements(q) : x = Head(q) \/ x \in Elements(Tail(q))
  <1>1. /\ Head(q) = q[1] /\ Head(q) \in Items /\ Len(q) \in Nat /\ Len(q) > 0
        /\ Tail(q) \in Seq(Items) /\ Len(Tail(q)) = Len(q) - 1
        /\ \A k \in 1 .. Len(q) - 1 : Tail(q)[k] = q[k + 1]
    OBVIOUS
  <1>2. ASSUME NEW k \in 1 .. Len(q), k # 1 PROVE q[k] \in Elements(Tail(q))
    <2>1. k - 1 \in 1 .. Len(q) - 1 /\ Tail(q)[k - 1] = q[k]
      BY <1>1, <1>2
    <2>2. Tail(q)[k - 1] \in Elements(Tail(q))
      BY <1>1, <2>1, ElementAt
    <2> QED BY <2>1, <2>2
  <1> QED BY <1>1, <1>2 DEF Elements

\* A queue cut in two.
LEMMA ElementsOfCut ==
    ASSUME NEW q \in Seq(Items), NEW n \in 0 .. Len(q)
    PROVE  /\ SubSeq(q, 1, n) \in Seq(Items) /\ Len(SubSeq(q, 1, n)) = n
           /\ SubSeq(q, n + 1, Len(q)) \in Seq(Items)
           /\ \A x \in Elements(q) :
                x \in Elements(SubSeq(q, 1, n)) \/ x \in Elements(SubSeq(q, n + 1, Len(q)))
  <1>1. /\ SubSeq(q, 1, n) \in Seq(Items) /\ Len(SubSeq(q, 1, n)) = n
        /\ \A k \in 1..n : SubSeq(q, 1, n)[k] = q[k]
    OBVIOUS
  <1>2. /\ SubSeq(q, n + 1, Len(q)) \in Seq(Items) /\ Len(SubSeq(q, n + 1, Len(q))) = Len(q) - n
        /\ \A k \in 1 .. Len(q) - n : SubSeq(q, n + 1, Len(q))[k] = q[n + k]
    OBVIOUS
  <1>3. ASSUME NEW k \in 1..n PROVE q[k] \in Elements(SubSeq(q, 1, n))
    <2>1. SubSeq(q, 1, n)[k] \in Elements(SubSeq(q, 1, n))
      BY <1>1, ElementAt
    <2> QED BY <1>1, <2>1
  <1>4. ASSUME NEW k \in n + 1 .. Len(q) PROVE q[k] \in Elements(SubSeq(q, n + 1, Len(q)))
    <2>1. k - n \in 1 .. Len(q) - n /\ SubSeq(q, n + 1, Len(q))[k - n] = q[k]
      BY <1>2
    <2>2. SubSeq(q, n + 1, Len(q))[k - n] \in Elements(SubSeq(q, n + 1, Len(q)))
      BY <1>2, <2>1, ElementAt
    <2> QED BY <2>1, <2>2
  <1>5. \A k \in 1 .. Len(q) : k \in 1..n \/ k \in n + 1 .. Len(q)
    OBVIOUS
  <1>6. \A x \in Elements(q) : \E k \in 1 .. Len(q) : x = q[k]
    BY DEF Elements
  <1> QED BY <1>1, <1>2, <1>3, <1>4, <1>5, <1>6

\* A batch and what is left.
LEMMA Batches ==
    ASSUME NEW q \in Seq(Items)
    PROVE  /\ Oldest(q) \in Seq(Items) /\ Len(Oldest(q)) <= MaxBatch
           /\ Rest(q) \in Seq(Items)
           /\ \A x \in Elements(q) : x \in Elements(Oldest(q)) \/ x \in Elements(Rest(q))
  <1> DEFINE n == IF Len(q) < MaxBatch THEN Len(q) ELSE MaxBatch
  <1>1. n \in 0 .. Len(q) /\ n <= MaxBatch
    BY ClientAssumption
  <1> HIDE DEF n
  <1>2. Oldest(q) = SubSeq(q, 1, n)
    BY DEF Oldest, n
  <1>3. Len(Oldest(q)) = n
    BY <1>1, <1>2, ElementsOfCut
  <1>4. Rest(q) = SubSeq(q, n + 1, Len(q))
    BY <1>3 DEF Rest
  <1> QED BY <1>1, <1>2, <1>3, <1>4, ElementsOfCut

\* Every element is an item.
LEMMA ElementsAreItems == ASSUME NEW q \in Seq(Items) PROVE Elements(q) \subseteq Items
  BY DEF Elements

LEMMA ItemsMade ==
    /\ \A m \in Msgs, f \in Procs \cup Subs, a \in {"work", "enqueue", "ack", "deadletter", "failed"} :
         Item(a, m, f) \in Items /\ Item(a, m, f).msg = m
    /\ \A i \in Items : i.msg \in Msgs
  BY DEF Item, Items

-----------------------------------------------------------------------------
(* Crashes                                                                  *)

\* What a crash loses: in the queues of the process, of the reports yet to be made, and on
\* the way to its subscribers.
GoneFromQueues(p) ==
    UNION {Elements(memory[q]) \cup Elements(sending[q]) : q \in {p} \X {"app", "log"}}
GoneUnlogged == {Item("enqueue", m, Home[m]) : m \in unlogged \ unlogged'}
GoneOnTheWay(read) == UNION {Elements(SubSeq(inbox[s], 1, read[s])) : s \in Subs}

\* A crash in which the first read[s] messages for s are gone.
CrashAs(p, read) ==
    /\ \A s \in Subs : read[s] \in 0 .. Len(inbox[s])
    /\ memory' = [q \in Queues |-> IF q \in {p} \X {"app", "log"} THEN <<>> ELSE memory[q]]
    /\ sending' = [q \in Queues |-> IF q \in {p} \X {"app", "log"} THEN <<>> ELSE sending[q]]
    /\ unlogged' = {m \in unlogged : Home[m] # p}
    /\ handling' = [s \in Subs |-> IF ProcOf[s] = p THEN Idle ELSE handling[s]]
    /\ inbox' = [s \in Subs \cup {Logger} |->
                   IF s \in Subs THEN SubSeq(inbox[s], read[s] + 1, Len(inbox[s])) ELSE inbox[s]]
    /\ dropped' = dropped \cup GoneFromQueues(p) \cup GoneUnlogged \cup GoneOnTheWay(read)
    /\ crashes < MaxCrashes /\ crashes' = crashes + 1
    /\ UNCHANGED <<row, failures, pushed, got, late, unmatched>>

LEMMA CrashParts ==
    ASSUME TypeOK, NEW p \in Procs, Crash(p)
    PROVE  \E read \in [Subs -> 0..Cardinality(Msgs)] : CrashAs(p, read)
  <1>1. DOMAIN inbox = Subs \cup {Logger} /\ \A s \in Subs : Len(inbox[s]) \in Nat
    BY DEF TypeOK
  <1>2. \A read \in [Subs -> 0..Cardinality(Msgs)], s \in Subs : read[s] \in Int /\ read[s] >= 0
    OBVIOUS
  <1>3. PICK read \in [Subs -> 0..Cardinality(Msgs)] :
             /\ \A s \in Subs : read[s] <= IF ProcOf[s] = p THEN Len(inbox[s]) ELSE 0
             /\ inbox' = [s \in DOMAIN inbox |-> IF s \in Subs
                            THEN SubSeq(inbox[s], read[s] + 1, Len(inbox[s])) ELSE inbox[s]]
             /\ dropped' = dropped \cup GoneFromQueues(p) \cup GoneUnlogged \cup GoneOnTheWay(read)
    BY DEF Crash, GoneFromQueues, GoneUnlogged, GoneOnTheWay
  <1>4. \A s \in Subs : read[s] \in 0 .. Len(inbox[s])
    BY <1>1, <1>2, <1>3
  <1>5. /\ memory' = [q \in Queues |-> IF q \in {p} \X {"app", "log"} THEN <<>> ELSE memory[q]]
        /\ sending' = [q \in Queues |-> IF q \in {p} \X {"app", "log"} THEN <<>> ELSE sending[q]]
        /\ unlogged' = {m \in unlogged : Home[m] # p}
        /\ handling' = [s \in Subs |-> IF ProcOf[s] = p THEN Idle ELSE handling[s]]
        /\ crashes < MaxCrashes /\ crashes' = crashes + 1
        /\ UNCHANGED <<row, failures, pushed, got, late, unmatched>>
    BY DEF Crash
  <1> QED BY <1>1, <1>3, <1>4, <1>5 DEF CrashAs

-----------------------------------------------------------------------------
(* Types                                                                    *)

LEMMA TypeInit == Init => TypeOK
  <1> SUFFICES ASSUME Init PROVE TypeOK
    OBVIOUS
  <1>1. <<>> \in Seq(Items) /\ Len(<<>>) = 0 /\ <<>> \in Seq(Msgs)
    OBVIOUS
  <1> QED BY <1>1, ClientAssumption DEF Init, TypeOK

LEMMA TypeNext == TypeOK /\ [Next]_vars => TypeOK'
  <1> SUFFICES ASSUME TypeOK, [Next]_vars PROVE TypeOK'
    OBVIOUS
  <1> USE DEF TypeOK
  <1>q. /\ \A m \in Msgs, t \in {"app", "log"} : <<Home[m], t>> \in Queues
        /\ \A s \in Subs, t \in {"app", "log"} : <<ProcOf[s], t>> \in Queues
    BY ClientAssumption DEF Queues
  <1>1. ASSUME NEW m \in Msgs, Push(m) PROVE TypeOK'
    <2>1. Item("work", m, Home[m]) \in Items
      BY ItemsMade, ClientAssumption
    <2>2. Append(memory[<<Home[m], "app">>], Item("work", m, Home[m])) \in Seq(Items)
      BY <2>1, <1>q, ElementsOfAppend
    <2>3. Append(pushed, m) \in Seq(Msgs)
      OBVIOUS
    <2> QED BY <1>1, <2>2, <2>3 DEF Push
  <1>2. ASSUME NEW m \in Msgs, EnqueueLog(m) PROVE TypeOK'
    <2>1. Item("enqueue", m, Home[m]) \in Items
      BY ItemsMade, ClientAssumption
    <2>2. Append(memory[<<Home[m], "log">>], Item("enqueue", m, Home[m])) \in Seq(Items)
      BY <2>1, <1>q, ElementsOfAppend
    <2> QED BY <1>2, <2>2 DEF EnqueueLog
  <1>3. ASSUME NEW q \in Queues, Take(q) PROVE TypeOK'
    BY <1>3, Batches DEF Take
  <1>4. ASSUME NEW q \in Queues, Send(q) PROVE TypeOK'
    <2>1. /\ Head(sending[q]) \in Items /\ Tail(sending[q]) \in Seq(Items)
          /\ Len(Tail(sending[q])) <= MaxBatch
      BY <1>4, ElementsOfTail, ClientAssumption DEF Send
    <2>2. \A s \in Subs \cup {Logger} : Append(inbox[s], Head(sending[q])) \in Seq(Items)
      BY <2>1, ElementsOfAppend
    <2> QED BY <1>4, <2>1, <2>2 DEF Send
  <1>5. ASSUME NEW q \in Queues, SendFails(q) PROVE TypeOK'
    <2>1. /\ Head(sending[q]) \in Items /\ Tail(sending[q]) \in Seq(Items)
          /\ Len(Tail(sending[q])) <= MaxBatch
      BY <1>5, ElementsOfTail, ClientAssumption DEF SendFails
    <2> QED BY <1>5, <2>1, ClientAssumption DEF SendFails
  <1>6. ASSUME NEW s \in Subs, Receive(s) PROVE TypeOK'
    <2>1. Head(inbox[s]) \in Items /\ Tail(inbox[s]) \in Seq(Items)
      BY <1>6, ElementsOfTail DEF Receive
    <2>2. Head(inbox[s]).msg \in Msgs
      BY <2>1, ItemsMade
    <2>3. Item("ack", Head(inbox[s]).msg, s) \in Items
      BY <2>2, ItemsMade
    <2>4. Append(memory[<<ProcOf[s], "log">>], Item("ack", Head(inbox[s]).msg, s)) \in Seq(Items)
      BY <2>3, <1>q, ElementsOfAppend
    <2>5. /\ memory' \in [Queues -> Seq(Items)] /\ inbox' \in [Subs \cup {Logger} -> Seq(Items)]
          /\ UNCHANGED <<sending, unlogged, row, failures, crashes, pushed, dropped, unmatched>>
      BY <1>6, <2>1, <2>4, <1>q DEF Receive
    <2>6. /\ handling' \in [Subs -> Msgs \cup {Idle}] /\ got' \in [Subs -> SUBSET Msgs]
          /\ late' \subseteq Msgs \X Subs
      BY <1>6, <2>2 DEF Receive
    <2> QED BY <2>5, <2>6
  <1>7. ASSUME NEW s \in Subs, NEW r \in Seq(Items), Return(s, r) PROVE TypeOK'
    <2>1. memory[<<ProcOf[s], "log">>] \o r \in Seq(Items)
      BY <1>q, ElementsOfConcat
    <2> QED BY <1>7, <2>1 DEF Return
  <1>8. ASSUME Log PROVE TypeOK'
    <2>1. Head(inbox[Logger]) \in Items /\ Tail(inbox[Logger]) \in Seq(Items)
      BY <1>8, ElementsOfTail DEF Log
    <2>2. Head(inbox[Logger]).msg \in Msgs /\ Head(inbox[Logger]).from \in Procs \cup Subs
      BY <2>1 DEF Items
    <2>3. \A a : \A st \in {"none", "NACK", "ACK", "DEADLETTER"} :
             StateAfter(st, a) \in {"none", "NACK", "ACK", "DEADLETTER"}
      BY DEF StateAfter
    <2>4. row' \in [Msgs -> {"none", "NACK", "ACK", "DEADLETTER"}]
      BY <1>8, <2>2, <2>3 DEF Log
    <2>5. unmatched' \subseteq Msgs \X (Procs \cup Subs)
      BY <1>8, <2>2 DEF Log
    <2>6. /\ inbox' \in [Subs \cup {Logger} -> Seq(Items)]
          /\ UNCHANGED <<memory, sending, unlogged, handling, failures, crashes, pushed, got, dropped, late>>
      BY <1>8, <2>1 DEF Log
    <2> QED BY <2>4, <2>5, <2>6
  <1>9. ASSUME LogFails PROVE TypeOK'
    <2>1. Head(inbox[Logger]) \in Items /\ Tail(inbox[Logger]) \in Seq(Items)
      BY <1>9, ElementsOfTail DEF LogFails
    <2> QED BY <1>9, <2>1, ClientAssumption DEF LogFails
  <1>10. ASSUME NEW p \in Procs, Crash(p) PROVE TypeOK'
    <2>1. PICK read \in [Subs -> 0..Cardinality(Msgs)] : CrashAs(p, read)
      BY <1>10, CrashParts
    <2>2. \A s \in Subs : SubSeq(inbox[s], read[s] + 1, Len(inbox[s])) \in Seq(Items)
      BY <2>1, ElementsOfCut DEF CrashAs
    <2>3. /\ memory' \in [Queues -> Seq(Items)] /\ sending' \in [Queues -> Seq(Items)]
          /\ \A q \in Queues : Len(sending'[q]) <= MaxBatch
      BY <2>1, ClientAssumption DEF CrashAs
    <2>4. inbox' \in [Subs \cup {Logger} -> Seq(Items)]
      BY <2>1, <2>2 DEF CrashAs
    <2>5. dropped' \subseteq Items
      <3>1. \A q \in {p} \X {"app", "log"} :
               Elements(memory[q]) \subseteq Items /\ Elements(sending[q]) \subseteq Items
        BY ElementsAreItems DEF Queues
      <3>2. \A s \in Subs : Elements(SubSeq(inbox[s], 1, read[s])) \subseteq Items
        BY <2>1, ElementsOfCut, ElementsAreItems DEF CrashAs
      <3>3. \A m \in Msgs : Item("enqueue", m, Home[m]) \in Items
        BY ItemsMade, ClientAssumption
      <3>4. GoneFromQueues(p) \subseteq Items
        BY <3>1 DEF GoneFromQueues
      <3>5. GoneOnTheWay(read) \subseteq Items
        BY <3>2 DEF GoneOnTheWay
      <3>6. GoneUnlogged \subseteq Items
        BY <3>3 DEF GoneUnlogged
      <3> QED BY <2>1, <3>4, <3>5, <3>6 DEF CrashAs
    <2>6. /\ unlogged' \subseteq Msgs /\ handling' \in [Subs -> Msgs \cup {Idle}]
          /\ crashes' \in 0..MaxCrashes
          /\ UNCHANGED <<row, failures, pushed, got, late, unmatched>>
      BY <2>1, ClientAssumption DEF CrashAs
    <2> QED BY <2>3, <2>4, <2>5, <2>6
  <1>11. CASE UNCHANGED vars
    BY <1>11 DEF vars
  <1>12. ASSUME NEW s \in Subs, Handled(s) \/ HandlerThrows(s) \/ HandlerTimesOut(s) PROVE TypeOK'
    <2>1. handling[s] \in Msgs
      BY <1>12 DEF Handled, HandlerThrows, HandlerTimesOut, Return
    <2>2. /\ <<>> \in Seq(Items)
          /\ <<Item("failed", handling[s], s)>> \in Seq(Items)
          /\ <<Item("deadletter", handling[s], s), Item("failed", handling[s], s)>> \in Seq(Items)
      BY <2>1, ItemsMade
    <2> QED BY <1>7, <1>12, <2>2 DEF Handled, HandlerThrows, HandlerTimesOut
  <1> QED BY <1>1, <1>2, <1>3, <1>4, <1>5, <1>6, <1>8, <1>9, <1>10, <1>11, <1>12
          DEF Next, Publisher, Subscriber

\* Every variable keeps its type (the processes that use the broker).
THEOREM TypeCorrect == Spec => []TypeOK
  BY TypeInit, TypeNext, PTL DEF Spec

-----------------------------------------------------------------------------
(* No message disappears                                                    *)

Work(m) == Item("work", m, Home[m])

\* A message that has been pushed and is on its way to s, received or lost.
Kept(m, s) == m \in got[s] \/ Waiting(m, s) \/ Work(m) \in dropped

LEMMA KeptNext == TypeOK /\ NothingForgotten /\ [Next]_vars => NothingForgotten'
  <1> SUFFICES ASSUME TypeOK, NothingForgotten, [Next]_vars PROVE NothingForgotten'
    OBVIOUS
  <1>q. \A m \in Msgs : <<Home[m], "app">> \in Queues /\ Work(m) \in Items /\ Work(m).msg = m
    BY ClientAssumption, ItemsMade DEF Queues, Work
  <1>t. /\ \A q \in Queues : memory[q] \in Seq(Items) /\ sending[q] \in Seq(Items)
        /\ \A s \in Subs : inbox[s] \in Seq(Items)
        /\ memory \in [Queues -> Seq(Items)] /\ sending \in [Queues -> Seq(Items)]
        /\ inbox \in [Subs \cup {Logger} -> Seq(Items)]
        /\ got \in [Subs -> SUBSET Msgs]
    BY DEF TypeOK
  <1>p. \A k \in DOMAIN pushed : pushed[k] \in Msgs
    BY DEF TypeOK
  <1>k. \A k \in DOMAIN pushed, s \in Subs : Kept(pushed[k], s)
    BY DEF NothingForgotten, Kept, Work
  <1>x. ASSUME UNCHANGED pushed, \A m \in Msgs, s \in Subs : Kept(m, s) => Kept(m, s)'
        PROVE  NothingForgotten'
    BY <1>x, <1>p, <1>k DEF NothingForgotten, Kept, Work
  <1> USE DEF Kept, Waiting, Work
  <1>1. ASSUME NEW n \in Msgs, Push(n) PROVE NothingForgotten'
    <2>1. Append(memory[<<Home[n], "app">>], Work(n)) \in Seq(Items)
      BY <1>q, <1>t, ElementsOfAppend
    <2>2. \A q \in Queues : \A x \in Elements(memory[q]) : x \in Elements(memory'[q])
      <3>1. \A x \in Elements(memory[<<Home[n], "app">>]) :
               x \in Elements(Append(memory[<<Home[n], "app">>], Work(n)))
        BY <1>q, <1>t, ElementsOfAppend
      <3> QED BY <1>1, <1>t, <3>1 DEF Push
    <2>3. Work(n) \in Elements(memory'[<<Home[n], "app">>])
      BY <1>1, <1>q, <1>t, ElementsOfAppend DEF Push
    <2>4. /\ pushed' = Append(pushed, n) /\ pushed \in Seq(Msgs)
          /\ UNCHANGED <<sending, inbox, got, dropped>>
      BY <1>1 DEF Push, TypeOK
    <2>5. ASSUME NEW k \in DOMAIN pushed', NEW s \in Subs, NEW m \in Msgs, m = pushed'[k]
          PROVE  Kept(m, s)'
      <3>1. CASE k \in DOMAIN pushed
        <4>1. m = pushed[k]
          BY <2>4, <2>5, <3>1
        <4>2. Kept(m, s)
          BY <3>1, <4>1, <1>k
        <4> QED BY <4>2, <2>2, <2>4, <1>q
      <3>2. CASE k \notin DOMAIN pushed
        <4>1. m = n
          BY <2>4, <2>5, <3>2
        <4> QED BY <4>1, <2>3
      <3> QED BY <3>1, <3>2
    <2>6. \A k \in DOMAIN pushed' : pushed'[k] \in Msgs
      BY <2>4
    <2> QED BY <2>5, <2>6 DEF NothingForgotten
  <1>2. ASSUME NEW n \in Msgs, EnqueueLog(n) PROVE NothingForgotten'
    <2>1. \A m \in Msgs : memory'[<<Home[m], "app">>] = memory[<<Home[m], "app">>]
      BY <1>2, <1>t, <1>q DEF EnqueueLog
    <2> QED BY <1>2, <2>1, <1>x DEF EnqueueLog
  <1>3. ASSUME NEW q \in Queues, Take(q) PROVE NothingForgotten'
    <2>1. /\ sending[q] = <<>> /\ sending'[q] = Oldest(memory[q]) /\ memory'[q] = Rest(memory[q])
          /\ \A r \in Queues \ {q} : sending'[r] = sending[r] /\ memory'[r] = memory[r]
          /\ UNCHANGED <<inbox, pushed, got, dropped>>
      BY <1>3, <1>t DEF Take
    <2>2. Elements(sending[q]) = {}
      BY <2>1 DEF Elements
    <2>3. \A x \in Elements(memory[q]) : x \in Elements(sending'[q]) \/ x \in Elements(memory'[q])
      BY <2>1, <1>t, Batches
    <2>4. \A x : \A r \in Queues : x \in Elements(sending[r]) \cup Elements(memory[r]) =>
                               x \in Elements(sending'[r]) \cup Elements(memory'[r])
      BY <2>1, <2>2, <2>3
    <2> QED BY <2>1, <2>4, <1>q, <1>x
  <1>4. ASSUME NEW q \in Queues, Send(q) PROVE NothingForgotten'
    <2>1. /\ sending[q] # <<>> /\ sending'[q] = Tail(sending[q])
          /\ \A r \in Queues \ {q} : sending'[r] = sending[r]
          /\ \A s \in Subs : inbox'[s] = IF s \in SubscriptionsOf(q[2])
                                        THEN Append(inbox[s], Head(sending[q])) ELSE inbox[s]
          /\ UNCHANGED <<memory, pushed, got, dropped>>
      BY <1>4, <1>t DEF Send
    <2>2. /\ Head(sending[q]) \in Items
          /\ \A x \in Elements(sending[q]) : x = Head(sending[q]) \/ x \in Elements(sending'[q])
      BY <2>1, <1>t, ElementsOfTail
    <2>3. \A s \in Subs : \A x \in Elements(inbox[s]) : x \in Elements(inbox'[s])
      BY <2>1, <2>2, <1>t, ElementsOfAppend
    <2>4. q[2] = "app" => \A s \in Subs : Head(sending[q]) \in Elements(inbox'[s])
      BY <2>1, <2>2, <1>t, ElementsOfAppend DEF SubscriptionsOf
    <2>5. ASSUME NEW m \in Msgs, NEW s \in Subs, Work(m) \in Elements(sending[<<Home[m], "app">>])
          PROVE  Work(m) \in Elements(inbox'[s]) \cup Elements(sending'[<<Home[m], "app">>])
      <3>1. CASE q = <<Home[m], "app">>
        BY <3>1, <2>2, <2>4, <2>5
      <3>2. CASE q # <<Home[m], "app">>
        BY <3>2, <2>1, <2>5, <1>q
      <3> QED BY <3>1, <3>2
    <2> QED BY <2>1, <2>3, <2>5, <1>x
  <1>5. ASSUME NEW q \in Queues, SendFails(q) PROVE NothingForgotten'
    <2>1. /\ sending[q] # <<>> /\ sending'[q] = Tail(sending[q])
          /\ \A r \in Queues \ {q} : sending'[r] = sending[r]
          /\ dropped' = dropped \cup {Head(sending[q])}
          /\ UNCHANGED <<memory, inbox, pushed, got>>
      BY <1>5, <1>t DEF SendFails
    <2>2. \A x \in Elements(sending[q]) : x = Head(sending[q]) \/ x \in Elements(sending'[q])
      BY <2>1, <1>t, ElementsOfTail
    <2>3. \A r \in Queues : \A x \in Elements(sending[r]) : x \in Elements(sending'[r]) \/ x \in dropped'
      BY <2>1, <2>2
    <2> QED BY <2>1, <2>3, <1>q, <1>x
  <1>6. ASSUME NEW r \in Subs, Receive(r) PROVE NothingForgotten'
    <2>1. /\ inbox[r] # <<>> /\ inbox'[r] = Tail(inbox[r])
          /\ \A s \in Subs \ {r} : inbox'[s] = inbox[s]
          /\ \A s \in Subs : got[s] \subseteq got'[s]
          /\ Head(inbox[r]).msg \in got'[r]
          /\ \A m \in Msgs : memory'[<<Home[m], "app">>] = memory[<<Home[m], "app">>]
          /\ UNCHANGED <<sending, pushed, dropped>>
      BY <1>6, <1>t, <1>q DEF Receive
    <2>2. \A x \in Elements(inbox[r]) : x = Head(inbox[r]) \/ x \in Elements(inbox'[r])
      BY <2>1, <1>t, ElementsOfTail
    <2>3. ASSUME NEW m \in Msgs, NEW s \in Subs, Work(m) \in Elements(inbox[s])
          PROVE  Work(m) \in Elements(inbox'[s]) \/ m \in got'[s]
      <3>1. CASE s = r
        BY <3>1, <2>1, <2>2, <2>3, <1>q
      <3>2. CASE s # r
        BY <3>2, <2>1, <2>3
      <3> QED BY <3>1, <3>2
    <2> QED BY <2>1, <2>3, <1>x
  <1>7. ASSUME NEW r \in Subs, NEW b, Return(r, b) PROVE NothingForgotten'
    <2>1. \A m \in Msgs : memory'[<<Home[m], "app">>] = memory[<<Home[m], "app">>]
      BY <1>7, <1>t, <1>q DEF Return
    <2> QED BY <1>7, <2>1, <1>x DEF Return
  <1>8. ASSUME Log \/ LogFails PROVE NothingForgotten'
    <2>1. /\ \A s \in Subs : inbox'[s] = inbox[s]
          /\ dropped \subseteq dropped'
          /\ UNCHANGED <<memory, sending, pushed, got>>
      BY <1>8, <1>t, ClientAssumption DEF Log, LogFails
    <2> QED BY <2>1, <1>x
  <1>9. ASSUME NEW p \in Procs, Crash(p) PROVE NothingForgotten'
    <2>1. PICK read \in [Subs -> 0..Cardinality(Msgs)] : CrashAs(p, read)
      BY <1>9, CrashParts
    <2>2. \A s \in Subs : \A x \in Elements(inbox[s]) : x \in Elements(inbox'[s]) \/ x \in dropped'
      <3>1. \A s \in Subs : \A x \in Elements(inbox[s]) :
               \/ x \in Elements(SubSeq(inbox[s], 1, read[s]))
               \/ x \in Elements(SubSeq(inbox[s], read[s] + 1, Len(inbox[s])))
        BY <2>1, <1>t, ElementsOfCut DEF CrashAs
      <3>2. \A s \in Subs : \A x \in Elements(SubSeq(inbox[s], 1, read[s])) : x \in dropped'
        BY <2>1 DEF CrashAs, GoneOnTheWay
      <3>3. \A s \in Subs : inbox'[s] = SubSeq(inbox[s], read[s] + 1, Len(inbox[s]))
        BY <2>1 DEF CrashAs
      <3> QED BY <3>1, <3>2, <3>3
    <2>3. \A q \in Queues : \A x \in Elements(sending[q]) \cup Elements(memory[q]) :
             x \in Elements(sending'[q]) \cup Elements(memory'[q]) \/ x \in dropped'
      <3>1. ASSUME NEW q \in {p} \X {"app", "log"}, NEW x \in Elements(sending[q]) \cup Elements(memory[q])
            PROVE  x \in dropped'
        BY <2>1, <3>1 DEF CrashAs, GoneFromQueues
      <3>2. ASSUME NEW q \in Queues, q \notin {p} \X {"app", "log"}
            PROVE  sending'[q] = sending[q] /\ memory'[q] = memory[q]
        BY <2>1, <3>2 DEF CrashAs
      <3> QED BY <3>1, <3>2
    <2>4. dropped \subseteq dropped' /\ UNCHANGED <<pushed, got>>
      BY <2>1 DEF CrashAs
    <2> QED BY <2>2, <2>3, <2>4, <1>q, <1>x
  <1>10. CASE UNCHANGED vars
    BY <1>10, <1>x DEF vars
  <1> QED BY <1>1, <1>2, <1>3, <1>4, <1>5, <1>6, <1>7, <1>8, <1>9, <1>10
          DEF Next, Publisher, Subscriber, Handled, HandlerThrows, HandlerTimesOut

\* What has been pushed is received, on its way, or was lost in one of the ways the history
\* records: a failed call of Publish, or a crash (MemoryQueueService, PublisherBase).
THEOREM NoneForgotten == Spec => []NothingForgotten
  <1>1. Init => NothingForgotten
    BY DEF Init, NothingForgotten
  <1> QED BY <1>1, TypeCorrect, KeptNext, PTL DEF Spec

-----------------------------------------------------------------------------
(* The order of what is on its way                                          *)

\* x is somewhere before y, in a queue, or in three that follow each other.
Within(x, y, q) == \E k, l \in DOMAIN q : k < l /\ q[k] = x /\ q[l] = y
Earlier(x, y, a, b, c) ==
    \/ Within(x, y, a) \/ Within(x, y, b) \/ Within(x, y, c)
    \/ (x \in Elements(a) /\ y \in Elements(b) \cup Elements(c))
    \/ (x \in Elements(b) /\ y \in Elements(c))

\* What stays, and what is new, when an item is put at the end of a queue.
LEMMA AfterAppend ==
    ASSUME NEW q \in Seq(Items), NEW i \in Items
    PROVE  /\ \A x \in Elements(Append(q, i)) : x \in Elements(q) \/ x = i
           /\ \A x, y : Within(x, y, Append(q, i)) =>
                Within(x, y, q) \/ (x \in Elements(q) /\ y = i)
  <1>1. /\ Append(q, i) \in Seq(Items) /\ Len(Append(q, i)) = Len(q) + 1
        /\ \A k \in 1 .. Len(q) : Append(q, i)[k] = q[k]
        /\ Append(q, i)[Len(q) + 1] = i
        /\ DOMAIN q = 1 .. Len(q) /\ DOMAIN Append(q, i) = 1 .. Len(q) + 1 /\ Len(q) \in Nat
    OBVIOUS
  <1>2. \A k \in 1 .. Len(q) + 1 : k \in 1 .. Len(q) \/ k = Len(q) + 1
    BY <1>1
  <1>3. \A k \in 1 .. Len(q) : q[k] \in Elements(q)
    BY ElementAt
  <1>4. \A x \in Elements(Append(q, i)) : \E k \in 1 .. Len(q) + 1 : x = Append(q, i)[k]
    BY <1>1 DEF Elements
  <1>5. ASSUME NEW x, NEW y, NEW k \in 1 .. Len(q) + 1, NEW l \in 1 .. Len(q) + 1, k < l,
               Append(q, i)[k] = x, Append(q, i)[l] = y
        PROVE  Within(x, y, q) \/ (x \in Elements(q) /\ y = i)
    <2>1. k \in 1 .. Len(q)
      BY <1>1, <1>5
    <2>2. CASE l \in 1 .. Len(q)
      <3>1. x = q[k] /\ y = q[l] /\ k \in DOMAIN q /\ l \in DOMAIN q
        BY <1>1, <1>5, <2>1, <2>2
      <3> QED BY <3>1, <1>5 DEF Within
    <2>3. CASE l = Len(q) + 1
      BY <1>1, <1>3, <1>5, <2>1, <2>3
    <2> QED BY <1>2, <2>2, <2>3
  <1> QED BY <1>1, <1>2, <1>3, <1>4, <1>5 DEF Within

\* The order of what is left when the first items of a queue are taken.
LEMMA AfterTail ==
    ASSUME NEW q \in Seq(Items), q # <<>>
    PROVE  /\ Head(q) \in Elements(q)
           /\ \A x \in Elements(Tail(q)) : x \in Elements(q) /\ Within(Head(q), x, q)
           /\ \A x, y : Within(x, y, Tail(q)) => Within(x, y, q)
  <1>1. /\ Head(q) = q[1] /\ Len(q) \in Nat /\ Len(q) > 0
        /\ Tail(q) \in Seq(Items) /\ Len(Tail(q)) = Len(q) - 1
        /\ \A k \in 1 .. Len(q) - 1 : Tail(q)[k] = q[k + 1]
        /\ DOMAIN q = 1 .. Len(q) /\ DOMAIN Tail(q) = 1 .. Len(q) - 1
    OBVIOUS
  <1>2. \A k \in 1 .. Len(q) - 1 : k + 1 \in 1 .. Len(q) /\ 1 < k + 1 /\ 1 \in 1 .. Len(q)
    BY <1>1
  <1>3. \A k \in 1 .. Len(q) : q[k] \in Elements(q)
    BY ElementAt
  <1>4. \A x \in Elements(Tail(q)) : \E k \in 1 .. Len(q) - 1 : x = q[k + 1]
    BY <1>1 DEF Elements
  <1>5. ASSUME NEW x \in Elements(Tail(q)) PROVE x \in Elements(q) /\ Within(Head(q), x, q)
    <2>1. PICK k \in 1 .. Len(q) - 1 : x = q[k + 1]
      BY <1>4
    <2> QED BY <2>1, <1>1, <1>2, <1>3 DEF Within
  <1>6. ASSUME NEW x, NEW y, Within(x, y, Tail(q)) PROVE Within(x, y, q)
    <2>1. PICK k \in 1 .. Len(q) - 1, l \in 1 .. Len(q) - 1 :
             k < l /\ q[k + 1] = x /\ q[l + 1] = y
      BY <1>1, <1>6 DEF Within
    <2>2. k + 1 \in DOMAIN q /\ l + 1 \in DOMAIN q /\ k + 1 < l + 1
      BY <2>1, <1>1, <1>2
    <2> QED BY <2>1, <2>2 DEF Within
  <1>7. Head(q) \in Elements(q)
    BY <1>1, <1>3
  <1> QED BY <1>5, <1>6, <1>7

LEMMA AfterCut ==
    ASSUME NEW q \in Seq(Items), NEW n \in 0 .. Len(q)
    PROVE  LET a == SubSeq(q, 1, n)
               b == SubSeq(q, n + 1, Len(q))
           IN  /\ Elements(a) \subseteq Elements(q) /\ Elements(b) \subseteq Elements(q)
               /\ \A x, y : Within(x, y, a) \/ Within(x, y, b) \/ (x \in Elements(a) /\ y \in Elements(b))
                              => Within(x, y, q)
  <1> DEFINE a == SubSeq(q, 1, n)
             b == SubSeq(q, n + 1, Len(q))
  <1>0. DOMAIN q = 1 .. Len(q) /\ Len(q) \in Nat /\ n \in Nat /\ n <= Len(q)
    OBVIOUS
  <1>1. DOMAIN a = 1..n /\ \A k \in 1..n : a[k] = q[k]
    OBVIOUS
  <1>2. DOMAIN b = 1 .. Len(q) - n /\ \A k \in 1 .. Len(q) - n : b[k] = q[n + k]
    OBVIOUS
  <1> HIDE DEF a, b
  <1>3. \A k \in 1..n : k \in DOMAIN q
    BY <1>0
  <1>4. \A k \in 1 .. Len(q) - n : n + k \in DOMAIN q /\ \A j \in 1..n : j < n + k
    BY <1>0
  <1>5. Elements(a) \subseteq Elements(q) /\ Elements(b) \subseteq Elements(q)
    BY <1>1, <1>2, <1>3, <1>4 DEF Elements
  <1>6. ASSUME NEW x, NEW y, Within(x, y, a) PROVE Within(x, y, q)
    BY <1>1, <1>3, <1>6 DEF Within
  <1>7. ASSUME NEW x, NEW y, Within(x, y, b) PROVE Within(x, y, q)
    <2>1. PICK k \in 1 .. Len(q) - n, l \in 1 .. Len(q) - n :
             k < l /\ q[n + k] = x /\ q[n + l] = y
      BY <1>2, <1>7 DEF Within
    <2>2. n + k < n + l
      BY <2>1, <1>0
    <2> QED BY <2>1, <2>2, <1>4 DEF Within
  <1>8. ASSUME NEW x \in Elements(a), NEW y \in Elements(b) PROVE Within(x, y, q)
    <2>1. PICK k \in 1..n : x = q[k]
      BY <1>1 DEF Elements
    <2>2. PICK l \in 1 .. Len(q) - n : y = q[n + l]
      BY <1>2 DEF Elements
    <2> QED BY <2>1, <2>2, <1>3, <1>4 DEF Within
  <1> QED BY <1>5, <1>6, <1>7, <1>8 DEF a, b

LEMMA TwoAtTheEnd ==
    ASSUME NEW c \in Seq(Items), NEW d \in Items, NEW f \in Items
    PROVE  c \o <<d, f>> = Append(Append(c, d), f) /\ Append(c, d) \in Seq(Items)
  <1> DEFINE r == <<d, f>>
             e == Append(c, d)
             a == c \o r
             b == Append(e, f)
  <1>1. r \in Seq(Items) /\ Len(r) = 2 /\ r[1] = d /\ r[2] = f
    OBVIOUS
  <1>2. /\ e \in Seq(Items) /\ Len(e) = Len(c) + 1 /\ Len(c) \in Nat
        /\ \A k \in 1 .. Len(c) : e[k] = c[k]
        /\ e[Len(c) + 1] = d
    OBVIOUS
  <1> HIDE DEF r, e
  <1>3. /\ a \in Seq(Items) /\ Len(a) = Len(c) + 2
        /\ \A k \in 1 .. Len(c) : a[k] = c[k]
        /\ a[Len(c) + 1] = d /\ a[Len(c) + 2] = f
    BY <1>1, ConcatProperties
  <1>4. /\ b \in Seq(Items) /\ Len(b) = Len(e) + 1
        /\ \A k \in 1 .. Len(e) : b[k] = e[k]
        /\ b[Len(e) + 1] = f
    BY <1>2
  <1> HIDE DEF a, b
  <1>5. \A k \in 1 .. Len(c) + 2 : k \in 1 .. Len(c) \/ k = Len(c) + 1 \/ k = Len(c) + 2
    BY <1>2
  <1>6. /\ \A k \in 1 .. Len(c) : k \in 1 .. Len(e)
        /\ Len(c) + 1 \in 1 .. Len(e) /\ Len(c) + 2 = Len(e) + 1
    BY <1>2
  <1>7. \A k \in 1 .. Len(a) : a[k] = b[k]
    BY <1>2, <1>3, <1>4, <1>5, <1>6
  <1>8. a = b
    BY <1>2, <1>3, <1>4, <1>7, SeqEqual
  <1> QED BY <1>2, <1>8 DEF a, b, r, e

\* The queues of a process on their way to a reader, in each of the ways they move.
LEMMA EarlierTake ==
    ASSUME NEW a \in Seq(Items), NEW c \in Seq(Items), NEW x, NEW y,
           Earlier(x, y, a, Oldest(c), Rest(c))
    PROVE  Earlier(x, y, a, <<>>, c)
  <1> DEFINE n == IF Len(c) < MaxBatch THEN Len(c) ELSE MaxBatch
  <1>1. n \in 0 .. Len(c)
    BY ClientAssumption
  <1> HIDE DEF n
  <1>2. Oldest(c) = SubSeq(c, 1, n) /\ Rest(c) = SubSeq(c, n + 1, Len(c))
    BY <1>1, ElementsOfCut DEF Oldest, Rest, n
  <1>3. /\ Elements(Oldest(c)) \subseteq Elements(c) /\ Elements(Rest(c)) \subseteq Elements(c)
        /\ \A u, v : \/ Within(u, v, Oldest(c)) \/ Within(u, v, Rest(c))
                     \/ u \in Elements(Oldest(c)) /\ v \in Elements(Rest(c))
                     => Within(u, v, c)
    BY <1>1, <1>2, AfterCut
  <1> QED BY <1>3 DEF Earlier

LEMMA EarlierSend ==
    ASSUME NEW a \in Seq(Items), NEW b \in Seq(Items), NEW c, b # <<>>, NEW x, NEW y,
           Earlier(x, y, Append(a, Head(b)), Tail(b), c) \/ Earlier(x, y, a, Tail(b), c)
    PROVE  Earlier(x, y, a, b, c)
  <1>1. Head(b) \in Items
    BY ElementsOfTail
  <1>2. /\ Head(b) \in Elements(b)
        /\ \A u \in Elements(Tail(b)) : u \in Elements(b) /\ Within(Head(b), u, b)
        /\ \A u, v : Within(u, v, Tail(b)) => Within(u, v, b)
    BY AfterTail
  <1>3. /\ \A u \in Elements(Append(a, Head(b))) : u \in Elements(a) \/ u = Head(b)
        /\ \A u, v : Within(u, v, Append(a, Head(b))) =>
             Within(u, v, a) \/ (u \in Elements(a) /\ v = Head(b))
    BY <1>1, AfterAppend
  <1> QED BY <1>2, <1>3 DEF Earlier

LEMMA EarlierForeign ==
    ASSUME NEW a \in Seq(Items), NEW z \in Items, NEW b, NEW c, NEW x, NEW y,
           Earlier(x, y, Append(a, z), b, c)
    PROVE  Earlier(x, y, a, b, c) \/ x = z \/ y = z
  BY AfterAppend DEF Earlier

LEMMA EarlierRead ==
    ASSUME NEW a \in Seq(Items), a # <<>>, NEW b, NEW c, NEW x, NEW y
    PROVE  /\ Earlier(x, y, Tail(a), b, c) => Earlier(x, y, a, b, c)
           /\ y \in Elements(Tail(a)) \cup Elements(b) \cup Elements(c)
                => Earlier(Head(a), y, a, b, c)
  BY AfterTail DEF Earlier

LEMMA EarlierCut ==
    ASSUME NEW a \in Seq(Items), NEW n \in 0 .. Len(a), NEW b, NEW c, NEW x, NEW y,
           \/ Earlier(x, y, SubSeq(a, n + 1, Len(a)), b, c)
           \/ Earlier(x, y, SubSeq(a, n + 1, Len(a)), <<>>, <<>>)
    PROVE  Earlier(x, y, a, b, c)
  <1>1. /\ Elements(SubSeq(a, n + 1, Len(a))) \subseteq Elements(a)
        /\ \A u, v : Within(u, v, SubSeq(a, n + 1, Len(a))) => Within(u, v, a)
    BY AfterCut
  <1>2. Elements(<<>>) = {} /\ ~Within(x, y, <<>>)
    BY DEF Elements, Within
  <1> QED BY <1>1, <1>2 DEF Earlier

LEMMA EarlierPut ==
    ASSUME NEW c \in Seq(Items), NEW z \in Items, NEW a, NEW b, NEW x, NEW y,
           Earlier(x, y, a, b, Append(c, z))
    PROVE  \/ Earlier(x, y, a, b, c)
           \/ y = z /\ x \in Elements(a) \cup Elements(b) \cup Elements(c)
  BY AfterAppend DEF Earlier

-----------------------------------------------------------------------------
(* What a step does to the queues                                           *)

InQueue(x, p, t) == x \in Elements(memory[<<p, t>>]) \cup Elements(sending[<<p, t>>])
InPipe(x, p, t, r) == InQueue(x, p, t) \/ x \in Elements(inbox[r])
Ahead(x, y, p, t, r) == Earlier(x, y, inbox[r], sending[<<p, t>>], memory[<<p, t>>])

\* The reports on a message.
Enq(m) == Item("enqueue", m, Home[m])
Ack(m, s) == Item("ack", m, s)
Dead(m, s) == Item("deadletter", m, s)

\* The step puts z into the queue of p and t.
Put(z, p, t) ==
    \/ \E m \in Msgs : Push(m) /\ p = Home[m] /\ t = "app" /\ z = Work(m)
    \/ \E m \in Msgs : EnqueueLog(m) /\ p = Home[m] /\ t = "log" /\ z = Enq(m)
    \/ \E s \in Subs : Receive(s) /\ p = ProcOf[s] /\ t = "log" /\ z = Ack(Head(inbox[s]).msg, s)
    \/ \E s \in Subs : /\ HandlerThrows(s) \/ HandlerTimesOut(s)
                       /\ p = ProcOf[s] /\ t = "log" /\ handling[s] # Idle
                       /\ z \in {Dead(handling[s], s), Item("failed", handling[s], s)}

\* What a step makes of a queue on its way to a reader: nothing is new in it but what is
\* put there, or comes to the reader from another process, and what is new is last.
Flows(p, t, r) ==
    /\ \A x \in Items : InQueue(x, p, t)' => InQueue(x, p, t) \/ Put(x, p, t)
    /\ \A x \in Items : x \in Elements(inbox'[r]) =>
          x \in Elements(inbox[r]) \/ \E q \in Procs : x \in Elements(sending[<<q, t>>])
    /\ \A x, y \in Items : Ahead(x, y, p, t, r)' =>
          \/ Ahead(x, y, p, t, r)
          \/ Put(y, p, t) /\ (InPipe(x, p, t, r) \/ (t = "log" /\ Put(x, p, t)))
          \/ \E q \in Procs \ {p} :
                x \in Elements(sending[<<q, t>>]) \/ y \in Elements(sending[<<q, t>>])

LEMMA FlowsNext ==
    ASSUME TypeOK, [Next]_vars, NEW p \in Procs, NEW t \in {"app", "log"},
           NEW r \in SubscriptionsOf(t)
    PROVE  Flows(p, t, r)
  <1> DEFINE pt == <<p, t>>
  <1>t. /\ \A q \in Queues : memory[q] \in Seq(Items) /\ sending[q] \in Seq(Items)
        /\ \A s \in Subs \cup {Logger} : inbox[s] \in Seq(Items)
        /\ memory \in [Queues -> Seq(Items)] /\ sending \in [Queues -> Seq(Items)]
        /\ inbox \in [Subs \cup {Logger} -> Seq(Items)]
        /\ got \in [Subs -> SUBSET Msgs] /\ handling \in [Subs -> Msgs \cup {Idle}]
    BY DEF TypeOK
  <1>q. pt \in Queues /\ Queues = Procs \X {"app", "log"}
    BY DEF Queues
  <1>r. /\ r \in Subs \cup {Logger}
        /\ t = "app" => r \in Subs /\ r # Logger
        /\ t = "log" => r = Logger /\ r \notin Subs
    BY ClientAssumption DEF SubscriptionsOf
  <1>e. Elements(<<>>) = {} /\ \A x, y : ~Within(x, y, <<>>)
    BY DEF Elements, Within
  <1>s. ASSUME memory'[pt] = memory[pt], sending'[pt] = sending[pt], inbox'[r] = inbox[r]
        PROVE  Flows(p, t, r)
    BY <1>s DEF Flows, InQueue, Ahead
  <1>p. ASSUME NEW z \in Items, Put(z, p, t), memory'[pt] = Append(memory[pt], z),
               sending'[pt] = sending[pt], inbox'[r] = inbox[r]
        PROVE  Flows(p, t, r)
    <2>1. \A x \in Elements(memory'[pt]) : x \in Elements(memory[pt]) \/ x = z
      BY <1>p, <1>t, <1>q, AfterAppend
    <2>2. ASSUME NEW x \in Items, NEW y \in Items, Ahead(x, y, p, t, r)'
          PROVE  Ahead(x, y, p, t, r) \/ (y = z /\ InPipe(x, p, t, r))
      <3>1. Earlier(x, y, inbox[r], sending[pt], Append(memory[pt], z))
        BY <1>p, <2>2 DEF Ahead
      <3> QED BY <3>1, <1>t, <1>q, EarlierPut DEF Ahead, InPipe, InQueue
    <2> QED BY <1>p, <2>1, <2>2 DEF Flows, InQueue
  <1>1. ASSUME NEW n \in Msgs, Push(n) PROVE Flows(p, t, r)
    <2>1. CASE pt = <<Home[n], "app">>
      <3>1. Work(n) \in Items
        BY ItemsMade, ClientAssumption DEF Work
      <3>2. Put(Work(n), p, t)
        BY <1>1, <2>1 DEF Put
      <3>3. /\ memory'[pt] = Append(memory[pt], Work(n))
            /\ sending'[pt] = sending[pt] /\ inbox'[r] = inbox[r]
        BY <1>1, <2>1, <1>t, <1>q DEF Push, Work
      <3> QED BY <3>1, <3>2, <3>3, <1>p
    <2>2. CASE pt # <<Home[n], "app">>
      BY <1>1, <2>2, <1>s, <1>t, <1>q DEF Push
    <2> QED BY <2>1, <2>2
  <1>2. ASSUME NEW n \in Msgs, EnqueueLog(n) PROVE Flows(p, t, r)
    <2>1. CASE pt = <<Home[n], "log">>
      <3>1. Enq(n) \in Items
        BY ItemsMade, ClientAssumption DEF Enq
      <3>2. Put(Enq(n), p, t)
        BY <1>2, <2>1 DEF Put
      <3>3. /\ memory'[pt] = Append(memory[pt], Enq(n))
            /\ sending'[pt] = sending[pt] /\ inbox'[r] = inbox[r]
        BY <1>2, <2>1, <1>t, <1>q DEF EnqueueLog, Enq
      <3> QED BY <3>1, <3>2, <3>3, <1>p
    <2>2. CASE pt # <<Home[n], "log">>
      BY <1>2, <2>2, <1>s, <1>t, <1>q DEF EnqueueLog
    <2> QED BY <2>1, <2>2
  <1>3. ASSUME NEW q \in Queues, Take(q) PROVE Flows(p, t, r)
    <2>1. CASE q = pt
      <3>1. /\ sending[pt] = <<>> /\ sending'[pt] = Oldest(memory[pt])
            /\ memory'[pt] = Rest(memory[pt]) /\ inbox'[r] = inbox[r]
        BY <1>3, <2>1, <1>t DEF Take
      <3>2. \A x, y : Ahead(x, y, p, t, r)' => Ahead(x, y, p, t, r)
        BY <3>1, <1>t, <1>q, <1>r, EarlierTake DEF Ahead
      <3>3. \A x : InQueue(x, p, t)' => InQueue(x, p, t)
        <4> DEFINE c == memory[pt]
                   n == IF Len(c) < MaxBatch THEN Len(c) ELSE MaxBatch
        <4>1. n \in 0 .. Len(c) /\ c \in Seq(Items)
          BY <1>t, <1>q, ClientAssumption
        <4> HIDE DEF n, c
        <4>2. Oldest(c) = SubSeq(c, 1, n) /\ Rest(c) = SubSeq(c, n + 1, Len(c))
          BY <4>1, ElementsOfCut DEF Oldest, Rest, n
        <4>3. Elements(Oldest(c)) \subseteq Elements(c) /\ Elements(Rest(c)) \subseteq Elements(c)
          BY <4>1, <4>2, AfterCut
        <4> QED BY <4>3, <3>1 DEF InQueue, c
      <3> QED BY <3>1, <3>2, <3>3 DEF Flows
    <2>2. CASE q # pt
      BY <1>3, <2>2, <1>s, <1>t, <1>q DEF Take
    <2> QED BY <2>1, <2>2
  <1>4. ASSUME NEW q \in Queues, Send(q) PROVE Flows(p, t, r)
    <2>1. /\ sending[q] # <<>> /\ sending'[q] = Tail(sending[q])
          /\ \A o \in Queues \ {q} : sending'[o] = sending[o]
          /\ memory' = memory
          /\ inbox'[r] = IF r \in SubscriptionsOf(q[2]) THEN Append(inbox[r], Head(sending[q]))
                         ELSE inbox[r]
      BY <1>4, <1>t, <1>r DEF Send
    <2>2. Head(sending[q]) \in Items /\ Head(sending[q]) \in Elements(sending[q])
      BY <2>1, <1>t, ElementsOfTail, AfterTail
    <2>3. PICK o \in Procs, u \in {"app", "log"} : q = <<o, u>>
      BY <1>q
    <2>4. r \in SubscriptionsOf(q[2]) <=> u = t
      BY <2>3, <1>r DEF SubscriptionsOf
    <2>5. CASE q = pt
      <3>1. inbox'[r] = Append(inbox[r], Head(sending[pt])) /\ sending'[pt] = Tail(sending[pt])
        BY <2>1, <2>3, <2>4, <2>5
      <3>2. \A x, y : Ahead(x, y, p, t, r)' => Ahead(x, y, p, t, r)
        BY <3>1, <2>1, <2>5, <1>t, <1>q, <1>r, EarlierSend DEF Ahead
      <3>3. \A x : InQueue(x, p, t)' => InQueue(x, p, t)
        BY <3>1, <2>1, <2>5, <1>t, <1>q, AfterTail DEF InQueue
      <3>4. \A x \in Elements(inbox'[r]) : x \in Elements(inbox[r]) \/ x \in Elements(sending[pt])
        BY <3>1, <2>2, <2>5, <1>t, <1>r, AfterAppend
      <3> QED BY <3>2, <3>3, <3>4 DEF Flows
    <2>6. CASE u = t /\ o # p
      <3>1. inbox'[r] = Append(inbox[r], Head(sending[q])) /\ sending'[pt] = sending[pt]
        BY <2>1, <2>3, <2>4, <2>6, <1>q
      <3>2. \A x, y : Ahead(x, y, p, t, r)' =>
               Ahead(x, y, p, t, r) \/ x = Head(sending[q]) \/ y = Head(sending[q])
        BY <3>1, <2>1, <2>2, <1>t, <1>q, <1>r, EarlierForeign DEF Ahead
      <3>3. \A x : InQueue(x, p, t)' => InQueue(x, p, t)
        BY <3>1, <2>1 DEF InQueue
      <3>4. \A x \in Elements(inbox'[r]) : x \in Elements(inbox[r]) \/ x \in Elements(sending[q])
        BY <3>1, <2>2, <1>t, <1>r, AfterAppend
      <3> QED BY <3>2, <3>3, <3>4, <2>2, <2>3, <2>6 DEF Flows
    <2>7. CASE u # t
      BY <2>1, <2>3, <2>4, <2>7, <1>s, <1>q
    <2> QED BY <2>3, <2>5, <2>6, <2>7
  <1>5. ASSUME NEW q \in Queues, SendFails(q) PROVE Flows(p, t, r)
    <2>1. CASE q = pt
      <3>1. /\ sending[pt] # <<>> /\ sending'[pt] = Tail(sending[pt])
            /\ memory' = memory /\ inbox' = inbox
        BY <1>5, <2>1, <1>t DEF SendFails
      <3>2. \A x, y : Ahead(x, y, p, t, r)' => Ahead(x, y, p, t, r)
        BY <3>1, <1>t, <1>q, <1>r, EarlierSend DEF Ahead
      <3>3. \A x : InQueue(x, p, t)' => InQueue(x, p, t)
        BY <3>1, <1>t, <1>q, AfterTail DEF InQueue
      <3> QED BY <3>1, <3>2, <3>3 DEF Flows
    <2>2. CASE q # pt
      BY <1>5, <2>2, <1>s, <1>t, <1>q DEF SendFails
    <2> QED BY <2>1, <2>2
  \* A reader takes the first.
  <1>h. ASSUME inbox[r] # <<>>, inbox'[r] = Tail(inbox[r]), memory'[pt] = memory[pt],
               sending'[pt] = sending[pt]
        PROVE  Flows(p, t, r)
    <2>1. \A x, y : Ahead(x, y, p, t, r)' => Ahead(x, y, p, t, r)
      BY <1>h, <1>t, <1>r, EarlierRead DEF Ahead
    <2>2. \A x \in Elements(inbox'[r]) : x \in Elements(inbox[r])
      BY <1>h, <1>t, <1>r, AfterTail
    <2> QED BY <1>h, <2>1, <2>2 DEF Flows, InQueue
  <1>6. ASSUME NEW s \in Subs, Receive(s) PROVE Flows(p, t, r)
    <2>1. /\ inbox[s] # <<>> /\ inbox'[s] = Tail(inbox[s])
          /\ \A u \in (Subs \cup {Logger}) \ {s} : inbox'[u] = inbox[u]
          /\ sending' = sending
          /\ \A q \in Queues \ {<<ProcOf[s], "log">>} : memory'[q] = memory[q]
          /\ memory'[<<ProcOf[s], "log">>] =
               Append(memory[<<ProcOf[s], "log">>], Ack(Head(inbox[s]).msg, s))
      BY <1>6, <1>t, ClientAssumption DEF Receive, Ack, Queues
    <2>2. CASE t = "app" /\ r = s
      BY <2>1, <2>2, <1>h, <1>q
    <2>3. CASE pt # <<ProcOf[s], "log">> /\ r # s
      BY <2>1, <2>3, <1>s, <1>q, <1>r
    <2>4. CASE pt = <<ProcOf[s], "log">>
      <3>1. Head(inbox[s]).msg \in Msgs
        BY <2>1, <1>t, ElementsOfTail, ItemsMade
      <3>2. Ack(Head(inbox[s]).msg, s) \in Items
        BY <3>1, ItemsMade DEF Ack
      <3>3. Put(Ack(Head(inbox[s]).msg, s), p, t)
        BY <1>6, <2>4 DEF Put
      <3>4. r # s
        BY <2>4, <1>r
      <3> QED BY <2>1, <2>4, <3>2, <3>3, <3>4, <1>p, <1>r
    <2> QED BY <2>2, <2>3, <2>4, <1>r
  <1>7. ASSUME NEW s \in Subs, NEW b, Return(s, b), pt # <<ProcOf[s], "log">> \/ b = <<>>
        PROVE  Flows(p, t, r)
    <2>1. /\ inbox' = inbox /\ sending' = sending
          /\ memory' = [memory EXCEPT ![<<ProcOf[s], "log">>] = @ \o b]
      BY <1>7 DEF Return
    <2>2. CASE pt # <<ProcOf[s], "log">>
      BY <2>1, <2>2, <1>t, <1>q, <1>s
    <2>3. CASE pt = <<ProcOf[s], "log">> /\ b = <<>>
      <3>1. memory'[pt] = memory[pt] \o <<>> /\ memory[pt] \in Seq(Items)
        BY <2>1, <2>3, <1>t, <1>q
      <3>2. memory'[pt] = memory[pt]
        BY <3>1
      <3> QED BY <2>1, <3>2, <1>s
    <2> QED BY <1>7, <2>2, <2>3
  <1>8. ASSUME NEW s \in Subs, HandlerThrows(s) \/ HandlerTimesOut(s), pt = <<ProcOf[s], "log">>
        PROVE  Flows(p, t, r)
    <2> DEFINE d == Dead(handling[s], s)
               f == Item("failed", handling[s], s)
    <2>1. /\ handling[s] \in Msgs /\ handling[s] # Idle
          /\ inbox' = inbox /\ sending' = sending
      BY <1>8, <1>t DEF HandlerThrows, HandlerTimesOut, Return
    <2>2. d \in Items /\ f \in Items
      BY <2>1, ItemsMade DEF Dead
    <2>3. Put(d, p, t) /\ Put(f, p, t)
      BY <1>8, <2>1 DEF Put
    <2>m. memory[pt] \in Seq(Items) /\ t = "log"
      BY <1>8, <1>t, <1>q
    <2>4. CASE HandlerThrows(s)
      <3>1. memory'[pt] = memory[pt] \o <<f>>
        BY <2>4, <1>8, <1>t, <1>q DEF HandlerThrows, Return
      <3> HIDE DEF f
      <3>2. memory'[pt] = Append(memory[pt], f)
        BY <3>1, <2>2, <2>m
      <3> QED BY <3>2, <2>1, <2>2, <2>3, <1>p
    <2>5. CASE HandlerTimesOut(s)
      <3>1. memory'[pt] = memory[pt] \o <<d, f>>
        BY <2>5, <1>8, <1>t, <1>q DEF HandlerTimesOut, Return, Dead
      <3> HIDE DEF d, f
      <3> DEFINE c == Append(memory[pt], d)
      <3>2. memory'[pt] = Append(c, f) /\ c \in Seq(Items)
        BY <3>1, <2>2, <2>m, TwoAtTheEnd
      <3>3. \A x \in Elements(c) : x \in Elements(memory[pt]) \/ x = d
        BY <2>2, <2>m, AfterAppend
      <3>4. \A x \in Elements(memory'[pt]) : x \in Elements(memory[pt]) \/ x = d \/ x = f
        <4> HIDE DEF c
        <4> QED BY <3>2, <3>3, <2>2, AfterAppend
      <3>5. ASSUME NEW x \in Items, NEW y \in Items, Ahead(x, y, p, t, r)'
            PROVE  \/ Ahead(x, y, p, t, r)
                   \/ y \in {d, f} /\ (InPipe(x, p, t, r) \/ x = d)
        <4>1. Earlier(x, y, inbox[r], sending[pt], Append(c, f))
          BY <3>2, <3>5, <2>1 DEF Ahead
        <4>2. \/ Earlier(x, y, inbox[r], sending[pt], c)
              \/ y = f /\ x \in Elements(inbox[r]) \cup Elements(sending[pt]) \cup Elements(c)
          <5> HIDE DEF c
          <5> QED BY <4>1, <3>2, <2>2, EarlierPut
        <4>3. Earlier(x, y, inbox[r], sending[pt], c) =>
                \/ Earlier(x, y, inbox[r], sending[pt], memory[pt])
                \/ y = d /\ x \in Elements(inbox[r]) \cup Elements(sending[pt]) \cup Elements(memory[pt])
          BY <2>2, <2>m, EarlierPut
        <4> QED BY <4>2, <4>3, <3>3 DEF Ahead, InPipe, InQueue
      <3> QED BY <2>1, <2>3, <2>m, <3>4, <3>5 DEF Flows, InQueue
    <2> QED BY <1>8, <2>4, <2>5
  <1>9. ASSUME Log \/ LogFails PROVE Flows(p, t, r)
    <2>1. /\ memory' = memory /\ sending' = sending /\ inbox[Logger] # <<>>
          /\ inbox'[Logger] = Tail(inbox[Logger]) /\ \A s \in Subs \ {Logger} : inbox'[s] = inbox[s]
      BY <1>9, <1>t DEF Log, LogFails
    <2>2. CASE t = "log"
      BY <2>1, <2>2, <1>h, <1>r
    <2>3. CASE t = "app"
      BY <2>1, <2>3, <1>s, <1>r
    <2> QED BY <2>2, <2>3
  <1>10. ASSUME NEW c \in Procs, Crash(c) PROVE Flows(p, t, r)
    <2>1. PICK read \in [Subs -> 0..Cardinality(Msgs)] : CrashAs(c, read)
      BY <1>10, CrashParts
    <2>2. \/ memory'[pt] = <<>> /\ sending'[pt] = <<>>
          \/ memory'[pt] = memory[pt] /\ sending'[pt] = sending[pt]
      BY <2>1, <1>q DEF CrashAs
    <2>3. \A x : InQueue(x, p, t)' => InQueue(x, p, t)
      BY <2>2, <1>e DEF InQueue
    <2>4. CASE r \in Subs
      <3>1. inbox'[r] = SubSeq(inbox[r], read[r] + 1, Len(inbox[r])) /\ read[r] \in 0 .. Len(inbox[r])
        BY <2>1, <2>4 DEF CrashAs
      <3>2. Elements(inbox'[r]) \subseteq Elements(inbox[r])
        BY <3>1, <1>t, <1>r, AfterCut
      <3>3. \A x, y : Ahead(x, y, p, t, r)' => Ahead(x, y, p, t, r)
        BY <3>1, <2>2, <1>t, <1>r, EarlierCut DEF Ahead
      <3> QED BY <2>3, <3>2, <3>3 DEF Flows
    <2>5. CASE r \notin Subs
      <3>1. inbox'[r] = inbox[r]
        BY <2>1, <2>5, <1>r DEF CrashAs
      <3>2. \A x, y : Ahead(x, y, p, t, r)' => Ahead(x, y, p, t, r)
        BY <3>1, <2>2, <1>e DEF Ahead, Earlier
      <3> QED BY <2>3, <3>1, <3>2 DEF Flows
    <2> QED BY <2>4, <2>5
  <1>11. CASE UNCHANGED vars
    BY <1>11, <1>s DEF vars
  <1>12. ASSUME NEW s \in Subs, Handled(s) \/ HandlerThrows(s) \/ HandlerTimesOut(s)
         PROVE  Flows(p, t, r)
    <2>1. CASE pt = <<ProcOf[s], "log">>
      BY <1>12, <2>1, <1>7, <1>8 DEF Handled
    <2>2. CASE pt # <<ProcOf[s], "log">>
      BY <1>12, <2>2, <1>7 DEF Handled, HandlerThrows, HandlerTimesOut
    <2> QED BY <2>1, <2>2
  <1> QED BY <1>1, <1>2, <1>3, <1>4, <1>5, <1>6, <1>9, <1>10, <1>11, <1>12
          DEF Next, Publisher, Subscriber

\* What is in the log queue of a process is with the reader, in the queue, lost or the next
\* to be read.
LEMMA LogStays ==
    ASSUME TypeOK, [Next]_vars, NEW p \in Procs, NEW x \in Items, InPipe(x, p, "log", Logger)
    PROVE  \/ InPipe(x, p, "log", Logger)' \/ x \in dropped'
           \/ Log /\ x = Head(inbox[Logger])
  <1> DEFINE pl == <<p, "log">>
  <1>t. /\ \A q \in Queues : memory[q] \in Seq(Items) /\ sending[q] \in Seq(Items)
        /\ \A s \in Subs \cup {Logger} : inbox[s] \in Seq(Items)
        /\ memory \in [Queues -> Seq(Items)] /\ sending \in [Queues -> Seq(Items)]
        /\ inbox \in [Subs \cup {Logger} -> Seq(Items)]
        /\ handling \in [Subs -> Msgs \cup {Idle}]
    BY DEF TypeOK
  <1>q. pl \in Queues /\ Queues = Procs \X {"app", "log"} /\ Logger \notin Subs
    BY ClientAssumption DEF Queues
  <1> SUFFICES ASSUME ~(Log /\ x = Head(inbox[Logger]))
               PROVE  InPipe(x, p, "log", Logger)' \/ x \in dropped'
    OBVIOUS
  <1>x. ASSUME \A y \in Elements(memory[pl]) : y \in Elements(memory'[pl]),
               sending'[pl] = sending[pl], inbox'[Logger] = inbox[Logger]
        PROVE  InPipe(x, p, "log", Logger)'
    BY <1>x DEF InPipe, InQueue
  <1>1. ASSUME NEW n \in Msgs, Push(n) PROVE InPipe(x, p, "log", Logger)'
    BY <1>1, <1>x, <1>t, <1>q DEF Push
  <1>2. ASSUME NEW n \in Msgs, EnqueueLog(n) PROVE InPipe(x, p, "log", Logger)'
    <2>1. Item("enqueue", n, Home[n]) \in Items
      BY ItemsMade, ClientAssumption
    <2>2. \A y \in Elements(memory[pl]) : y \in Elements(Append(memory[pl], Item("enqueue", n, Home[n])))
      BY <2>1, <1>t, <1>q, ElementsOfAppend
    <2> QED BY <1>2, <2>2, <1>x, <1>t, <1>q DEF EnqueueLog
  <1>3. ASSUME NEW q \in Queues, Take(q) PROVE InPipe(x, p, "log", Logger)'
    <2>1. CASE q = pl
      <3>1. /\ sending[pl] = <<>> /\ sending'[pl] = Oldest(memory[pl])
            /\ memory'[pl] = Rest(memory[pl]) /\ inbox' = inbox
        BY <1>3, <2>1, <1>t DEF Take
      <3>2. Elements(sending[pl]) = {}
        BY <3>1 DEF Elements
      <3>3. \A y \in Elements(memory[pl]) : y \in Elements(sending'[pl]) \/ y \in Elements(memory'[pl])
        BY <3>1, <1>t, <1>q, Batches
      <3> QED BY <3>1, <3>2, <3>3 DEF InPipe, InQueue
    <2>2. CASE q # pl
      BY <1>3, <2>2, <1>x, <1>t, <1>q DEF Take
    <2> QED BY <2>1, <2>2
  <1>4. ASSUME NEW q \in Queues, Send(q) PROVE InPipe(x, p, "log", Logger)'
    <2>1. /\ sending[q] # <<>> /\ sending'[q] = Tail(sending[q])
          /\ \A o \in Queues \ {q} : sending'[o] = sending[o]
          /\ memory' = memory
          /\ inbox'[Logger] = IF Logger \in SubscriptionsOf(q[2])
                              THEN Append(inbox[Logger], Head(sending[q])) ELSE inbox[Logger]
      BY <1>4, <1>t DEF Send
    <2>2. /\ Head(sending[q]) \in Items
          /\ \A y \in Elements(sending[q]) : y = Head(sending[q]) \/ y \in Elements(sending'[q])
      BY <2>1, <1>t, ElementsOfTail
    <2>3. \A y \in Elements(inbox[Logger]) : y \in Elements(inbox'[Logger])
      BY <2>1, <2>2, <1>t, ElementsOfAppend
    <2>4. q = pl => Head(sending[q]) \in Elements(inbox'[Logger])
      BY <2>1, <2>2, <1>t, ElementsOfAppend DEF SubscriptionsOf
    <2>5. x \in Elements(sending[pl]) => x \in Elements(sending'[pl]) \cup Elements(inbox'[Logger])
      BY <2>1, <2>2, <2>4, <1>q
    <2> QED BY <2>1, <2>3, <2>5 DEF InPipe, InQueue
  <1>5. ASSUME NEW q \in Queues, SendFails(q) PROVE InPipe(x, p, "log", Logger)' \/ x \in dropped'
    <2>1. /\ sending[q] # <<>> /\ sending'[q] = Tail(sending[q])
          /\ \A o \in Queues \ {q} : sending'[o] = sending[o]
          /\ dropped' = dropped \cup {Head(sending[q])} /\ memory' = memory /\ inbox' = inbox
      BY <1>5, <1>t DEF SendFails
    <2>2. \A y \in Elements(sending[q]) : y = Head(sending[q]) \/ y \in Elements(sending'[q])
      BY <2>1, <1>t, ElementsOfTail
    <2>3. x \in Elements(sending[pl]) => x \in Elements(sending'[pl]) \cup dropped'
      BY <2>1, <2>2, <1>q
    <2> QED BY <2>1, <2>3 DEF InPipe, InQueue
  <1>6. ASSUME NEW s \in Subs, Receive(s) PROVE InPipe(x, p, "log", Logger)'
    <2>1. /\ inbox[s] # <<>> /\ inbox'[Logger] = inbox[Logger] /\ sending' = sending
          /\ memory' = [memory EXCEPT ![<<ProcOf[s], "log">>] =
                          Append(@, Item("ack", Head(inbox[s]).msg, s))]
      BY <1>6, <1>t, <1>q DEF Receive
    <2>2. Item("ack", Head(inbox[s]).msg, s) \in Items
      BY <2>1, <1>t, ElementsOfTail, ItemsMade
    <2>3. \A y \in Elements(memory[pl]) :
             y \in Elements(Append(memory[pl], Item("ack", Head(inbox[s]).msg, s)))
      BY <2>2, <1>t, <1>q, ElementsOfAppend
    <2> QED BY <2>1, <2>3, <1>x, <1>t, <1>q
  <1>7. ASSUME NEW s \in Subs, NEW b \in Seq(Items), Return(s, b) PROVE InPipe(x, p, "log", Logger)'
    <2>1. \A y \in Elements(memory[pl]) : y \in Elements(memory[pl] \o b)
      BY <1>t, <1>q, ElementsOfConcat
    <2> QED BY <1>7, <2>1, <1>x, <1>t, <1>q DEF Return
  <1>8. ASSUME NEW s \in Subs, Handled(s) \/ HandlerThrows(s) \/ HandlerTimesOut(s)
        PROVE  InPipe(x, p, "log", Logger)'
    <2>1. handling[s] \in Msgs
      BY <1>8, <1>t DEF Handled, HandlerThrows, HandlerTimesOut, Return
    <2>2. /\ <<>> \in Seq(Items)
          /\ <<Item("failed", handling[s], s)>> \in Seq(Items)
          /\ <<Item("deadletter", handling[s], s), Item("failed", handling[s], s)>> \in Seq(Items)
      BY <2>1, ItemsMade
    <2> QED BY <1>7, <1>8, <2>2 DEF Handled, HandlerThrows, HandlerTimesOut
  <1>9. ASSUME Log \/ LogFails PROVE InPipe(x, p, "log", Logger)' \/ x \in dropped'
    <2>1. /\ memory' = memory /\ sending' = sending /\ inbox[Logger] # <<>>
          /\ inbox'[Logger] = Tail(inbox[Logger])
          /\ Log \/ Head(inbox[Logger]) \in dropped'
      BY <1>9, <1>t DEF Log, LogFails
    <2>2. \A y \in Elements(inbox[Logger]) : y = Head(inbox[Logger]) \/ y \in Elements(inbox'[Logger])
      BY <2>1, <1>t, ElementsOfTail
    <2> QED BY <2>1, <2>2 DEF InPipe, InQueue
  <1>10. ASSUME NEW c \in Procs, Crash(c) PROVE InPipe(x, p, "log", Logger)' \/ x \in dropped'
    <2>1. PICK read \in [Subs -> 0..Cardinality(Msgs)] : CrashAs(c, read)
      BY <1>10, CrashParts
    <2>2. inbox'[Logger] = inbox[Logger]
      BY <2>1, <1>q DEF CrashAs
    <2>3. CASE c = p
      <3>1. Elements(memory[pl]) \cup Elements(sending[pl]) \subseteq dropped'
        BY <2>1, <2>3 DEF CrashAs, GoneFromQueues
      <3> QED BY <2>2, <3>1 DEF InPipe, InQueue
    <2>4. CASE c # p
      BY <2>1, <2>2, <2>4, <1>x, <1>q DEF CrashAs
    <2> QED BY <2>3, <2>4
  <1>11. CASE UNCHANGED vars
    BY <1>11, <1>x DEF vars
  <1> QED BY <1>1, <1>2, <1>3, <1>4, <1>5, <1>6, <1>8, <1>9, <1>10, <1>11
          DEF Next, Publisher, Subscriber

\* Which steps change the rest of the state.
LEMMA Changes ==
    ASSUME TypeOK, [Next]_vars
    PROVE  /\ pushed' = pushed \/ \E m \in Msgs : Push(m)
           /\ \A s \in Subs : got'[s] = got[s] \/ Receive(s)
           /\ \A m \in unlogged' : m \in unlogged \/ Push(m)
           /\ \A m \in unlogged : m \in unlogged' \/ EnqueueLog(m) \/ Enq(m) \in dropped'
           /\ \A s \in Subs : handling'[s] = handling[s] \/ handling'[s] = Idle \/ Receive(s)
           /\ late \subseteq late' /\ dropped \subseteq dropped'
           /\ (unmatched' = unmatched /\ row' = row) \/ Log
  <1>t. /\ got \in [Subs -> SUBSET Msgs] /\ handling \in [Subs -> Msgs \cup {Idle}]
        /\ unlogged \subseteq Msgs
    BY DEF TypeOK
  <1>1. CASE \E n \in Msgs : Push(n)
    BY <1>1, <1>t DEF Push
  <1>2. CASE \E n \in Msgs : EnqueueLog(n)
    BY <1>2, <1>t DEF EnqueueLog
  <1>3. CASE \E q \in Queues : Publisher(q)
    BY <1>3, <1>t DEF Publisher, Take, Send, SendFails
  <1>4. ASSUME NEW r \in Subs, Receive(r) PROVE
           /\ \A s \in Subs : got'[s] = got[s] \/ Receive(s)
           /\ \A s \in Subs : handling'[s] = handling[s] \/ Receive(s)
           /\ late \subseteq late'
           /\ UNCHANGED <<unlogged, row, pushed, dropped, unmatched>>
    BY <1>4, <1>t DEF Receive
  <1>5. ASSUME NEW r \in Subs, Handled(r) \/ HandlerThrows(r) \/ HandlerTimesOut(r) PROVE
           /\ \A s \in Subs : handling'[s] = handling[s] \/ handling'[s] = Idle
           /\ UNCHANGED <<unlogged, row, pushed, got, late, dropped, unmatched>>
    BY <1>5, <1>t DEF Handled, HandlerThrows, HandlerTimesOut, Return
  <1>6. CASE Log \/ LogFails
    BY <1>6, <1>t DEF Log, LogFails
  <1>7. ASSUME NEW p \in Procs, Crash(p) PROVE
           /\ \A s \in Subs : handling'[s] = handling[s] \/ handling'[s] = Idle
           /\ unlogged' \subseteq unlogged
           /\ \A m \in unlogged : m \in unlogged' \/ Enq(m) \in dropped'
           /\ dropped \subseteq dropped'
           /\ UNCHANGED <<row, pushed, got, late, unmatched>>
    <2>1. PICK read \in [Subs -> 0..Cardinality(Msgs)] : CrashAs(p, read)
      BY <1>7, CrashParts
    <2> QED BY <2>1, <1>t DEF CrashAs, GoneUnlogged, Enq
  <1>8. CASE UNCHANGED vars
    BY <1>8 DEF vars
  <1> QED BY <1>1, <1>2, <1>3, <1>4, <1>5, <1>6, <1>7, <1>8 DEF Next, Subscriber

-----------------------------------------------------------------------------
(* The invariant                                                            *)

\* The push of a message, and a report, in a queue of the process p.
Task(x, p) == x = Work(x.msg) /\ x.msg \in Elements(pushed) /\ Home[x.msg] = p
Report(x, p) ==
    /\ x.action # "work"
    /\ x.action = "enqueue" => x = Enq(x.msg) /\ Home[x.msg] = p
    /\ x.action \in {"ack", "deadletter"} =>
         x.from \in Subs /\ ProcOf[x.from] = p /\ x.msg \in got[x.from]
Made(x, p, t) == IF t = "app" THEN Task(x, p) ELSE Report(x, p)

\* Everything in a queue was put there by its process.
Origin ==
    \A t \in {"app", "log"} : \A r \in SubscriptionsOf(t), p \in Procs, x \in Items :
       /\ InQueue(x, p, t) => Made(x, p, t)
       /\ x \in Elements(inbox[r]) => \E q \in Procs : Made(x, q, t)

\* What the histories say of each other.
Known ==
    /\ \A k, l \in DOMAIN pushed : pushed[k] = pushed[l] => k = l
    /\ unlogged \subseteq Elements(pushed)
    /\ \A s \in Subs :
         /\ got[s] \subseteq Elements(pushed)
         /\ handling[s] # Idle => handling[s] \in got[s]
         /\ \A m \in unlogged : m \in got[s] => <<m, s>> \in late

\* What is on its way is in the order of the pushes, and has not been read.
Order ==
    \A p \in Procs, s \in Subs, x, y \in Items :
       Ahead(x, y, p, "app", s) /\ Home[x.msg] = p /\ Home[y.msg] = p => Before(x.msg, y.msg)
NotYet ==
    \A p \in Procs, s \in Subs, x \in Items :
       InPipe(x, p, "app", s) /\ Home[x.msg] = p => x.msg \notin got[s]

\* What is older than a message s has read has been read or was lost.
Skips(s, n, m) ==
    m \in got[s] /\ Home[n] = Home[m] /\ Before(n, m) /\ n \notin got[s] /\ Work(n) \notin dropped
NoneSkipped == \A s \in Subs, m, n \in Msgs : ~Skips(s, n, m)

\* The report on a push is to be made, is on its way, lost, or has made the row.
Logged ==
    \A m \in Elements(pushed) :
       \/ m \in unlogged \/ row[m] # "none" \/ Enq(m) \in dropped
       \/ InPipe(Enq(m), Home[m], "log", Logger)

\* No report of a subscriber is before the report on the push, if both are of one process.
EnqFirst ==
    \A m \in Msgs, s \in Subs : ProcOf[s] = Home[m] /\ <<m, s>> \notin late =>
       \A x \in {Ack(m, s), Dead(m, s)} : ~Ahead(x, Enq(m), Home[m], "log", Logger)

\* With one subscriber, no acknowledgment is behind the dead letter of its message.
LastWord ==
    Cardinality(Subs) = 1 =>
       \A m \in Msgs, s \in Subs :
          /\ ~Ahead(Dead(m, s), Ack(m, s), ProcOf[s], "log", Logger)
          /\ row[m] = "DEADLETTER" =>
               m \in got[s] /\ ~InPipe(Ack(m, s), ProcOf[s], "log", Logger)

LEMMA ItemFields ==
    /\ \A a, m, f : Item(a, m, f).action = a /\ Item(a, m, f).msg = m /\ Item(a, m, f).from = f
    /\ \A x \in Items : x = Item(x.action, x.msg, x.from) /\ x.msg \in Msgs
  BY DEF Item, Items

LEMMA ReportFields ==
    /\ \A m \in Msgs : /\ Work(m) \in Items /\ Work(m).action = "work" /\ Work(m).msg = m
                       /\ Enq(m) \in Items /\ Enq(m).action = "enqueue" /\ Enq(m).msg = m
    /\ \A m \in Msgs, s \in Subs :
         /\ Ack(m, s) \in Items /\ Ack(m, s).action = "ack"
         /\ Ack(m, s).msg = m /\ Ack(m, s).from = s
         /\ Dead(m, s) \in Items /\ Dead(m, s).action = "deadletter"
         /\ Dead(m, s).msg = m /\ Dead(m, s).from = s
    /\ \A x \in Items : x.action \in {"ack", "deadletter"} =>
          x = Ack(x.msg, x.from) \/ x = Dead(x.msg, x.from)
  <1>1. \A m \in Msgs : Home[m] \in Procs
    BY ClientAssumption
  <1> QED BY <1>1, ItemsMade, ItemFields DEF Work, Enq, Ack, Dead

\* The messages that have been pushed stay, in their order.
LEMMA PushedGrows ==
    ASSUME TypeOK, [Next]_vars
    PROVE  /\ Elements(pushed) \subseteq Elements(pushed')
           /\ Elements(pushed) \subseteq Msgs
           /\ \A m, n : Before(m, n) => Before(m, n)'
           /\ \A n \in Msgs : Push(n) =>
                /\ n \notin Elements(pushed) /\ Elements(pushed') = Elements(pushed) \cup {n}
                /\ \A m \in Elements(pushed) : Before(m, n)'
  <1>t. pushed \in Seq(Msgs) /\ \A k \in DOMAIN pushed : pushed[k] \in Msgs
    BY DEF TypeOK
  <1>1. ASSUME NEW n \in Msgs, Push(n)
        PROVE  /\ n \notin Elements(pushed) /\ Elements(pushed') = Elements(pushed) \cup {n}
               /\ \A m \in Elements(pushed) : Before(m, n)'
               /\ \A m, o : Before(m, o) => Before(m, o)'
    <2>1. /\ DOMAIN pushed = 1 .. Len(pushed) /\ DOMAIN pushed' = 1 .. Len(pushed) + 1
          /\ Len(pushed) \in Nat /\ pushed'[Len(pushed) + 1] = n
          /\ \A k \in 1 .. Len(pushed) : pushed'[k] = pushed[k]
          /\ n \notin Elements(pushed)
      BY <1>1, <1>t DEF Push
    <2>2. \A k \in 1 .. Len(pushed) + 1 : k \in 1 .. Len(pushed) \/ k = Len(pushed) + 1
      BY <2>1
    <2>3. \A k \in 1 .. Len(pushed) : k < Len(pushed) + 1 /\ k \in 1 .. Len(pushed) + 1
      BY <2>1
    <2>4. Len(pushed) + 1 \in 1 .. Len(pushed) + 1
      BY <2>1
    <2>5. Elements(pushed') = Elements(pushed) \cup {n}
      BY <2>1, <2>2, <2>3, <2>4 DEF Elements
    <2>6. \A m \in Elements(pushed) : Before(m, n)'
      BY <2>1, <2>3, <2>4 DEF Elements, Before
    <2>7. \A m, o : Before(m, o) => Before(m, o)'
      BY <2>1, <2>3 DEF Before
    <2> QED BY <2>1, <2>5, <2>6, <2>7
  <1>2. pushed' = pushed \/ \E n \in Msgs : Push(n)
    BY Changes
  <1>3. pushed' = pushed => \A m, o : Before(m, o) => Before(m, o)'
    BY DEF Before
  <1>4. Elements(pushed) \subseteq Msgs
    BY <1>t DEF Elements
  <1> QED BY <1>1, <1>2, <1>3, <1>4

\* Every message is pushed once.
LEMMA Pushes == ASSUME TypeOK, Known PROVE \A m : ~Before(m, m)
  <1>1. \A k, l \in 1 .. Len(pushed) : k < l => k # l
    OBVIOUS
  <1>2. DOMAIN pushed = 1 .. Len(pushed)
    BY DEF TypeOK
  <1> QED BY <1>1, <1>2 DEF Before, Known

\* What a subscriber reads was pushed, and not read before; the rest of its process comes later.
LEMMA Reading ==
    ASSUME TypeOK, Origin, Known, Order, NotYet, NEW s \in Subs, Receive(s)
    PROVE  LET i == Head(inbox[s]) IN
           /\ i \in Items /\ i.msg \in Elements(pushed) /\ i.msg \notin got[s]
           /\ got'[s] = got[s] \cup {i.msg} /\ handling[s] = Idle /\ handling'[s] = i.msg
           /\ inbox'[s] = Tail(inbox[s])
  <1>1. /\ inbox[s] # <<>> /\ inbox[s] \in Seq(Items) /\ handling[s] = Idle
        /\ got'[s] = got[s] \cup {Head(inbox[s]).msg}
        /\ handling'[s] = Head(inbox[s]).msg
        /\ inbox'[s] = Tail(inbox[s])
    BY DEF Receive, TypeOK
  <1>2. Head(inbox[s]) \in Items /\ Head(inbox[s]) \in Elements(inbox[s])
    BY <1>1, ElementsOfTail, AfterTail
  <1>3. s \in SubscriptionsOf("app") /\ ProcOf[s] \in Procs
    BY ClientAssumption DEF SubscriptionsOf
  <1>4. \E p \in Procs : Task(Head(inbox[s]), p)
    BY <1>2, <1>3 DEF Origin, Made
  <1> QED BY <1>1, <1>2, <1>4 DEF Task, NotYet, InPipe

\* What is put into a queue is of its process.
LEMMA PutIsMade ==
    ASSUME TypeOK, Origin, Known, Order, NotYet, [Next]_vars,
           NEW p \in Procs, NEW t \in {"app", "log"}, NEW x \in Items, Put(x, p, t)
    PROVE  Made(x, p, t)'
  <1>1. ASSUME NEW m \in Msgs, Push(m), p = Home[m], t = "app", x = Work(m) PROVE Made(x, p, t)'
    <2>1. m \in Elements(pushed')
      BY <1>1, PushedGrows
    <2> QED BY <1>1, <2>1, ReportFields DEF Made, Task
  <1>2. ASSUME NEW m \in Msgs, EnqueueLog(m), p = Home[m], t = "log", x = Enq(m) PROVE Made(x, p, t)'
    BY <1>2, ReportFields DEF Made, Report
  <1>3. ASSUME NEW s \in Subs, Receive(s), p = ProcOf[s], t = "log", x = Ack(Head(inbox[s]).msg, s)
        PROVE  Made(x, p, t)'
    <2>1. Head(inbox[s]).msg \in Msgs /\ Head(inbox[s]).msg \in got'[s]
      BY <1>3, Reading, ItemFields
    <2> QED BY <1>3, <2>1, ReportFields DEF Made, Report
  <1>4. ASSUME NEW s \in Subs, HandlerThrows(s) \/ HandlerTimesOut(s), p = ProcOf[s], t = "log",
               handling[s] # Idle, x \in {Dead(handling[s], s), Item("failed", handling[s], s)}
        PROVE  Made(x, p, t)'
    <2>1. got' = got /\ handling[s] \in got[s] /\ handling[s] \in Msgs
      BY <1>4 DEF HandlerThrows, HandlerTimesOut, Return, Known, TypeOK
    <2>2. x.action = "failed" \/ x = Dead(handling[s], s)
      BY <1>4, ItemFields
    <2> QED BY <1>4, <2>1, <2>2, ReportFields DEF Made, Report
  <1> QED BY <1>1, <1>2, <1>3, <1>4 DEF Put

LEMMA MadeStays ==
    ASSUME TypeOK, [Next]_vars, NEW p \in Procs, NEW t \in {"app", "log"}, NEW x \in Items,
           Made(x, p, t)
    PROVE  Made(x, p, t)'
  <1>1. ASSUME NEW s \in Subs, Receive(s) PROVE got[s] \subseteq got'[s]
    BY <1>1 DEF Receive, TypeOK
  <1>2. \A s \in Subs : got[s] \subseteq got'[s]
    BY <1>1, Changes
  <1>3. Elements(pushed) \subseteq Elements(pushed')
    BY PushedGrows
  <1>4. Task(x, p) => Task(x, p)'
    BY <1>3 DEF Task
  <1>5. Report(x, p) => Report(x, p)'
    BY <1>2 DEF Report
  <1> QED BY <1>4, <1>5 DEF Made

LEMMA OriginNext ==
    TypeOK /\ Origin /\ Known /\ Order /\ NotYet /\ [Next]_vars => Origin'
  <1> SUFFICES ASSUME TypeOK, Origin, Known, Order, NotYet, [Next]_vars,
                      NEW t \in {"app", "log"}, NEW r \in SubscriptionsOf(t),
                      NEW p \in Procs, NEW x \in Items
               PROVE  /\ InQueue(x, p, t)' => Made(x, p, t)'
                      /\ x \in Elements(inbox'[r]) => \E q \in Procs : Made(x, q, t)'
    BY DEF Origin, SubscriptionsOf
  <1>1. Flows(p, t, r)
    BY FlowsNext
  <1>2. ASSUME InQueue(x, p, t)' PROVE Made(x, p, t)'
    <2>1. InQueue(x, p, t) \/ Put(x, p, t)
      BY <1>1, <1>2 DEF Flows
    <2>2. InQueue(x, p, t) => Made(x, p, t)
      BY DEF Origin
    <2> QED BY <2>1, <2>2, PutIsMade, MadeStays
  <1>3. ASSUME x \in Elements(inbox'[r]) PROVE \E q \in Procs : Made(x, q, t)'
    <2>1. x \in Elements(inbox[r]) \/ \E q \in Procs : InQueue(x, q, t)
      BY <1>1, <1>3 DEF Flows, InQueue
    <2>2. PICK q \in Procs : Made(x, q, t)
      BY <2>1 DEF Origin
    <2> QED BY <2>2, MadeStays
  <1> QED BY <1>2, <1>3

LEMMA KnownNext == TypeOK /\ Origin /\ Known /\ Order /\ NotYet /\ [Next]_vars => Known'
  <1> SUFFICES ASSUME TypeOK, Origin, Known, Order, NotYet, [Next]_vars PROVE Known'
    OBVIOUS
  <1>1. \A k, l \in DOMAIN pushed' : pushed'[k] = pushed'[l] => k = l
    <2>1. ASSUME NEW n \in Msgs, Push(n), NEW k \in DOMAIN pushed', NEW l \in DOMAIN pushed',
                 pushed'[k] = pushed'[l]
          PROVE  k = l
      <3>1. /\ DOMAIN pushed = 1 .. Len(pushed) /\ DOMAIN pushed' = 1 .. Len(pushed) + 1
            /\ Len(pushed) \in Nat /\ pushed'[Len(pushed) + 1] = n
            /\ \A j \in 1 .. Len(pushed) : pushed'[j] = pushed[j] /\ pushed[j] # n
        BY <2>1 DEF Push, TypeOK, Elements
      <3>2. \A j \in 1 .. Len(pushed) + 1 : j \in 1 .. Len(pushed) \/ j = Len(pushed) + 1
        BY <3>1
      <3> QED BY <2>1, <3>1, <3>2 DEF Known
    <2>2. pushed' = pushed \/ \E n \in Msgs : Push(n)
      BY Changes
    <2> QED BY <2>1, <2>2 DEF Known
  <1>2. unlogged' \subseteq Elements(pushed')
    <2>1. \A m \in unlogged' : m \in unlogged \/ Push(m)
      BY Changes
    <2>2. unlogged' \subseteq Msgs
      BY TypeNext DEF TypeOK
    <2> QED BY <2>1, <2>2, PushedGrows DEF Known
  <1>3. ASSUME NEW s \in Subs
        PROVE  /\ got'[s] \subseteq Elements(pushed')
               /\ handling'[s] # Idle => handling'[s] \in got'[s]
    <2>1. CASE Receive(s)
      BY <2>1, Reading, PushedGrows DEF Known
    <2>2. CASE ~Receive(s)
      BY <2>2, Changes, PushedGrows DEF Known
    <2> QED BY <2>1, <2>2
  <1>4. ASSUME NEW s \in Subs, NEW m \in unlogged', m \in got'[s] PROVE <<m, s>> \in late'
    <2>1. m \in Msgs
      BY TypeNext DEF TypeOK
    <2>2. CASE Push(m)
      <3>1. m \notin got[s] /\ got' = got
        BY <2>1, <2>2, PushedGrows DEF Known, Push
      <3> QED BY <1>4, <3>1
    <2>3. CASE m \in unlogged /\ got'[s] = got[s]
      BY <1>4, <2>3, Changes DEF Known
    <2>4. CASE m \in unlogged /\ Receive(s)
      <3>1. /\ got'[s] = got[s] \cup {Head(inbox[s]).msg}
            /\ late' = IF Head(inbox[s]).msg \in unlogged THEN late \cup {<<Head(inbox[s]).msg, s>>} ELSE late
        BY <2>4 DEF Receive, TypeOK
      <3> QED BY <1>4, <2>4, <3>1 DEF Known
    <2> QED BY <2>2, <2>3, <2>4, Changes
  <1> QED BY <1>1, <1>2, <1>3, <1>4 DEF Known

\* In the queues of a process, what comes new between two items comes at the end.
LEMMA OrderNext == TypeOK /\ Origin /\ Known /\ Order /\ NotYet /\ [Next]_vars => Order'
  <1> SUFFICES ASSUME TypeOK, Origin, Known, Order, NotYet, [Next]_vars,
                      NEW p \in Procs, NEW s \in Subs, NEW x \in Items, NEW y \in Items,
                      Ahead(x, y, p, "app", s)', Home[x.msg] = p, Home[y.msg] = p
               PROVE  Before(x.msg, y.msg)'
    BY DEF Order
  <1>1. s \in SubscriptionsOf("app") /\ Flows(p, "app", s)
    BY FlowsNext DEF SubscriptionsOf
  <1>2. \/ Ahead(x, y, p, "app", s)
        \/ Put(y, p, "app") /\ InPipe(x, p, "app", s)
        \/ \E q \in Procs \ {p} : InQueue(x, q, "app") \/ InQueue(y, q, "app")
    BY <1>1 DEF Flows, InQueue
  <1>3. CASE Ahead(x, y, p, "app", s)
    BY <1>3, PushedGrows DEF Order
  <1>4. CASE Put(y, p, "app") /\ InPipe(x, p, "app", s)
    <2>1. PICK n \in Msgs : Push(n) /\ y = Work(n)
      BY <1>4 DEF Put
    <2>2. x.msg \in Elements(pushed)
      BY <1>1, <1>4 DEF InPipe, Origin, Made, Task
    <2> QED BY <2>1, <2>2, PushedGrows, ReportFields
  <1>5. \A q \in Procs \ {p} : ~InQueue(x, q, "app") /\ ~InQueue(y, q, "app")
    BY <1>1 DEF Origin, Made, Task
  <1> QED BY <1>2, <1>3, <1>4, <1>5

LEMMA NotYetNext == TypeOK /\ Origin /\ Known /\ Order /\ NotYet /\ [Next]_vars => NotYet'
  <1> SUFFICES ASSUME TypeOK, Origin, Known, Order, NotYet, [Next]_vars,
                      NEW p \in Procs, NEW s \in Subs, NEW x \in Items,
                      InPipe(x, p, "app", s)', Home[x.msg] = p
               PROVE  x.msg \notin got'[s]
    BY DEF NotYet
  <1>1. s \in SubscriptionsOf("app") /\ Flows(p, "app", s)
    BY FlowsNext DEF SubscriptionsOf
  <1>2. \/ InPipe(x, p, "app", s) \/ Put(x, p, "app")
        \/ \E q \in Procs : InQueue(x, q, "app")
    BY <1>1 DEF Flows, InPipe, InQueue
  <1>3. \A q \in Procs : InQueue(x, q, "app") => q = p
    BY <1>1 DEF Origin, Made, Task
  <1>4. x.msg \notin got[s]
    <2>1. CASE Put(x, p, "app")
      <3>1. PICK n \in Msgs : Push(n) /\ x = Work(n)
        BY <2>1 DEF Put
      <3> QED BY <3>1, PushedGrows, ReportFields DEF Known
    <2>2. CASE InPipe(x, p, "app", s)
      BY <2>2 DEF NotYet
    <2> QED BY <1>2, <1>3, <2>1, <2>2 DEF InPipe
  <1>5. ASSUME Receive(s) PROVE x.msg # Head(inbox[s]).msg
    <2> DEFINE i == Head(inbox[s])
    <2>1. /\ inbox[s] # <<>> /\ inbox[s] \in Seq(Items) /\ inbox'[s] = Tail(inbox[s])
          /\ sending' = sending /\ memory'[<<p, "app">>] = memory[<<p, "app">>]
      BY <1>5 DEF Receive, TypeOK, Queues
    <2>2. Ahead(i, x, p, "app", s)
      BY <2>1, EarlierRead DEF InPipe, InQueue, Ahead
    <2>3. i \in Items
      BY <2>1, ElementsOfTail
    <2>4. x.msg = i.msg => Before(i.msg, i.msg)
      BY <2>2, <2>3 DEF Order
    <2> QED BY <2>4, Pushes
  <1> QED BY <1>4, <1>5, Changes, Reading

\* Of two messages one was pushed first, and only a push changes that.
LEMMA PushedOnce ==
    ASSUME TypeOK, Known, NEW m, NEW n
    PROVE  /\ ~(Before(m, n) /\ Before(n, m))
           /\ Before(m, n) => m \in Elements(pushed)
  <1>1. \A k, l, i, j \in DOMAIN pushed :
           ~(k < l /\ pushed[k] = m /\ pushed[l] = n /\ i < j /\ pushed[i] = n /\ pushed[j] = m)
    <2> SUFFICES ASSUME NEW k \in DOMAIN pushed, NEW l \in DOMAIN pushed, NEW i \in DOMAIN pushed,
                        NEW j \in DOMAIN pushed, k < l, pushed[k] = m, pushed[l] = n, i < j,
                        pushed[i] = n, pushed[j] = m
                 PROVE  FALSE
      OBVIOUS
    <2>1. k = j /\ l = i
      BY DEF Known
    <2>2. DOMAIN pushed = 1 .. Len(pushed) /\ Len(pushed) \in Nat
      BY DEF TypeOK
    <2> QED BY <2>1, <2>2
  <1> QED BY <1>1 DEF Before, Elements

LEMMA BeforeSame == UNCHANGED pushed => \A m, n : Before(m, n)' => Before(m, n)
  BY DEF Before

LEMMA BeforeStep ==
    ASSUME TypeOK, [Next]_vars, NEW m, NEW n, Before(n, m)'
    PROVE  Before(n, m) \/ \E x \in Msgs : Push(x) /\ m = x
  <1>1. CASE UNCHANGED pushed
    BY <1>1, BeforeSame
  <1>2. ASSUME NEW x \in Msgs, Push(x), m # x PROVE Before(n, m)
    <2>1. /\ DOMAIN pushed = 1 .. Len(pushed) /\ DOMAIN pushed' = 1 .. Len(pushed) + 1
          /\ Len(pushed) \in Nat /\ pushed'[Len(pushed) + 1] = x
          /\ \A k \in 1 .. Len(pushed) : pushed'[k] = pushed[k]
      BY <1>2 DEF Push, TypeOK
    <2>2. PICK k \in 1 .. Len(pushed) + 1, l \in 1 .. Len(pushed) + 1 :
             k < l /\ pushed'[k] = n /\ pushed'[l] = m
      BY <2>1 DEF Before
    <2>3. l # Len(pushed) + 1
      BY <1>2, <2>1, <2>2
    <2>4. k \in 1 .. Len(pushed) /\ l \in 1 .. Len(pushed)
      BY <2>1, <2>2, <2>3
    <2> QED BY <2>1, <2>2, <2>4 DEF Before
  <1> QED BY <1>1, <1>2, Changes

LEMMA NoneSkippedNext ==
    TypeOK /\ NothingForgotten /\ Origin /\ Known /\ Order /\ NotYet /\ NoneSkipped /\ [Next]_vars
      => NoneSkipped'
  <1> SUFFICES ASSUME TypeOK, NothingForgotten, Origin, Known, Order, NotYet, NoneSkipped,
                      [Next]_vars, NEW s \in Subs, NEW m \in Msgs, NEW n \in Msgs, Skips(s, n, m)'
               PROVE  FALSE
    BY DEF NoneSkipped
  <1>1. /\ m \in got'[s] /\ Home[n] = Home[m] /\ Before(n, m)'
        /\ n \notin got'[s] /\ Work(n) \notin dropped'
    BY DEF Skips
  <1>2. got[s] \subseteq got'[s] /\ dropped \subseteq dropped'
    BY Changes, Reading
  <1>3. n \notin got[s] /\ Work(n) \notin dropped
    BY <1>1, <1>2
  <1>4. CASE m \in got[s]
    <2>1. \A x \in Msgs : Push(x) => m # x
      BY <1>4, PushedGrows DEF Known
    <2>2. Before(n, m)
      BY <1>1, <2>1, BeforeStep
    <2> QED BY <1>1, <1>3, <1>4, <2>2 DEF NoneSkipped, Skips
  <1>5. CASE m \notin got[s]
    <2> DEFINE i == Head(inbox[s])
               p == Home[m]
    <2>1. Receive(s)
      BY <1>1, <1>5, Changes
    <2>2. /\ inbox[s] # <<>> /\ inbox[s] \in Seq(Items) /\ inbox'[s] = Tail(inbox[s])
          /\ UNCHANGED <<pushed, sending>>
      BY <2>1 DEF Receive, TypeOK
    <2>3. i \in Items /\ i.msg = m
      BY <1>1, <1>5, <2>1, Reading
    <2>4. Before(n, m)
      BY <1>1, <2>2, BeforeSame
    <2>5. n \in Elements(pushed) /\ ~Before(m, n) /\ n # m
      BY <2>4, PushedOnce, Pushes
    <2>6. Waiting(n, s)
      BY <1>3, <2>5 DEF NothingForgotten, Elements, Work
    <2>7. /\ p \in Procs /\ Home[n] = p
          /\ Work(n) \in Elements(inbox[s]) \cup Elements(sending[<<p, "app">>])
                            \cup Elements(memory[<<p, "app">>])
      BY <1>1, <2>6, ClientAssumption DEF Waiting, Work
    <2>8. Work(n) \in Items /\ Work(n).msg = n
      BY <2>7, ItemsMade DEF Work
    <2>9. i # Work(n)
      BY <2>3, <2>5, <2>8
    <2>10. Work(n) \in Elements(Tail(inbox[s])) \cup Elements(sending[<<p, "app">>])
                            \cup Elements(memory[<<p, "app">>])
      BY <2>2, <2>7, <2>9, ElementsOfTail
    <2>11. Ahead(i, Work(n), p, "app", s)
      BY <2>2, <2>10, EarlierRead DEF Ahead
    <2>12. Before(m, n)
      BY <2>3, <2>7, <2>8, <2>11 DEF Order
    <2> QED BY <2>5, <2>12
  <1> QED BY <1>4, <1>5

\* The next report to be read.
LEMMA Logging ==
    ASSUME TypeOK, Log
    PROVE  LET i == Head(inbox[Logger]) IN
           /\ i \in Items /\ i \in Elements(inbox[Logger])
           /\ row' = [row EXCEPT ![i.msg] = StateAfter(@, i.action)]
           /\ \A m \in Msgs : row'[m] = IF m = i.msg THEN StateAfter(row[m], i.action) ELSE row[m]
           /\ \A p \in Procs : \A y : InPipe(y, p, "log", Logger)' => Ahead(i, y, p, "log", Logger)
           /\ \A p \in Procs : \A y : InPipe(y, p, "log", Logger) /\ y # i => InPipe(y, p, "log", Logger)'
  <1> DEFINE i == Head(inbox[Logger])
  <1>1. /\ inbox[Logger] # <<>> /\ inbox[Logger] \in Seq(Items) /\ inbox'[Logger] = Tail(inbox[Logger])
        /\ row' = [row EXCEPT ![i.msg] = StateAfter(@, i.action)]
        /\ row \in [Msgs -> {"none", "NACK", "ACK", "DEADLETTER"}]
        /\ sending' = sending /\ memory' = memory
    BY DEF Log, TypeOK
  <1>2. i \in Items /\ i \in Elements(inbox[Logger])
    BY <1>1, ElementsOfTail, AfterTail
  <1>3. \A m \in Msgs : row'[m] = IF m = i.msg THEN StateAfter(row[m], i.action) ELSE row[m]
    BY <1>1
  <1>4. ASSUME NEW p \in Procs, NEW y, InPipe(y, p, "log", Logger)' PROVE Ahead(i, y, p, "log", Logger)
    BY <1>1, <1>4, EarlierRead DEF InPipe, InQueue, Ahead
  <1>5. ASSUME NEW p \in Procs, NEW y, InPipe(y, p, "log", Logger), y # i
        PROVE  InPipe(y, p, "log", Logger)'
    BY <1>1, <1>5, ElementsOfTail DEF InPipe, InQueue
  <1> QED BY <1>1, <1>2, <1>3, <1>4, <1>5

LEMMA LoggedNext ==
    TypeOK /\ Logged /\ [Next]_vars => Logged'
  <1> SUFFICES ASSUME TypeOK, Logged, [Next]_vars, NEW m \in Elements(pushed')
               PROVE  \/ m \in unlogged' \/ row'[m] # "none" \/ Enq(m) \in dropped'
                      \/ InPipe(Enq(m), Home[m], "log", Logger)'
    BY DEF Logged
  <1>0. m \in Msgs /\ Home[m] \in Procs
    BY TypeNext, ClientAssumption DEF TypeOK, Elements
  <1>1. CASE Push(m)
    BY <1>1 DEF Push
  <1>2. CASE m \in Elements(pushed) /\ m \in unlogged
    <2>1. CASE EnqueueLog(m)
      <3>1. /\ memory'[<<Home[m], "log">>] = Append(memory[<<Home[m], "log">>], Enq(m))
            /\ memory[<<Home[m], "log">>] \in Seq(Items)
        BY <2>1, <1>0 DEF EnqueueLog, TypeOK, Queues, Enq
      <3> QED BY <3>1, <1>0, ReportFields, ElementsOfAppend DEF InPipe, InQueue
    <2> QED BY <2>1, <1>2, Changes
  <1>3. CASE m \in Elements(pushed) /\ row[m] # "none"
    <2>1. CASE Log
      BY <2>1, <1>0, <1>3, Logging DEF StateAfter
    <2> QED BY <2>1, <1>3, Changes
  <1>4. CASE m \in Elements(pushed) /\ InPipe(Enq(m), Home[m], "log", Logger)
    <2>1. CASE Log /\ Enq(m) = Head(inbox[Logger])
      <3>1. row'[m] = StateAfter(row[m], "enqueue")
        BY <2>1, <1>0, Logging, ReportFields
      <3> QED BY <3>1 DEF StateAfter
    <2> QED BY <2>1, <1>0, <1>4, LogStays, ReportFields
  <1>5. m \in Elements(pushed) \/ Push(m)
    BY Changes, PushedGrows
  <1> QED BY <1>1, <1>2, <1>3, <1>4, <1>5, Changes DEF Logged

\* The step that puts a report of a subscriber into a queue puts no other report there.
LEMMA OnePut ==
    ASSUME TypeOK, NEW p \in Procs, NEW m \in Msgs, NEW s \in Subs,
           NEW x \in {Ack(m, s), Dead(m, s)}, Put(x, p, "log")
    PROVE  /\ p = ProcOf[s]
           /\ ~Put(Enq(m), p, "log")
           /\ x = Ack(m, s) => Receive(s) /\ Head(inbox[s]).msg = m
           /\ x = Dead(m, s) /\ Cardinality(Subs) = 1 => ~Put(Ack(m, s), p, "log")
  <1>1. /\ got \in [Subs -> SUBSET Msgs] /\ handling \in [Subs -> Msgs \cup {Idle}]
        /\ \A r \in Subs : inbox[r] \in Seq(Items)
    BY DEF TypeOK
  <1>2. /\ \A n \in Msgs : Enq(n).action = "enqueue"
        /\ \A n, r : /\ Ack(n, r).action = "ack" /\ Ack(n, r).msg = n /\ Ack(n, r).from = r
                     /\ Dead(n, r).action = "deadletter" /\ Dead(n, r).msg = n
                     /\ Dead(n, r).from = r
        /\ \A n, r : Item("failed", n, r).action = "failed"
    BY ItemFields DEF Enq, Ack, Dead
  <1>3. x.action # "enqueue" /\ x.action # "failed" /\ x.from = s /\ x.msg = m
    BY <1>2
  <1>4. \/ Receive(s) /\ p = ProcOf[s] /\ x = Ack(Head(inbox[s]).msg, s)
        \/ /\ HandlerThrows(s) \/ HandlerTimesOut(s)
           /\ p = ProcOf[s] /\ handling[s] # Idle /\ x = Dead(handling[s], s)
    BY <1>2, <1>3 DEF Put
  <1>5. unlogged' = unlogged
    BY <1>4 DEF Receive, HandlerThrows, HandlerTimesOut, Return
  <1>6. ~Put(Enq(m), p, "log")
    <2>1. ASSUME NEW n \in Msgs, EnqueueLog(n) PROVE FALSE
      BY <2>1, <1>5 DEF EnqueueLog
    <2> QED BY <2>1, <1>2 DEF Put
  <1>7. ASSUME x = Dead(m, s), Cardinality(Subs) = 1, NEW r \in Subs, Receive(r) PROVE FALSE
    <2>1. r = s
      BY <1>7, FS_Singleton, ClientAssumption
    <2>2. handling[s] = Idle
      BY <1>7, <2>1 DEF Receive
    <2> QED BY <1>2, <1>4, <1>7, <2>2
  <1>8. x = Dead(m, s) /\ Cardinality(Subs) = 1 => ~Put(Ack(m, s), p, "log")
    BY <1>2, <1>7 DEF Put
  <1>9. x = Ack(m, s) => Receive(s) /\ Head(inbox[s]).msg = m
    BY <1>2, <1>3, <1>4
  <1> QED BY <1>4, <1>6, <1>8, <1>9

\* A report of a subscriber is in the queues of its process only, and the message was read.
LEMMA Reported ==
    ASSUME TypeOK, Origin, NEW m \in Msgs, NEW s \in Subs, NEW x \in {Ack(m, s), Dead(m, s)},
           NEW p \in Procs
    PROVE  /\ InPipe(x, p, "log", Logger) => m \in got[s]
           /\ InQueue(x, p, "log") => p = ProcOf[s]
  <1>1. /\ x \in Items /\ x.action \in {"ack", "deadletter"} /\ x.msg = m /\ x.from = s
        /\ Logger \in SubscriptionsOf("log")
    BY ReportFields DEF SubscriptionsOf
  <1>2. InPipe(x, p, "log", Logger) => \E q \in Procs : Report(x, q)
    BY <1>1 DEF Origin, Made, InPipe
  <1>3. InQueue(x, p, "log") => Report(x, p)
    BY <1>1 DEF Origin, Made
  <1> QED BY <1>1, <1>2, <1>3 DEF Report

LEMMA EnqFirstNext ==
    TypeOK /\ Origin /\ Known /\ EnqFirst /\ [Next]_vars => EnqFirst'
  <1> SUFFICES ASSUME TypeOK, Origin, Known, EnqFirst, [Next]_vars,
                      NEW m \in Msgs, NEW s \in Subs, ProcOf[s] = Home[m], <<m, s>> \notin late',
                      NEW x \in {Ack(m, s), Dead(m, s)}
               PROVE  ~Ahead(x, Enq(m), Home[m], "log", Logger)'
    BY DEF EnqFirst, Ack, Dead
  <1> DEFINE p == Home[m]
  <1>1. /\ p \in Procs /\ x \in Items /\ Enq(m) \in Items /\ Enq(m).action = "enqueue" /\ Enq(m).msg = m
        /\ Logger \in SubscriptionsOf("log")
    BY ReportFields, ClientAssumption DEF SubscriptionsOf
  <1>2. Flows(p, "log", Logger)
    BY <1>1, FlowsNext
  <1>3. Ahead(x, Enq(m), p, "log", Logger)' =>
          \/ Ahead(x, Enq(m), p, "log", Logger)
          \/ Put(Enq(m), p, "log") /\ (InPipe(x, p, "log", Logger) \/ Put(x, p, "log"))
          \/ \E q \in Procs \ {p} : InQueue(x, q, "log") \/ InQueue(Enq(m), q, "log")
    BY <1>1, <1>2 DEF Flows, InQueue
  <1>4. ~Ahead(x, Enq(m), p, "log", Logger)
    BY Changes DEF EnqFirst
  <1>5. \A q \in Procs : InQueue(Enq(m), q, "log") => q = p
    BY <1>1 DEF Origin, Made, Report
  <1>6. \A q \in Procs : InQueue(x, q, "log") => q = p
    BY Reported
  <1>7. ASSUME Put(Enq(m), p, "log"), InPipe(x, p, "log", Logger) PROVE FALSE
    <2>1. PICK n \in Msgs : EnqueueLog(n) /\ Enq(m) = Enq(n)
      BY <1>7, ItemFields DEF Put, Enq, Ack, Dead
    <2>2. n = m /\ m \in unlogged
      BY <2>1, ReportFields DEF EnqueueLog
    <2>3. m \in got[s]
      BY <1>1, <1>7, Reported
    <2> QED BY <2>2, <2>3, Changes DEF Known
  <1>8. ~(Put(Enq(m), p, "log") /\ Put(x, p, "log"))
    BY <1>1, OnePut
  <1> QED BY <1>3, <1>4, <1>5, <1>6, <1>7, <1>8

LEMMA LastWordNext ==
    TypeOK /\ Origin /\ Known /\ Order /\ NotYet /\ LastWord /\ [Next]_vars => LastWord'
  <1> SUFFICES ASSUME TypeOK, Origin, Known, Order, NotYet, LastWord, [Next]_vars,
                      Cardinality(Subs) = 1, NEW m \in Msgs, NEW s \in Subs
               PROVE  /\ ~Ahead(Dead(m, s), Ack(m, s), ProcOf[s], "log", Logger)'
                      /\ row'[m] = "DEADLETTER" =>
                           m \in got'[s] /\ ~InPipe(Ack(m, s), ProcOf[s], "log", Logger)'
    BY DEF LastWord
  <1> DEFINE p == ProcOf[s]
             d == Dead(m, s)
             a == Ack(m, s)
  <1>1. /\ p \in Procs /\ d \in Items /\ a \in Items /\ a # d
        /\ d \in {a, d} /\ a \in {a, d} /\ Logger \in SubscriptionsOf("log")
    BY ReportFields, ClientAssumption DEF SubscriptionsOf
  <1>2. Flows(p, "log", Logger)
    BY <1>1, FlowsNext
  <1>3. /\ \A q \in Procs : InQueue(a, q, "log") \/ InQueue(d, q, "log") => q = p
        /\ InPipe(a, p, "log", Logger) \/ InPipe(d, p, "log", Logger) => m \in got[s]
    BY <1>1, Reported
  <1>4. Put(a, p, "log") => m \notin got[s]
    BY <1>1, OnePut, Reading
  <1>5. ~Ahead(d, a, p, "log", Logger)'
    <2>1. Ahead(d, a, p, "log", Logger)' =>
            \/ Ahead(d, a, p, "log", Logger)
            \/ Put(a, p, "log") /\ (InPipe(d, p, "log", Logger) \/ Put(d, p, "log"))
            \/ \E q \in Procs \ {p} : InQueue(d, q, "log") \/ InQueue(a, q, "log")
      BY <1>1, <1>2 DEF Flows, InQueue
    <2>2. ~(Put(a, p, "log") /\ Put(d, p, "log"))
      BY <1>1, OnePut
    <2> QED BY <2>1, <2>2, <1>3, <1>4 DEF LastWord
  <1>6. InPipe(a, p, "log", Logger)' => InPipe(a, p, "log", Logger) \/ Put(a, p, "log")
    <2>1. InPipe(a, p, "log", Logger)' =>
             \/ InPipe(a, p, "log", Logger) \/ Put(a, p, "log")
             \/ \E q \in Procs : InQueue(a, q, "log")
      BY <1>1, <1>2 DEF Flows, InPipe, InQueue
    <2> QED BY <2>1, <1>3 DEF InPipe
  <1>7. m \in got[s] => m \in got'[s]
    BY Changes, Reading
  <1>8. ASSUME row'[m] = "DEADLETTER"
        PROVE  m \in got'[s] /\ ~InPipe(a, p, "log", Logger)'
    <2>1. CASE row[m] = "DEADLETTER"
      BY <2>1, <1>4, <1>6, <1>7 DEF LastWord
    <2>2. CASE row[m] # "DEADLETTER"
      <3>1. Log
        BY <2>2, <1>8, Changes
      <3> DEFINE i == Head(inbox[Logger])
      <3>2. /\ i \in Items /\ i \in Elements(inbox[Logger]) /\ i.msg = m /\ i.action = "deadletter"
        BY <3>1, <2>2, <1>8, Logging DEF StateAfter
      <3>3. PICK q \in Procs : Report(i, q)
        BY <3>2, <1>1 DEF Origin, Made
      <3>4. i.from \in Subs /\ i = Dead(m, i.from)
        BY <3>2, <3>3, ReportFields DEF Report
      <3>5. i = d
        BY <3>4, FS_Singleton, ClientAssumption
      <3>6. InPipe(d, p, "log", Logger)
        BY <3>2, <3>5 DEF InPipe
      <3>7. InPipe(a, p, "log", Logger)' => Ahead(d, a, p, "log", Logger)
        BY <3>1, <3>5, <1>1, Logging
      <3> QED BY <3>6, <3>7, <1>3, <1>7 DEF LastWord
    <2> QED BY <2>1, <2>2
  <1> QED BY <1>5, <1>8

LEMMA RowNext ==
    TypeOK /\ Origin /\ Known /\ Logged /\ EnqFirst /\ RowBeforeReport /\ [Next]_vars
      => RowBeforeReport'
  <1> SUFFICES ASSUME TypeOK, Origin, Known, Logged, EnqFirst, RowBeforeReport, [Next]_vars,
                      NEW m \in Msgs, NEW s \in Subs, <<m, s>> \in unmatched',
                      ProcOf[s] = Home[m], <<m, s>> \notin late'
               PROVE  Enq(m) \in dropped'
    BY DEF RowBeforeReport, Enq
  <1>1. late \subseteq late' /\ dropped \subseteq dropped'
    BY Changes
  <1>2. CASE <<m, s>> \in unmatched
    BY <1>1, <1>2 DEF RowBeforeReport, Enq
  <1>3. CASE <<m, s>> \notin unmatched
    <2> DEFINE i == Head(inbox[Logger])
    <2>1. Log
      BY <1>3, Changes
    <2>2. i.action \in {"ack", "deadletter"} /\ row[m] = "none" /\ i.msg = m /\ i.from = s
      BY <1>3, <2>1 DEF Log
    <2>3. i \in Items /\ i \in Elements(inbox[Logger]) /\ i \in {Ack(m, s), Dead(m, s)}
      BY <2>1, <2>2, Logging, ReportFields
    <2>4. m \in got[s] /\ Home[m] \in Procs
      BY <2>3, Reported, ClientAssumption DEF InPipe
    <2>5. \/ m \in unlogged \/ Enq(m) \in dropped \/ InPipe(Enq(m), Home[m], "log", Logger)
      BY <2>2, <2>4 DEF Logged, Known
    <2>6. m \notin unlogged
      BY <1>1, <2>4 DEF Known
    <2>7. ~InPipe(Enq(m), Home[m], "log", Logger)
      <3>1. Enq(m) # i
        BY <2>2, ReportFields
      <3>2. ~Ahead(i, Enq(m), Home[m], "log", Logger)
        BY <1>1, <2>3 DEF EnqFirst
      <3> QED BY <2>1, <2>4, <3>1, <3>2, Logging
    <2> QED BY <1>1, <2>5, <2>6, <2>7
  <1> QED BY <1>2, <1>3

LEMMA DeadStep ==
    TypeOK /\ Origin /\ LastWord /\ [Next]_vars =>
      (Cardinality(Subs) = 1 =>
         \A m \in Msgs : row[m] = "DEADLETTER" => row'[m] = "DEADLETTER")
  <1> SUFFICES ASSUME TypeOK, Origin, LastWord, [Next]_vars, Cardinality(Subs) = 1,
                      NEW m \in Msgs, row[m] = "DEADLETTER", row'[m] # "DEADLETTER"
               PROVE  FALSE
    OBVIOUS
  <1> DEFINE i == Head(inbox[Logger])
  <1>1. Log
    BY Changes
  <1>2. i \in Items /\ i \in Elements(inbox[Logger]) /\ i.msg = m /\ i.action = "ack"
    BY <1>1, Logging DEF StateAfter
  <1>3. PICK s \in Subs : TRUE
    BY FS_Singleton, ClientAssumption
  <1>4. Logger \in SubscriptionsOf("log") /\ ProcOf[s] \in Procs
    BY ClientAssumption DEF SubscriptionsOf
  <1>5. \E q \in Procs : Report(i, q)
    BY <1>2, <1>4 DEF Origin, Made
  <1>6. i.from = s
    BY <1>2, <1>5, FS_Singleton, ClientAssumption DEF Report
  <1>7. i = Ack(m, s)
    BY <1>2, <1>6, ItemFields DEF Ack
  <1>8. InPipe(Ack(m, s), ProcOf[s], "log", Logger)
    BY <1>2, <1>7 DEF InPipe
  <1> QED BY <1>8 DEF LastWord

\* Three queues that follow each other, as one.
LEMMA ThreeInOne ==
    ASSUME NEW a \in Seq(Items), NEW b \in Seq(Items), NEW c \in Seq(Items)
    PROVE  LET q == a \o b \o c IN
           /\ q \in Seq(Items)
           /\ \A k \in 1 .. Len(q) :
                q[k] \in Items /\ q[k] \in Elements(a) \cup Elements(b) \cup Elements(c)
           /\ \A k, l \in 1 .. Len(q) : k < l => Earlier(q[k], q[l], a, b, c)
  <1> DEFINE q == a \o b \o c
             n == Len(a)
             o == Len(b)
             z == Len(c)
  <1>1. n \in Nat /\ o \in Nat /\ z \in Nat
    OBVIOUS
  <1>2. /\ a \o b \in Seq(Items) /\ Len(a \o b) = n + o
        /\ \A k \in 1 .. n + o : (a \o b)[k] = IF k <= n THEN a[k] ELSE b[k - n]
    BY ConcatProperties
  <1>3. /\ q \in Seq(Items) /\ Len(q) = n + o + z
        /\ \A k \in 1 .. n + o + z : q[k] = IF k <= n + o THEN (a \o b)[k] ELSE c[k - (n + o)]
    BY <1>2, ConcatProperties
  <1>4. DOMAIN a = 1..n /\ DOMAIN b = 1..o /\ DOMAIN c = 1..z
    OBVIOUS
  <1> HIDE DEF q, n, o, z
  <1>5. ASSUME NEW k \in 1 .. n + o + z
        PROVE  \/ k \in 1..n /\ q[k] = a[k]
               \/ k \in n + 1 .. n + o /\ k - n \in 1..o /\ q[k] = b[k - n]
               \/ k \in n + o + 1 .. n + o + z /\ k - (n + o) \in 1..z /\ q[k] = c[k - (n + o)]
    <2>1. CASE k \in 1..n
      <3>1. k \in 1 .. n + o /\ k <= n /\ k <= n + o
        BY <1>1, <2>1
      <3> QED BY <1>2, <1>3, <2>1, <3>1
    <2>2. CASE k \in n + 1 .. n + o
      <3>1. k \in 1 .. n + o /\ ~(k <= n) /\ k <= n + o /\ k - n \in 1..o
        BY <1>1, <2>2
      <3> QED BY <1>2, <1>3, <2>2, <3>1
    <2>3. CASE k \in n + o + 1 .. n + o + z
      <3>1. ~(k <= n + o) /\ k - (n + o) \in 1..z
        BY <1>1, <2>3
      <3> QED BY <1>3, <2>3, <3>1
    <2> QED BY <1>1, <2>1, <2>2, <2>3
  <1>6. /\ \A k \in 1..n : a[k] \in Elements(a)
        /\ \A k \in 1..o : b[k] \in Elements(b)
        /\ \A k \in 1..z : c[k] \in Elements(c)
    BY <1>4 DEF Elements
  <1>7. Elements(a) \subseteq Items /\ Elements(b) \subseteq Items /\ Elements(c) \subseteq Items
    BY ElementsAreItems
  <1>8. ASSUME NEW k \in 1 .. n + o + z, NEW l \in 1 .. n + o + z, k < l
        PROVE  Earlier(q[k], q[l], a, b, c)
    <2>1. CASE k \in 1..n /\ q[k] = a[k]
      <3>1. CASE l \in 1..n /\ q[l] = a[l]
        <4>1. Within(q[k], q[l], a)
          BY <1>4, <1>8, <2>1, <3>1 DEF Within
        <4> QED BY <4>1 DEF Earlier
      <3>2. CASE q[l] \in Elements(b) \cup Elements(c)
        BY <1>6, <2>1, <3>2 DEF Earlier
      <3> QED BY <1>5, <1>6, <3>1, <3>2
    <2>2. CASE k \in n + 1 .. n + o /\ k - n \in 1..o /\ q[k] = b[k - n]
      <3>1. l \notin 1..n
        BY <1>1, <1>8, <2>2
      <3>2. CASE l \in n + 1 .. n + o /\ l - n \in 1..o /\ q[l] = b[l - n]
        <4>1. k - n < l - n
          BY <1>1, <1>8
        <4>2. Within(q[k], q[l], b)
          BY <1>4, <2>2, <3>2, <4>1 DEF Within
        <4> QED BY <4>2 DEF Earlier
      <3>3. CASE q[l] \in Elements(c)
        BY <1>6, <2>2, <3>3 DEF Earlier
      <3> QED BY <1>5, <1>6, <3>1, <3>2, <3>3
    <2>3. CASE /\ k \in n + o + 1 .. n + o + z /\ k - (n + o) \in 1..z
               /\ q[k] = c[k - (n + o)]
      <3>1. l \notin 1..n /\ l \notin n + 1 .. n + o
        BY <1>1, <1>8, <2>3
      <3>2. l - (n + o) \in 1..z /\ q[l] = c[l - (n + o)]
        BY <1>5, <3>1
      <3>3. k - (n + o) < l - (n + o)
        BY <1>1, <1>8
      <3>4. Within(q[k], q[l], c)
        BY <1>4, <2>3, <3>2, <3>3 DEF Within
      <3> QED BY <3>4 DEF Earlier
    <2> QED BY <1>5, <2>1, <2>2, <2>3
  <1>9. \A k \in 1 .. n + o + z : q[k] \in Elements(a) \cup Elements(b) \cup Elements(c)
    BY <1>5, <1>6
  <1> QED BY <1>3, <1>7, <1>8, <1>9 DEF q

\* What is on its way is in order.
LEMMA OrderIsPipeOrder ==
    TypeOK /\ Order /\ NotYet =>
      \A p \in Procs, s \in Subs : \A k \in DOMAIN Pipe(p, s) : Home[Pipe(p, s)[k].msg] = p =>
         /\ Pipe(p, s)[k].msg \notin got[s]
         /\ \A l \in k + 1 .. Len(Pipe(p, s)) : Home[Pipe(p, s)[l].msg] = p =>
               Before(Pipe(p, s)[k].msg, Pipe(p, s)[l].msg)
  <1> SUFFICES ASSUME TypeOK, Order, NotYet, NEW p \in Procs, NEW s \in Subs,
                      NEW k \in DOMAIN Pipe(p, s), Home[Pipe(p, s)[k].msg] = p
               PROVE  /\ Pipe(p, s)[k].msg \notin got[s]
                      /\ \A l \in k + 1 .. Len(Pipe(p, s)) : Home[Pipe(p, s)[l].msg] = p =>
                            Before(Pipe(p, s)[k].msg, Pipe(p, s)[l].msg)
    OBVIOUS
  <1> DEFINE a == inbox[s]
             b == sending[<<p, "app">>]
             c == memory[<<p, "app">>]
             q == Pipe(p, s)
  <1>1. a \in Seq(Items) /\ b \in Seq(Items) /\ c \in Seq(Items)
    BY DEF TypeOK, Queues
  <1>2. q = a \o b \o c
    BY DEF Pipe
  <1> HIDE DEF q
  <1>3. /\ q \in Seq(Items)
        /\ \A j \in 1 .. Len(q) :
             q[j] \in Items /\ q[j] \in Elements(a) \cup Elements(b) \cup Elements(c)
        /\ \A i, j \in 1 .. Len(q) : i < j => Earlier(q[i], q[j], a, b, c)
    BY <1>1, <1>2, ThreeInOne
  <1>4. k \in 1 .. Len(q) /\ Home[q[k].msg] = p
    BY <1>3 DEF q
  <1>5. q[k].msg \notin got[s]
    BY <1>3, <1>4 DEF NotYet, InPipe, InQueue
  <1>6. ASSUME NEW l \in k + 1 .. Len(q), Home[q[l].msg] = p PROVE Before(q[k].msg, q[l].msg)
    <2>1. l \in 1 .. Len(q) /\ k < l
      BY <1>3, <1>4
    <2>2. Ahead(q[k], q[l], p, "app", s)
      BY <1>3, <1>4, <2>1 DEF Ahead
    <2> QED BY <1>3, <1>4, <1>6, <2>1, <2>2 DEF Order
  <1> QED BY <1>5, <1>6 DEF q

LEMMA OrderIsPushOrder == TypeOK /\ Order /\ NotYet /\ NoneSkipped => InPushOrder
  <1> SUFFICES ASSUME TypeOK, Order, NotYet, NoneSkipped PROVE InPushOrder
    OBVIOUS
  <1>1. \A s \in Subs : got[s] \subseteq Msgs
    BY DEF TypeOK
  <1>2. \A s \in Subs : \A m \in got[s], n \in Msgs : (Home[n] = Home[m] /\ Before(n, m)) =>
           n \in got[s] \/ Item("work", n, Home[n]) \in dropped
    BY <1>1 DEF NoneSkipped, Skips, Work
  <1> QED BY <1>2, OrderIsPipeOrder DEF InPushOrder

CInv == TypeOK /\ NothingForgotten /\ Origin /\ Known /\ Order /\ NotYet /\ NoneSkipped
          /\ Logged /\ EnqFirst /\ LastWord /\ RowBeforeReport

LEMMA CInvInit == Init => CInv
  <1> SUFFICES ASSUME Init PROVE CInv
    OBVIOUS
  <1>1. TypeOK
    BY TypeInit
  <1>2. Elements(<<>>) = {} /\ \A x, y : ~Within(x, y, <<>>)
    BY DEF Elements, Within
  <1>3. /\ \A p \in Procs, t \in {"app", "log"} :
             memory[<<p, t>>] = <<>> /\ sending[<<p, t>>] = <<>>
        /\ \A r \in Subs \cup {Logger} : inbox[r] = <<>>
    BY DEF Init, Queues
  <1>4. \A t \in {"app", "log"} : \A p \in Procs, r \in SubscriptionsOf(t) : \A x, y :
           ~InQueue(x, p, t) /\ ~InPipe(x, p, t, r) /\ ~Ahead(x, y, p, t, r)
    <2>1. ASSUME NEW t \in {"app", "log"}, NEW p \in Procs, NEW r \in SubscriptionsOf(t),
                 NEW x, NEW y
          PROVE  ~InQueue(x, p, t) /\ ~InPipe(x, p, t, r) /\ ~Ahead(x, y, p, t, r)
      <3>1. /\ memory[<<p, t>>] = <<>> /\ sending[<<p, t>>] = <<>> /\ inbox[r] = <<>>
        BY <1>3 DEF SubscriptionsOf
      <3> QED BY <1>2, <3>1 DEF InQueue, InPipe, Ahead, Earlier
    <2> QED BY <2>1
  <1>5. /\ Logger \in SubscriptionsOf("log") /\ \A s \in Subs : s \in SubscriptionsOf("app")
        /\ \A m \in Msgs : Home[m] \in Procs
        /\ \A s \in Subs : ProcOf[s] \in Procs
    BY ClientAssumption DEF SubscriptionsOf
  <1>6. Origin /\ Order /\ NotYet
    BY <1>4, <1>5 DEF Origin, Order, NotYet, InPipe
  <1>7. Known /\ Logged /\ RowBeforeReport
    BY <1>2 DEF Init, Known, Logged, RowBeforeReport, Elements
  <1>8. EnqFirst /\ LastWord
    BY <1>4, <1>5 DEF EnqFirst, LastWord, Init
  <1>9. NothingForgotten /\ NoneSkipped
    BY DEF Init, NothingForgotten, NoneSkipped, Skips
  <1> QED BY <1>1, <1>6, <1>7, <1>8, <1>9 DEF CInv

LEMMA CInvNext == CInv /\ [Next]_vars => CInv'
  BY TypeNext, KeptNext, OriginNext, KnownNext, OrderNext, NotYetNext, NoneSkippedNext,
     LoggedNext, EnqFirstNext, LastWordNext, RowNext DEF CInv

\* Whatever the batches, the failed calls and the crashes: what is on its way from a process
\* to a subscriber is in the order it was pushed in, and has not been read yet; and it has
\* read all older messages of the process that were not lost
\* (MemoryQueueService, PublisherBase, SubscriberBase).
THEOREM PushOrderKept == Spec => []InPushOrder
  <1>1. CInv => InPushOrder
    BY OrderIsPushOrder DEF CInv
  <1> QED BY <1>1, CInvInit, CInvNext, PTL DEF Spec

\* A report finds no row only for one of three reasons: the report on the push was lost, it
\* was made after the message had been read, or in another process
\* (MixQueueLogService, MixLogSubscriber).
THEOREM RowsBeforeReports == Spec => []RowBeforeReport
  <1>1. CInv => RowBeforeReport
    BY DEF CInv
  <1> QED BY <1>1, CInvInit, CInvNext, PTL DEF Spec

\* With one subscriber a row that is DEADLETTER stays so (MixQueueLogService).
THEOREM DeadLettersStay == Spec => DeadLetterStays
  <1>1. CInv /\ [Next]_vars =>
          [Cardinality(Subs) = 1 =>
             \A m \in Msgs : row[m] = "DEADLETTER" => row'[m] = "DEADLETTER"]_vars
    BY DeadStep DEF CInv
  <1> QED BY <1>1, CInvInit, CInvNext, PTL DEF Spec, DeadLetterStays

-----------------------------------------------------------------------------
(* Without failures                                                         *)

\* The bounds that make every run finite, set to nothing: no call fails, nothing crashes.
NothingFails == MaxFailures = 0 /\ MaxCrashes = 0

LEMMA NoneDropped ==
    ASSUME NothingFails, TypeOK, dropped = {}, [Next]_vars
    PROVE  dropped' = {}
  <1>1. ~(failures < MaxFailures) /\ ~(crashes < MaxCrashes)
    BY DEF NothingFails, TypeOK
  <1>2. ASSUME NEW q \in Queues, Publisher(q) PROVE dropped' = {}
    BY <1>1, <1>2 DEF Publisher, Take, Send, SendFails
  <1>3. ASSUME NEW s \in Subs, Subscriber(s) PROVE dropped' = {}
    BY <1>3 DEF Subscriber, Receive, Handled, HandlerThrows, HandlerTimesOut, Return
  <1>4. ASSUME NEW m \in Msgs, Push(m) \/ EnqueueLog(m) PROVE dropped' = {}
    BY <1>4 DEF Push, EnqueueLog
  <1>5. CASE Log \/ LogFails
    BY <1>1, <1>5 DEF Log, LogFails
  <1>6. ASSUME NEW p \in Procs, Crash(p) PROVE dropped' = {}
    BY <1>1, <1>6 DEF Crash
  <1>7. CASE UNCHANGED vars
    BY <1>7 DEF vars
  <1> QED BY <1>2, <1>3, <1>4, <1>5, <1>6, <1>7 DEF Next

\* What the comment in PublisherBase promises and a failed call breaks holds where no call
\* of Publish fails and no process crashes: every message is received or still being sent.
THEOREM SentUnlessFailed == ASSUME NothingFails PROVE Spec => []RetriedUntilSent
  <1>1. NothingForgotten /\ dropped = {} => RetriedUntilSent
    BY DEF NothingForgotten, RetriedUntilSent
  <1>2. Init => dropped = {}
    BY DEF Init
  <1>3. TypeOK /\ dropped = {} /\ [Next]_vars => (dropped = {})'
    BY NoneDropped
  <1> QED BY <1>1, <1>2, <1>3, TypeCorrect, NoneForgotten, PTL DEF Spec
=============================================================================
