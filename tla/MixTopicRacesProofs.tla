------------------------ MODULE MixTopicRacesProofs ------------------------
(***************************************************************************)
(* What is proved of MixTopicRaces for every set of messages, publishers,  *)
(* subscriptions and consumers, any number of messages, and any number of  *)
(* loops that poll for different subscriptions or for one.                 *)
(***************************************************************************)
EXTENDS MixTopicRaces, FiniteSetTheorems, TLAPS

-----------------------------------------------------------------------------
(* Lists                                                                    *)

\* The slots after an Add that has read a size of an earlier list.
LEMMA AddedParts ==
    ASSUME NEW q \in Seq(Subs), NEW n \in Nat, n <= Len(q), NEW s \in Subs
    PROVE  /\ Added(q, n, s) \in Seq(Subs)
           /\ n + 1 <= Len(Added(q, n, s))
           /\ Len(q) <= Len(Added(q, n, s))
           /\ Added(q, n, s)[n + 1] = s
           /\ \A k \in 1 .. Len(Added(q, n, s)) :
                 k # n + 1 => k <= Len(q) /\ Added(q, n, s)[k] = q[k]
  <1>1. CASE n < Len(q)
    <2>1. Added(q, n, s) = [q EXCEPT ![n + 1] = s]
      BY <1>1 DEF Added
    <2>2. n + 1 \in 1 .. Len(q)
      BY <1>1
    <2> QED BY <2>1, <2>2
  <1>2. CASE ~(n < Len(q))
    <2>1. Added(q, n, s) = Append(q, s) /\ n = Len(q)
      BY <1>2 DEF Added
    <2> QED BY <2>1
  <1> QED BY <1>1, <1>2

\* The loops are consumers that poll for subscriptions, and what they poll for is registered.
LEMMA LoopsParts ==
    ASSUME TypeOK
    PROVE  /\ Loops \subseteq Consumers
           /\ \A c \in Loops : subOf[c] \in Subs /\ subOf[c] \in Registered
           /\ Registered \subseteq Subs
           /\ IsFiniteSet(Registered)
           /\ Limit[subOf] \in 0..MaxPush
  <1>1. PICK C \in SUBSET Consumers : subOf \in [C -> Subs]
    BY RacesAssumption DEF TypeOK
  <1>2. Loops = C
    BY <1>1 DEF Loops
  <1>3. Registered \subseteq Subs
    BY <1>1, <1>2 DEF Registered
  <1>4. IsFiniteSet(Registered)
    BY <1>3, RacesAssumption, FS_Subset
  <1> QED BY <1>1, <1>2, <1>3, <1>4, RacesAssumption DEF TypeOK, Registered

-----------------------------------------------------------------------------
(* The inductive invariant                                                  *)

\* A loop has looked up a message exactly at the lines that use it.  No list is longer than
\* its array, nor has any loop read such a size.
Places ==
    /\ Len(log) <= MaxPush
    /\ \A c \in Consumers :
         /\ IF pc[c] \in {"mark", "read", "add", "dequeue"} THEN at[c] \in Objects ELSE at[c] = 0
         /\ pc[c] = "add" => size[c] <= Len(items[at[c]])
    /\ \A i \in Objects : count[i] <= Len(items[i])

\* In every slot that was ever written is a subscription of the topic that has got the
\* message, and one behind the end of the list has lost its entry.
Slots ==
    \A i \in Objects : \A k \in 1 .. Len(items[i]) :
       /\ items[i][k] \in Registered
       /\ taken[i][items[i][k]] > 0
       /\ k > count[i] => <<i, items[i][k]>> \in undone

\* Two loops of one subscription are not adding to one message unnoticed.
Alone ==
    \A c, d \in Loops :
       (c # d /\ Adding(c) /\ Adding(d) /\ at[c] = at[d] /\ subOf[c] = subOf[d])
          => <<at[c], subOf[c]>> \in beside

\* A loop that is adding its subscription to a list is not in it already, but for the
\* accidents.
Missing ==
    \A c \in Loops :
       (/\ Adding(c)
        /\ <<at[c], subOf[c]>> \notin beside
        /\ at[c] \notin skipped \/ <<at[c], subOf[c]>> \notin undone)
          => subOf[c] \notin Entries(at[c])

\* For a subscription whose entry was not undone and that was not adding twice, the list
\* tells the truth.
Truthful ==
    \A i \in Objects, s \in Subs : <<i, s>> \notin undone \cup beside =>
       taken[i][s] = IF s \in Entries(i) THEN 1 ELSE 0

\* A list that is not miscounted has no subscription in it twice.
Single ==
    \A i \in Objects : ~Miscounted(i) =>
       \A k, l \in 1 .. count[i] : items[i][k] = items[i][l] => k = l

ListInv == Slots /\ Alone /\ Missing /\ Truthful /\ Single

\* Who has found a message consumed by all.
Done ==
    \A c \in Consumers : pc[c] = "dequeue" =>
       Miscounted(at[c]) \/ \A s \in Registered : taken[at[c]][s] > 0

\* Of two messages with one id, both were found to be new at once, whether they are in the
\* queue or on their way.
Twins ==
    /\ \A p, o \in Publishers :
         (p # o /\ pushing[p] = pushing[o] /\ pushing[p] # Idle) => pushing[p] \in together
    /\ \A p \in Publishers : InQueue(pushing[p]) => pushing[p] \in together
    /\ TwinsPushedTogether

-----------------------------------------------------------------------------

LEMMA ObjectsQueued == ASSUME TypeOK, Places PROVE Queued \subseteq Objects
  BY RacesAssumption DEF TypeOK, Places, Queued, Objects

\* Scan finds a message, or does not.
LEMMA ScanParts ==
    ASSUME TypeOK, Places, NEW c \in Consumers, Scan(c)
    PROVE  /\ pc[c] = "scan"
           /\ \/ pc' = [pc EXCEPT ![c] = "trim"] /\ UNCHANGED at
              \/ \E i \in Objects : at' = [at EXCEPT ![c] = i] /\ pc' = [pc EXCEPT ![c] = "mark"]
           /\ UNCHANGED <<subOf, queue, lists, pushing, size, taken, unchecked, accidents, together>>
  BY ObjectsQueued DEF Scan, Unseen, Goto

\* Trim looks at the oldest message.
LEMMA TrimParts ==
    ASSUME TypeOK, Places, NEW c \in Consumers, Trim(c)
    PROVE  /\ pc[c] = "trim"
           /\ \/ pc' = [pc EXCEPT ![c] = "start"] /\ UNCHANGED at
              \/ \E i \in Objects :
                   Full(i) /\ at' = [at EXCEPT ![c] = i] /\ pc' = [pc EXCEPT ![c] = "dequeue"]
           /\ UNCHANGED <<subOf, queue, lists, pushing, size, taken, unchecked, accidents, together>>
  <1>1. CASE Queued # {} /\ Full(head + 1)
    <2>1. head + 1 \in Queued
      BY <1>1 DEF Queued, TypeOK
    <2>2. head + 1 \in Objects
      BY <2>1, ObjectsQueued
    <2> QED BY <1>1, <2>2 DEF Trim, Goto
  <1>2. CASE ~(Queued # {} /\ Full(head + 1))
    BY <1>2 DEF Trim, Goto
  <1> QED BY <1>1, <1>2

\* TryDequeue moves the head by one, or the queue is empty.
LEMMA DequeueParts ==
    ASSUME TypeOK, Places, NEW c \in Consumers, TryDequeue(c)
    PROVE  /\ head' \in Nat /\ head' <= Len(log) /\ Len(log) <= MaxPush
           /\ \/ head' = head /\ unchecked' = unchecked
              \/ /\ head' = head + 1 /\ head + 1 \in Objects
                 /\ unchecked' = IF head + 1 = at[c] THEN unchecked ELSE unchecked \cup {head + 1}
  <1>1. head \in Nat /\ Len(log) \in Nat /\ head <= Len(log) /\ Len(log) <= MaxPush /\ MaxPush \in Nat
    BY RacesAssumption DEF TypeOK, Places
  <1>2. CASE Queued = {}
    BY <1>1, <1>2 DEF TryDequeue
  <1>3. CASE Queued # {}
    <2>1. head + 1 <= Len(log)
      BY <1>1, <1>3 DEF Queued
    <2> QED BY <1>1, <1>3, <2>1 DEF TryDequeue, Objects
  <1> QED BY <1>2, <1>3

LEMMA DequeueGrows ==
    ASSUME TypeOK, Places, NEW c \in Consumers, TryDequeue(c)
    PROVE  /\ head' \in Nat /\ head <= head' /\ head' <= MaxPush
           /\ unchecked \subseteq unchecked'
  <1>1. head \in Nat /\ MaxPush \in Nat /\ Len(log) \in Nat
    BY RacesAssumption DEF TypeOK
  <1> QED BY <1>1, DequeueParts

\* What Add does to the list of the message it has looked up.
AddsTo(c, i, n) ==
    /\ pc[c] = "add" /\ at[c] = i /\ size[c] = n
    /\ items' = [items EXCEPT ![i] = items'[i]]
    /\ items'[i] \in Seq(Subs)
    /\ n + 1 <= Len(items'[i]) /\ items'[i][n + 1] = subOf[c]
    /\ \A k \in 1 .. Len(items'[i]) :
          k # n + 1 => k <= Len(items[i]) /\ items'[i][k] = items[i][k]
    /\ Len(items[i]) <= Len(items'[i]) /\ n <= Len(items[i])
    /\ count' = [count EXCEPT ![i] = n + 1]
    /\ undone' = undone \cup {<<i, s>> : s \in Undone(i, n)}
    /\ skipped' = IF n > count[i] THEN skipped \cup {i} ELSE skipped
    /\ taken' = [taken EXCEPT ![i] = [taken[i] EXCEPT ![subOf[c]] = taken[i][subOf[c]] + 1]]
    /\ pc' = [pc EXCEPT ![c] = "scan"]
    /\ at' = [at EXCEPT ![c] = 0]
    /\ size' = [size EXCEPT ![c] = 0]
    /\ UNCHANGED <<subOf, queue, pushing, unchecked, beside, together>>

LEMMA AddParts ==
    ASSUME TypeOK, Places, NEW c \in Loops, Add(c)
    PROVE  \E i \in Objects, n \in Nat : AddsTo(c, i, n)
  <1>1. PICK i \in Objects, n \in Nat : at[c] = i /\ size[c] = n /\ pc[c] = "add" /\ n <= Len(items[i])
    BY LoopsParts DEF TypeOK, Places, Add
  <1>2. items[i] \in Seq(Subs) /\ subOf[c] \in Subs
    BY LoopsParts DEF TypeOK
  <1>3. items' = [items EXCEPT ![i] = Added(items[i], n, subOf[c])]
    BY <1>1 DEF Add
  <1>4. items'[i] = Added(items[i], n, subOf[c])
    BY <1>3 DEF TypeOK
  <1>5. /\ items'[i] \in Seq(Subs)
        /\ n + 1 <= Len(items'[i]) /\ items'[i][n + 1] = subOf[c]
        /\ \A k \in 1 .. Len(items'[i]) :
              k # n + 1 => k <= Len(items[i]) /\ items'[i][k] = items[i][k]
        /\ Len(items[i]) <= Len(items'[i])
    <2> DEFINE q == items[i]
               r == items'[i]
               s == subOf[c]
    <2>1. q \in Seq(Subs) /\ n \in Nat /\ n <= Len(q) /\ s \in Subs /\ r = Added(q, n, s)
      BY <1>1, <1>2, <1>4
    <2> SUFFICES /\ r \in Seq(Subs)
                 /\ n + 1 <= Len(r) /\ r[n + 1] = s
                 /\ \A k \in 1 .. Len(r) : k # n + 1 => k <= Len(q) /\ r[k] = q[k]
                 /\ Len(q) <= Len(r)
      OBVIOUS
    <2> HIDE DEF q, r, s
    <2> QED BY <2>1, AddedParts
  <1>6. /\ count' = [count EXCEPT ![i] = n + 1]
        /\ undone' = undone \cup {<<i, s>> : s \in Undone(i, n)}
        /\ skipped' = IF n > count[i] THEN skipped \cup {i} ELSE skipped
        /\ taken' = [taken EXCEPT ![i] = [taken[i] EXCEPT ![subOf[c]] = taken[i][subOf[c]] + 1]]
        /\ pc' = [pc EXCEPT ![c] = "scan"]
        /\ at' = [at EXCEPT ![c] = 0]
        /\ size' = [size EXCEPT ![c] = 0]
        /\ UNCHANGED <<subOf, queue, pushing, unchecked, beside, together>>
    BY <1>1 DEF Add, Goto
  <1>7. items' = [items EXCEPT ![i] = items'[i]]
    BY <1>3, <1>4
  <1> QED BY <1>1, <1>5, <1>6, <1>7 DEF AddsTo

\* A step that touches no list, and lets no loop begin to add.
Quiet ==
    /\ UNCHANGED <<subOf, lists, taken, accidents>>
    /\ \A d \in Consumers : Adding(d)' => Adding(d) /\ at'[d] = at[d]

LEMMA QuietSteps ==
    ASSUME TypeOK, Places, [Next]_vars,
           ~ \E c \in Loops : Mark(c) \/ Add(c)
    PROVE  Quiet
  <1> USE DEF TypeOK, Quiet, Adding
  <1>1. ASSUME NEW p \in Publishers, NEW m \in Msgs, PushCheck(p, m) PROVE Quiet
    BY <1>1 DEF PushCheck
  <1>2. ASSUME NEW p \in Publishers, PushEnqueue(p) PROVE Quiet
    BY <1>2 DEF PushEnqueue
  <1>3. ASSUME NEW c \in Consumers, Start(c) PROVE Quiet
    BY <1>3 DEF Start, Goto
  <1>4. ASSUME NEW c \in Consumers, Purge(c) PROVE Quiet
    BY <1>4 DEF Purge, Goto
  <1>5. ASSUME NEW c \in Consumers, Enter(c) PROVE Quiet
    BY <1>5 DEF Enter, Goto
  <1>6. ASSUME NEW c \in Consumers, Scan(c) PROVE Quiet
    BY <1>6, ScanParts
  <1>7. ASSUME NEW c \in Consumers, ReadSize(c) PROVE Quiet
    BY <1>7 DEF ReadSize, Goto
  <1>8. ASSUME NEW c \in Consumers, Trim(c) PROVE Quiet
    BY <1>8, TrimParts
  <1>9. ASSUME NEW c \in Consumers, Dequeue(c) PROVE Quiet
    BY <1>9 DEF Dequeue, Goto
  <1>10. CASE UNCHANGED vars
    BY <1>10 DEF vars
  <1> QED BY <1>1, <1>2, <1>3, <1>4, <1>5, <1>6, <1>7, <1>8, <1>9, <1>10 DEF Next, Consume

-----------------------------------------------------------------------------
(* Types *)

LEMMA AddFrame ==
    ASSUME TypeOK, NEW c \in Loops, NEW i \in Objects, NEW n \in Nat, AddsTo(c, i, n),
           NEW j \in Objects, j # i
    PROVE  items'[j] = items[j] /\ count'[j] = count[j]
  <1>1. items' = [items EXCEPT ![i] = items'[i]] /\ count' = [count EXCEPT ![i] = n + 1]
    BY DEF AddsTo
  <1>2. \A q : [items EXCEPT ![i] = q][j] = items[j]
    BY DEF TypeOK
  <1>3. items'[j] = items[j]
    BY <1>1, <1>2
  <1> QED BY <1>1, <1>3 DEF TypeOK

LEMMA AddTypes ==
    ASSUME TypeOK, Places, NEW c \in Loops, NEW i \in Objects, NEW n \in Nat, AddsTo(c, i, n)
    PROVE  TypeOK' /\ Places'
  <1> USE DEF TypeOK
  <1>1. c \in Consumers /\ subOf[c] \in Subs
    BY LoopsParts
  <1>2. items' \in [Objects -> Seq(Subs)] /\ count' \in [Objects -> Nat]
    <2>1. items' = [items EXCEPT ![i] = items'[i]] /\ items'[i] \in Seq(Subs)
      BY DEF AddsTo
    <2>2. \A q \in Seq(Subs) : [items EXCEPT ![i] = q] \in [Objects -> Seq(Subs)]
      OBVIOUS
    <2>3. [items EXCEPT ![i] = items'[i]] \in [Objects -> Seq(Subs)]
      BY <2>1, <2>2
    <2>4. items' \in [Objects -> Seq(Subs)]
      BY <2>1, <2>3
    <2>5. count' \in [Objects -> Nat]
      BY DEF AddsTo
    <2> QED BY <2>4, <2>5
  <1>3. taken' \in [Objects -> [Subs -> Nat]]
    BY <1>1 DEF AddsTo
  <1>4. undone' \subseteq Objects \X Subs /\ skipped' \subseteq Objects
    <2>1. Undone(i, n) \subseteq Subs
      BY DEF Undone, Places
    <2> QED BY <2>1 DEF AddsTo
  <1>5. /\ pc' \in [Consumers -> {"start", "purge", "enter", "scan", "mark", "read", "add", "trim", "dequeue"}]
        /\ at' \in [Consumers -> 0..MaxPush] /\ size' \in [Consumers -> Nat]
    BY <1>1, RacesAssumption DEF AddsTo
  <1>6. TypeOK'
    BY <1>2, <1>3, <1>4, <1>5 DEF AddsTo, queue
  <1>7. ASSUME NEW j \in Objects
        PROVE  Len(items[j]) <= Len(items'[j]) /\ count'[j] <= Len(items'[j])
    <2>1. CASE j = i
      BY <2>1 DEF AddsTo
    <2>2. CASE j # i
      <3>1. items'[j] = items[j] /\ count'[j] = count[j]
        BY <2>2, AddFrame
      <3> QED BY <3>1 DEF Places
    <2> QED BY <2>1, <2>2
  <1>8. ASSUME NEW d \in Consumers
        PROVE  /\ IF pc'[d] \in {"mark", "read", "add", "dequeue"}
                  THEN at'[d] \in Objects ELSE at'[d] = 0
               /\ pc'[d] = "add" => size'[d] <= Len(items'[at'[d]])
    <2>1. CASE d = c
      BY <1>1, <2>1 DEF AddsTo
    <2>2. CASE d # c
      <3>1. pc'[d] = pc[d] /\ at'[d] = at[d] /\ size'[d] = size[d]
        BY <1>1, <2>2 DEF AddsTo
      <3>2. pc[d] = "add" => at[d] \in Objects /\ size[d] <= Len(items[at[d]])
        BY DEF Places
      <3>3. pc[d] = "add" => size[d] <= Len(items'[at[d]])
        BY <1>2, <1>7, <3>2
      <3> QED BY <3>1, <3>3 DEF Places
    <2> QED BY <2>1, <2>2
  <1>9. Len(log') <= MaxPush
    BY DEF AddsTo, queue, Places
  <1> QED BY <1>6, <1>7, <1>8, <1>9 DEF Places

LEMMA TypeNext == TypeOK /\ Places /\ [Next]_vars => TypeOK' /\ Places'
  <1> SUFFICES ASSUME TypeOK, Places, [Next]_vars PROVE TypeOK' /\ Places'
    OBVIOUS
  <1>0. Objects \subseteq 0..MaxPush /\ Loops \subseteq Consumers
    BY RacesAssumption, LoopsParts DEF Objects
  <1> USE DEF TypeOK, Places, queue, lists, accidents
  <1>1. ASSUME NEW p \in Publishers, NEW m \in Msgs, PushCheck(p, m) PROVE TypeOK' /\ Places'
    BY <1>1 DEF PushCheck
  <1>2. ASSUME NEW p \in Publishers, PushEnqueue(p) PROVE TypeOK' /\ Places'
    <2>1. Len(log) < MaxPush
      BY <1>2, LoopsParts, RacesAssumption DEF PushEnqueue
    <2> QED BY <1>2, <2>1, RacesAssumption DEF PushEnqueue
  <1>3. ASSUME NEW c \in Loops, Start(c) PROVE TypeOK' /\ Places'
    BY <1>0, <1>3 DEF Start, Goto
  <1>4. ASSUME NEW c \in Loops, Purge(c) PROVE TypeOK' /\ Places'
    <2>1. /\ head' \in Nat /\ head' <= Len(log)
          /\ unchecked' \subseteq Objects
      BY <1>0, <1>4, DequeueParts DEF Purge
    <2> QED BY <1>0, <1>4, <2>1, RacesAssumption DEF Purge, Goto
  <1>5. ASSUME NEW c \in Loops, Enter(c) PROVE TypeOK' /\ Places'
    BY <1>0, <1>5 DEF Enter, Goto
  <1>6. ASSUME NEW c \in Loops, Scan(c) PROVE TypeOK' /\ Places'
    BY <1>0, <1>6, ScanParts
  <1>7. ASSUME NEW c \in Loops, Mark(c) PROVE TypeOK' /\ Places'
    <2>1. /\ pc[c] = "mark"
          /\ \/ pc' = [pc EXCEPT ![c] = "scan"] /\ at' = [at EXCEPT ![c] = 0]
             \/ pc' = [pc EXCEPT ![c] = "read"] /\ at' = at
      BY <1>7 DEF Mark, Goto
    <2>2. <<at[c], subOf[c]>> \in Objects \X Subs
      BY <1>0, <1>7, LoopsParts DEF Mark
    <2>3. beside' \subseteq Objects \X Subs
      BY <1>7, <2>2 DEF Mark
    <2>4. pc' \in [Consumers -> {"start", "purge", "enter", "scan", "mark", "read", "add", "trim", "dequeue"}]
          /\ at' \in [Consumers -> 0..MaxPush]
      <3>1. 0 \in 0..MaxPush
        BY RacesAssumption
      <3>2. CASE pc' = [pc EXCEPT ![c] = "scan"] /\ at' = [at EXCEPT ![c] = 0]
        BY <3>1, <3>2
      <3>3. CASE pc' = [pc EXCEPT ![c] = "read"] /\ at' = at
        BY <3>3
      <3> QED BY <2>1, <3>2, <3>3
    <2>5. /\ subOf' = subOf /\ log' = log /\ head' = head /\ items' = items /\ count' = count
          /\ pushing' = pushing /\ size' = size /\ taken' = taken /\ unchecked' = unchecked
          /\ undone' = undone /\ skipped' = skipped /\ together' = together
      BY <1>7 DEF Mark
    <2>6. TypeOK'
      BY <2>3, <2>4, <2>5
    <2> QED BY <1>0, <2>1, <2>5, <2>6
  <1>8. ASSUME NEW c \in Loops, ReadSize(c) PROVE TypeOK' /\ Places'
    BY <1>0, <1>8 DEF ReadSize, Goto
  <1>9. ASSUME NEW c \in Loops, Add(c) PROVE TypeOK' /\ Places'
    BY <1>9, AddParts, AddTypes
  <1>10. ASSUME NEW c \in Loops, Trim(c) PROVE TypeOK' /\ Places'
    BY <1>0, <1>10, TrimParts
  <1>11. ASSUME NEW c \in Loops, Dequeue(c) PROVE TypeOK' /\ Places'
    <2>1. /\ head' \in Nat /\ head' <= Len(log)
          /\ unchecked' \subseteq Objects
      BY <1>0, <1>11, DequeueParts DEF Dequeue
    <2> QED BY <1>0, <1>11, <2>1, RacesAssumption DEF Dequeue, Goto
  <1>12. CASE UNCHANGED vars
    BY <1>12 DEF vars
  <1> QED BY <1>1, <1>2, <1>3, <1>4, <1>5, <1>6, <1>7, <1>8, <1>9, <1>10, <1>11, <1>12 DEF Next, Consume

-----------------------------------------------------------------------------
(* Lists *)

LEMMA QuietKeeps ==
    ASSUME TypeOK, ListInv, Quiet
    PROVE  ListInv'
  <1>1. /\ Loops' = Loops /\ Registered' = Registered /\ Loops \subseteq Consumers
        /\ \A i : Entries(i)' = Entries(i) /\ Miscounted(i)' = Miscounted(i)
    BY LoopsParts DEF Quiet, Loops, Registered, Entries, Miscounted, lists, accidents
  <1>2. Slots'
    BY <1>1 DEF Quiet, ListInv, Slots, lists, accidents
  <1>3. Alone'
    BY <1>1 DEF Quiet, ListInv, Alone, accidents
  <1>4. Missing'
    BY <1>1 DEF Quiet, ListInv, Missing, accidents
  <1>5. Truthful'
    BY <1>1 DEF Quiet, ListInv, Truthful, accidents
  <1>6. Single'
    BY <1>1 DEF Quiet, ListInv, Single, lists
  <1> QED BY <1>2, <1>3, <1>4, <1>5, <1>6 DEF ListInv

LEMMA MarkKeeps ==
    ASSUME TypeOK, ListInv, NEW c \in Loops, Mark(c)
    PROVE  ListInv'
  <1>1. /\ Loops' = Loops /\ Registered' = Registered /\ Loops \subseteq Consumers
        /\ \A i : Entries(i)' = Entries(i)
        /\ UNCHANGED <<subOf, items, count, taken, undone, skipped>>
        /\ beside \subseteq beside'
    BY LoopsParts DEF Mark, Loops, Registered, Entries, lists
  <1>2. \A d \in Loops \ {c} : (Adding(d)' = Adding(d)) /\ at'[d] = at[d]
    BY <1>1 DEF Mark, Goto, Adding, TypeOK
  <1>3. Adding(c)' => /\ ~Listed(c) /\ at'[c] = at[c]
                      /\ \A d \in Loops : (Adding(d) /\ at[d] = at[c] /\ subOf[d] = subOf[c])
                            => <<at[c], subOf[c]>> \in beside'
    BY <1>1 DEF Mark, Goto, Adding, TypeOK
  <1>4. Slots'
    BY <1>1 DEF ListInv, Slots
  <1>5. Alone'
    <2> SUFFICES ASSUME NEW d \in Loops, NEW e \in Loops, d # e, Adding(d)', Adding(e)',
                        at'[d] = at'[e], subOf[d] = subOf[e]
                 PROVE  <<at'[d], subOf[d]>> \in beside'
      BY <1>1 DEF Alone
    <2>1. CASE d = c
      BY <1>2, <1>3, <2>1
    <2>2. CASE e = c
      BY <1>2, <1>3, <2>2
    <2>3. CASE d # c /\ e # c
      BY <1>1, <1>2, <2>3 DEF ListInv, Alone
    <2> QED BY <2>1, <2>2, <2>3
  <1>6. Missing'
    <2> SUFFICES ASSUME NEW d \in Loops, Adding(d)', <<at'[d], subOf[d]>> \notin beside',
                        at'[d] \notin skipped \/ <<at'[d], subOf[d]>> \notin undone
                 PROVE  subOf[d] \notin Entries(at'[d])
      BY <1>1 DEF Missing
    <2>1. CASE d = c
      BY <1>3, <2>1 DEF Listed
    <2>2. CASE d # c
      BY <1>1, <1>2, <2>2 DEF ListInv, Missing
    <2> QED BY <2>1, <2>2
  <1>7. Truthful'
    BY <1>1 DEF ListInv, Truthful
  <1>8. Single'
    BY <1>1 DEF ListInv, Single, Miscounted
  <1> QED BY <1>4, <1>5, <1>6, <1>7, <1>8 DEF ListInv

\* After an Add the list has the slots before the one written, and that one.
LEMMA AddEntries ==
    ASSUME TypeOK, Places, ListInv, NEW c \in Loops, NEW i \in Objects, NEW n \in Nat, AddsTo(c, i, n)
    PROVE  /\ \A j \in Objects \ {i} : Entries(j)' = Entries(j)
           /\ subOf[c] \in Entries(i)'
           /\ \A s \in Entries(i)' \ {subOf[c]} :
                 s \in Entries(i) \/ (n > count[i] /\ <<i, s>> \in undone)
           /\ \A s \in Entries(i) : s \in Entries(i)' \/ <<i, s>> \in undone'
  <1>1. \A j \in Objects \ {i} : items'[j] = items[j] /\ count'[j] = count[j]
    BY DEF AddsTo, TypeOK
  <1>2. count'[i] = n + 1 /\ count[i] \in Nat /\ count[i] <= Len(items[i]) /\ Len(items'[i]) \in Nat
    BY DEF AddsTo, TypeOK, Places
  <1>3. subOf[c] \in Entries(i)'
    BY <1>2 DEF AddsTo, Entries
  <1>4. ASSUME NEW s \in Entries(i)' \ {subOf[c]}
        PROVE  s \in Entries(i) \/ (n > count[i] /\ <<i, s>> \in undone)
    <2>1. PICK k \in 1 .. n + 1 : s = items'[i][k]
      BY <1>2 DEF Entries
    <2>2. k # n + 1 /\ k \in 1..n /\ k <= Len(items[i]) /\ s = items[i][k]
      BY <1>2, <2>1 DEF AddsTo
    <2>3. CASE k <= count[i]
      BY <1>2, <2>2, <2>3 DEF Entries
    <2>4. CASE k > count[i]
      BY <1>2, <2>2, <2>4 DEF ListInv, Slots, TypeOK
    <2> QED BY <1>2, <2>3, <2>4
  <1>5. ASSUME NEW s \in Entries(i)
        PROVE  s \in Entries(i)' \/ <<i, s>> \in undone'
    <2>1. PICK k \in 1 .. count[i] : s = items[i][k]
      BY DEF Entries
    <2>2. CASE k <= n
      <3>1. k \in 1 .. n + 1 /\ k \in 1 .. Len(items'[i]) /\ k # n + 1
        BY <1>2, <2>1, <2>2 DEF AddsTo
      <3>2. items'[i][k] = s
        BY <2>1, <3>1 DEF AddsTo
      <3> QED BY <1>2, <3>1, <3>2 DEF Entries
    <2>3. CASE k > n
      <3>1. s \in Undone(i, n)
        BY <1>2, <2>1, <2>3 DEF Undone
      <3> QED BY <3>1 DEF AddsTo
    <2> QED BY <1>2, <2>2, <2>3
  <1> QED BY <1>1, <1>3, <1>4, <1>5 DEF Entries

LEMMA AddKeeps ==
    ASSUME TypeOK, Places, ListInv, NEW c \in Loops, NEW i \in Objects, NEW n \in Nat, AddsTo(c, i, n)
    PROVE  ListInv'
  <1>1. /\ Loops' = Loops /\ Registered' = Registered /\ Loops \subseteq Consumers
        /\ subOf' = subOf /\ beside' = beside /\ undone \subseteq undone' /\ skipped \subseteq skipped'
        /\ \A d \in Loops : subOf[d] \in Subs /\ subOf[d] \in Registered
        /\ Registered \subseteq Subs
    BY LoopsParts DEF AddsTo, Loops, Registered
  <1>2. \A d \in Loops \ {c} : (Adding(d)' = Adding(d)) /\ at'[d] = at[d]
    BY <1>1 DEF AddsTo, Adding, TypeOK
  <1>3. ~Adding(c)' /\ Adding(c) /\ at[c] = i
    BY <1>1 DEF AddsTo, Adding, TypeOK
  <1>4. /\ \A j \in Objects, s \in Subs :
              taken'[j][s] = IF j = i /\ s = subOf[c] THEN taken[j][s] + 1 ELSE taken[j][s]
        /\ \A j \in Objects, s \in Subs : taken[j][s] \in Nat
    BY <1>1 DEF AddsTo, TypeOK
  <1>5. /\ \A j \in Objects \ {i} : items'[j] = items[j] /\ count'[j] = count[j]
        /\ count'[i] = n + 1 /\ count[i] \in Nat
    BY DEF AddsTo, TypeOK
  <1>6. Slots'
    <2> SUFFICES ASSUME NEW j \in Objects, NEW k \in 1 .. Len(items'[j])
                 PROVE  /\ items'[j][k] \in Registered
                        /\ taken'[j][items'[j][k]] > 0
                        /\ k > count'[j] => <<j, items'[j][k]>> \in undone'
      BY <1>1 DEF Slots
    <2>1. CASE j # i
      <3>1. k \in 1 .. Len(items[j]) /\ items'[j][k] = items[j][k] /\ count'[j] = count[j]
        BY <1>5, <2>1
      <3> QED BY <1>1, <1>4, <2>1, <3>1 DEF ListInv, Slots
    <2>2. CASE j = i /\ k = n + 1
      <3>1. items'[j][k] = subOf[c]
        BY <2>2 DEF AddsTo
      <3> QED BY <1>1, <1>4, <1>5, <2>2, <3>1
    <2>3. CASE j = i /\ k # n + 1
      <3>1. k \in 1 .. Len(items[i]) /\ items'[i][k] = items[i][k]
        BY <2>3 DEF AddsTo
      <3>2. items[i][k] \in Registered /\ taken[i][items[i][k]] > 0
        BY <3>1 DEF ListInv, Slots
      <3>3. ASSUME k > n + 1 PROVE <<i, items[i][k]>> \in undone'
        <4>1. CASE k > count[i]
          BY <1>1, <3>1, <4>1 DEF ListInv, Slots
        <4>2. CASE k <= count[i]
          <5>1. items[i][k] \in Undone(i, n)
            BY <1>5, <3>1, <3>3, <4>2 DEF Undone
          <5> QED BY <5>1 DEF AddsTo
        <4> QED BY <1>5, <3>1, <4>1, <4>2
      <3> QED BY <1>1, <1>4, <1>5, <2>3, <3>1, <3>2, <3>3
    <2> QED BY <2>1, <2>2, <2>3
  <1>7. Alone'
    BY <1>1, <1>2, <1>3 DEF ListInv, Alone
  <1>8. Missing'
    <2> SUFFICES ASSUME NEW d \in Loops, Adding(d)', <<at'[d], subOf[d]>> \notin beside,
                        at'[d] \notin skipped' \/ <<at'[d], subOf[d]>> \notin undone'
                 PROVE  \A j : j = at'[d] => subOf[d] \notin Entries(j)'
      BY <1>1 DEF Missing, Entries
    <2>1. d # c /\ Adding(d) /\ at'[d] = at[d] /\ at[d] \in Objects
      BY <1>1, <1>2, <1>3 DEF Adding, Places
    <2>2. subOf[d] \notin Entries(at[d])
      BY <1>1, <2>1 DEF ListInv, Missing
    <2>3. CASE at[d] # i
      BY <2>1, <2>2, <2>3, AddEntries
    <2>4. CASE at[d] = i
      <3>1. subOf[d] # subOf[c]
        BY <1>3, <2>1, <2>4 DEF ListInv, Alone
      <3>2. ~(n > count[i] /\ <<i, subOf[d]>> \in undone)
        <4>1. n > count[i] => i \in skipped'
          BY DEF AddsTo
        <4> QED BY <1>1, <2>1, <2>4, <4>1
      <3> QED BY <2>1, <2>2, <2>4, <3>1, <3>2, AddEntries
    <2> QED BY <2>3, <2>4
  <1>9. Truthful'
    <2> SUFFICES ASSUME NEW j \in Objects, NEW s \in Subs, <<j, s>> \notin undone' \cup beside
                 PROVE  taken'[j][s] = IF s \in Entries(j)' THEN 1 ELSE 0
      BY <1>1 DEF Truthful
    <2>1. taken[j][s] = IF s \in Entries(j) THEN 1 ELSE 0
      BY <1>1 DEF ListInv, Truthful
    <2>2. CASE j # i
      BY <1>4, <2>1, <2>2, AddEntries
    <2>3. CASE j = i /\ s = subOf[c]
      <3>1. s \notin Entries(i)
        BY <1>1, <1>3, <2>3 DEF ListInv, Missing
      <3> QED BY <1>4, <2>1, <2>3, <3>1, AddEntries
    <2>4. CASE j = i /\ s # subOf[c]
      <3>1. s \in Entries(i)' <=> s \in Entries(i)
        BY <1>1, <2>4, AddEntries
      <3> QED BY <1>4, <2>1, <2>4, <3>1
    <2> QED BY <2>2, <2>3, <2>4
  <1>10. Single'
    <2> SUFFICES ASSUME NEW j \in Objects, ~Miscounted(j)',
                        NEW k \in 1 .. count'[j], NEW l \in 1 .. count'[j],
                        items'[j][k] = items'[j][l]
                 PROVE  k = l
      BY DEF Single
    <2>1. ~Miscounted(j)
      BY <1>1 DEF Miscounted
    <2>2. CASE j # i
      BY <1>5, <2>1, <2>2 DEF ListInv, Single
    <2>3. CASE j = i
      <3>1. n <= count[i] /\ i \notin skipped /\ <<i, subOf[c]>> \notin beside
        <4>1. i \notin skipped' /\ <<i, subOf[c]>> \notin beside
          BY <1>1, <2>1, <2>3 DEF Miscounted
        <4> QED BY <1>1, <1>5, <4>1 DEF AddsTo
      <3>2. \A m \in 1..n : items'[i][m] = items[i][m] /\ m \in 1 .. count[i]
        BY <1>5, <3>1 DEF AddsTo
      <3>3. items'[i][n + 1] = subOf[c]
        BY DEF AddsTo
      <3>4. \A m \in 1..n : items'[i][m] # subOf[c]
        <4>1. subOf[c] \notin Entries(i)
          BY <1>3, <3>1 DEF ListInv, Missing
        <4> QED BY <3>2, <4>1 DEF Entries
      <3>5. \A m \in 1..n, o \in 1..n : items'[i][m] = items'[i][o] => m = o
        BY <2>1, <2>3, <3>2 DEF ListInv, Single
      <3>6. k \in 1 .. n + 1 /\ l \in 1 .. n + 1
        BY <1>5, <2>3
      <3> QED BY <2>3, <3>3, <3>4, <3>5, <3>6
    <2> QED BY <2>2, <2>3
  <1> QED BY <1>6, <1>7, <1>8, <1>9, <1>10 DEF ListInv

LEMMA ListNext == TypeOK /\ Places /\ ListInv /\ [Next]_vars => ListInv'
  <1> SUFFICES ASSUME TypeOK, Places, ListInv, [Next]_vars PROVE ListInv'
    OBVIOUS
  <1>1. ASSUME NEW c \in Loops, Mark(c) PROVE ListInv'
    BY <1>1, MarkKeeps
  <1>2. ASSUME NEW c \in Loops, Add(c) PROVE ListInv'
    BY <1>2, AddParts, AddKeeps
  <1>3. CASE ~ \E c \in Loops : Mark(c) \/ Add(c)
    BY <1>3, QuietSteps, QuietKeeps
  <1> QED BY <1>1, <1>2, <1>3

-----------------------------------------------------------------------------
(* What a full list means *)

\* A list that is not miscounted and as long as there are subscriptions names them all.
LEMMA FullMeansAll ==
    ASSUME TypeOK, Places, ListInv, NEW i \in Objects, Full(i), ~Miscounted(i)
    PROVE  \A s \in Registered : taken[i][s] > 0
  <1> DEFINE f == [k \in 1 .. count[i] |-> items[i][k]]
  <1>1. count[i] \in Nat /\ count[i] <= Len(items[i])
    BY DEF TypeOK, Places
  <1>2. IsFiniteSet(1 .. count[i]) /\ Cardinality(1 .. count[i]) = count[i]
    BY <1>1, FS_Interval
  <1>3. f \in Bijection(1 .. count[i], Entries(i))
    BY DEF ListInv, Single, Entries, Bijection, Injection, Surjection, IsInjective
  <1>4. ExistsBijection(1 .. count[i], Entries(i))
    BY <1>3 DEF ExistsBijection
  <1>5. IsFiniteSet(Entries(i)) /\ Cardinality(Entries(i)) = count[i]
    BY <1>2, <1>4, FS_Bijection
  <1>6. \A s \in Entries(i) : s \in Registered /\ taken[i][s] > 0
    <2> TAKE s \in Entries(i)
    <2>1. PICK k \in 1 .. count[i] : s = items[i][k]
      BY DEF Entries
    <2>2. items[i] \in Seq(Subs) /\ k \in 1 .. Len(items[i])
      BY <1>1 DEF TypeOK
    <2> QED BY <2>1, <2>2 DEF ListInv, Slots
  <1>7. Entries(i) = Registered
    BY <1>5, <1>6, LoopsParts, FS_Subset DEF Full
  <1> QED BY <1>6, <1>7

\* Accidents and deliveries are never forgotten.
LEMMA Monotone ==
    ASSUME TypeOK, Places, [Next]_vars
    PROVE  /\ Registered' = Registered
           /\ \A i : Miscounted(i) => Miscounted(i)'
           /\ \A i \in Objects, s \in Subs : taken[i][s] > 0 => taken'[i][s] > 0
  <1>1. ASSUME NEW c \in Loops, Mark(c)
        PROVE  /\ subOf' = subOf /\ skipped' = skipped /\ beside \subseteq beside' /\ taken' = taken
    BY <1>1 DEF Mark
  <1>2. ASSUME NEW c \in Loops, Add(c)
        PROVE  /\ subOf' = subOf /\ skipped \subseteq skipped' /\ beside' = beside
               /\ \A i \in Objects, s \in Subs : taken[i][s] > 0 => taken'[i][s] > 0
    <2>1. PICK i \in Objects, n \in Nat : AddsTo(c, i, n)
      BY <1>2, AddParts
    <2>2. subOf' = subOf /\ skipped \subseteq skipped' /\ beside' = beside
      BY <2>1 DEF AddsTo
    <2>3. taken' = [taken EXCEPT ![i] = [taken[i] EXCEPT ![subOf[c]] = taken[i][subOf[c]] + 1]]
      BY <2>1 DEF AddsTo
    <2> QED BY <2>2, <2>3 DEF TypeOK
  <1>3. CASE ~ \E c \in Loops : Mark(c) \/ Add(c)
    BY <1>3, QuietSteps DEF Quiet, Registered, Loops, Miscounted, accidents
  <1> QED BY <1>1, <1>2, <1>3 DEF Registered, Loops, Miscounted

LEMMA DoneNext == TypeOK /\ Places /\ ListInv /\ Done /\ [Next]_vars => Done'
  <1> SUFFICES ASSUME TypeOK, Places, ListInv, Done, [Next]_vars,
                      NEW c \in Consumers, pc'[c] = "dequeue"
               PROVE  \A i : i = at'[c] =>
                         Miscounted(i)' \/ \A s \in Registered' : taken'[i][s] > 0
    BY DEF Done, Miscounted
  <1>1. \/ pc[c] = "dequeue" /\ at'[c] = at[c]
        \/ at'[c] \in Objects /\ Full(at'[c])
    <2> USE DEF TypeOK, Goto
    <2>1. CASE \E p \in Publishers : PushEnqueue(p) \/ \E m \in Msgs : PushCheck(p, m)
      BY <2>1 DEF PushEnqueue, PushCheck
    <2>2. ASSUME NEW d \in Loops, Trim(d)
          PROVE  \/ pc[c] = "dequeue" /\ at'[c] = at[c]
                 \/ at'[c] \in Objects /\ Full(at'[c])
      BY <2>2, TrimParts, LoopsParts
    <2>3. ASSUME NEW d \in Loops, Scan(d) PROVE pc[c] = "dequeue" /\ at'[c] = at[c]
      BY <2>3, ScanParts, LoopsParts
    <2>4. ASSUME NEW d \in Loops, Start(d) \/ Purge(d) \/ Enter(d) \/ Mark(d) \/ ReadSize(d)
          PROVE  pc[c] = "dequeue" /\ at'[c] = at[c]
      BY <2>4, LoopsParts DEF Start, Purge, Enter, Mark, ReadSize
    <2>5. ASSUME NEW d \in Loops, Add(d) \/ Dequeue(d)
          PROVE  pc[c] = "dequeue" /\ at'[c] = at[c]
      BY <2>5, LoopsParts DEF Add, Dequeue
    <2>6. CASE UNCHANGED vars
      BY <2>6 DEF vars
    <2> QED BY <2>1, <2>2, <2>3, <2>4, <2>5, <2>6 DEF Next, Consume
  <1>2. CASE pc[c] = "dequeue" /\ at'[c] = at[c]
    <2>1. at[c] \in Objects /\ (Miscounted(at[c]) \/ \A s \in Registered : taken[at[c]][s] > 0)
      BY <1>2 DEF Done, Places
    <2> QED BY <1>2, <2>1, Monotone, LoopsParts
  <1>3. CASE at'[c] \in Objects /\ Full(at'[c])
    BY <1>3, FullMeansAll, Monotone, LoopsParts
  <1> QED BY <1>1, <1>2, <1>3

LEMMA GoneNext == TypeOK /\ Places /\ Done /\ GoneWhenTaken /\ [Next]_vars => GoneWhenTaken'
  <1> SUFFICES ASSUME TypeOK, Places, Done, GoneWhenTaken, [Next]_vars, NEW i \in 1 .. head'
               PROVE  (i \in unchecked \/ Miscounted(i) \/ \A s \in Registered : taken[i][s] > 0)'
    BY DEF GoneWhenTaken
  <1>1. /\ unchecked \subseteq unchecked' /\ head' \in Nat /\ head \in Nat /\ i \in Objects
        /\ head' = head \/ \E c \in Consumers : Purge(c) \/ Dequeue(c)
    <2>1. CASE \E c \in Loops : Purge(c) \/ Dequeue(c)
      <3>1. PICK c \in Consumers : (Purge(c) \/ Dequeue(c)) /\ TryDequeue(c)
        BY <2>1, LoopsParts DEF Purge, Dequeue
      <3>2. /\ head' \in Nat /\ head' <= MaxPush
            /\ unchecked \subseteq unchecked'
        BY <3>1, DequeueGrows
      <3> QED BY <3>1, <3>2, RacesAssumption DEF TypeOK, Objects
    <2>2. CASE UNCHANGED <<head, unchecked>>
      BY <2>2, RacesAssumption DEF TypeOK, Places, Objects
    <2>3. UNCHANGED <<head, unchecked>> \/ \E c \in Loops : Purge(c) \/ Dequeue(c)
      BY DEF Next, Consume, vars, queue, PushCheck, PushEnqueue, Start, Enter, Scan, Mark, ReadSize, Add, Trim
    <2> QED BY <2>1, <2>2, <2>3
  <1>2. CASE i <= head
    <2>1. i \in unchecked \/ Miscounted(i) \/ \A s \in Registered : taken[i][s] > 0
      BY <1>1, <1>2 DEF GoneWhenTaken
    <2> QED BY <1>1, <2>1, Monotone, LoopsParts
  <1>3. CASE i > head
    <2>1. PICK c \in Consumers : Purge(c) \/ Dequeue(c)
      BY <1>1, <1>3
    <2>2. TryDequeue(c) /\ i = head + 1 /\ (i = at[c] \/ i \in unchecked')
      BY <1>1, <1>3, <2>1, DequeueParts DEF Purge, Dequeue
    <2>3. i = at[c] => pc[c] = "dequeue"
      BY <1>1, <2>1, <2>2 DEF Purge, Dequeue, Places, Objects
    <2> QED BY <1>1, <2>2, <2>3, Monotone, LoopsParts DEF Done
  <1> QED BY <1>1, <1>2, <1>3

LEMMA TwinsKept ==
    ASSUME TypeOK, Twins, head' \in Nat, head <= head', UNCHANGED <<log, pushing, together>>
    PROVE  Twins'
  <1>1. Queued' \subseteq Queued
    BY DEF Queued, TypeOK
  <1> QED BY <1>1 DEF Twins, InQueue, TwinsPushedTogether

LEMMA TwinsNext == TypeOK /\ Places /\ Twins /\ [Next]_vars => Twins'
  <1> SUFFICES ASSUME TypeOK, Places, Twins, [Next]_vars PROVE Twins'
    OBVIOUS
  <1> USE DEF Twins, InQueue, TwinsPushedTogether, Queued
  <1>1. ASSUME NEW p \in Publishers, NEW m \in Msgs, PushCheck(p, m) PROVE Twins'
    BY <1>1 DEF PushCheck, queue, TypeOK
  <1>2. ASSUME NEW p \in Publishers, PushEnqueue(p) PROVE Twins'
    <2>1. /\ log' = Append(log, pushing[p]) /\ log \in Seq(Msgs) /\ head' = head /\ together' = together
          /\ pushing[p] \in Msgs /\ pushing' = [pushing EXCEPT ![p] = Idle]
      BY <1>2 DEF PushEnqueue, TypeOK
    <2>2. /\ Len(log') = Len(log) + 1 /\ log'[Len(log) + 1] = pushing[p]
          /\ \A k \in 1 .. Len(log) : log'[k] = log[k]
      BY <2>1
    <2>3. head \in Nat /\ Len(log) \in Nat /\ head <= Len(log)
      BY DEF TypeOK
    <2>4. \A k \in Queued' : k = Len(log) + 1 \/ (k \in Queued /\ log'[k] = log[k])
      BY <2>1, <2>2, <2>3
    <2>5. \A o \in Publishers : pushing'[o] = IF o = p THEN Idle ELSE pushing[o]
      BY <2>1 DEF TypeOK
    <2>6. \A k \in Queued' : log'[k] # Idle
      BY <2>1, <2>3, RacesAssumption
    <2>7. \A o \in Publishers, r \in Publishers :
             (o # r /\ pushing'[o] = pushing'[r] /\ pushing'[o] # Idle) => pushing'[o] \in together'
      BY <2>1, <2>5
    <2>8. ASSUME NEW o \in Publishers, NEW k \in Queued', log'[k] = pushing'[o]
          PROVE  pushing'[o] \in together'
      <3>1. o # p /\ pushing'[o] = pushing[o] /\ pushing[o] # Idle
        BY <2>5, <2>6, <2>8
      <3>2. CASE k = Len(log) + 1
        BY <3>1, <3>2, <2>1, <2>2, <2>8
      <3>3. CASE k \in Queued /\ log'[k] = log[k]
        <4>1. log[k] = pushing[o]
          BY <3>1, <3>3, <2>8
        <4>2. InQueue(pushing[o])
          BY <4>1, <3>3
        <4>3. pushing[o] \in together
          BY <4>2
        <4> QED BY <4>3, <3>1, <2>1
      <3> QED BY <2>4, <3>2, <3>3
    <2>9. ASSUME NEW i \in Queued', NEW j \in Queued', i # j, log'[i] = log'[j]
          PROVE  log'[i] \in together'
      <3>1. CASE i \in Queued /\ log'[i] = log[i] /\ j \in Queued /\ log'[j] = log[j]
        BY <3>1, <2>1, <2>9
      <3>2. CASE i = Len(log) + 1 /\ j \in Queued /\ log'[j] = log[j]
        BY <3>2, <2>1, <2>2, <2>9
      <3>3. CASE j = Len(log) + 1 /\ i \in Queued /\ log'[i] = log[i]
        BY <3>3, <2>1, <2>2, <2>9
      <3> QED BY <2>4, <2>9, <3>1, <3>2, <3>3
    <2> QED BY <2>7, <2>8, <2>9
  <1>3. ASSUME NEW c \in Consumers, Start(c) PROVE Twins'
    BY <1>3 DEF Start, Goto, queue
  <1>4. ASSUME NEW c \in Consumers, Purge(c) PROVE Twins'
    <2>1. head' \in Nat /\ head <= head'
      BY <1>4, DequeueGrows DEF Purge
    <2> QED BY <1>4, <2>1, TwinsKept DEF Purge
  <1>5. ASSUME NEW c \in Consumers, Enter(c) PROVE Twins'
    BY <1>5 DEF Enter, Goto, queue
  <1>6. ASSUME NEW c \in Consumers, Scan(c) PROVE Twins'
    BY <1>6, ScanParts DEF queue
  <1>7. ASSUME NEW c \in Consumers, Mark(c) PROVE Twins'
    BY <1>7 DEF Mark, Goto, queue
  <1>8. ASSUME NEW c \in Consumers, ReadSize(c) \/ Add(c) PROVE Twins'
    BY <1>8 DEF ReadSize, Add, queue
  <1>9. ASSUME NEW c \in Consumers, Trim(c) PROVE Twins'
    BY <1>9, TrimParts DEF queue
  <1>10. ASSUME NEW c \in Consumers, Dequeue(c) PROVE Twins'
    <2>1. head' \in Nat /\ head <= head'
      BY <1>10, DequeueGrows DEF Dequeue
    <2> QED BY <1>10, <2>1, TwinsKept DEF Dequeue
  <1>11. CASE UNCHANGED vars
    BY <1>11 DEF vars, queue
  <1> QED BY <1>1, <1>2, <1>3, <1>4, <1>5, <1>6, <1>7, <1>8, <1>9, <1>10, <1>11 DEF Next, Consume

-----------------------------------------------------------------------------

\* The inductive invariant of the races.
IInv == TypeOK /\ Places /\ ListInv /\ Done /\ GoneWhenTaken /\ Twins

LEMMA IInvInit == Init => IInv
  <1> SUFFICES ASSUME Init PROVE IInv
    OBVIOUS
  <1>1. \A i \in Objects : items[i] = <<>> /\ count[i] = 0 /\ Entries(i) = {}
    BY DEF Init, Entries
  <1>2. TypeOK
    BY <1>1, RacesAssumption DEF Init, TypeOK
  <1>3. Loops \subseteq Consumers /\ \A c \in Consumers : ~Adding(c)
    BY <1>2, LoopsParts DEF Init, Adding
  <1>4. Places
    BY <1>1, RacesAssumption DEF Init, Places
  <1>5. Slots /\ Truthful /\ Single
    BY <1>1 DEF Init, Slots, Truthful, Single
  <1>6. Alone /\ Missing
    BY <1>3 DEF Alone, Missing
  <1>7. Done /\ GoneWhenTaken
    BY DEF Init, Done, GoneWhenTaken
  <1>8. Twins
    BY DEF Init, Twins, InQueue, TwinsPushedTogether, Queued
  <1> QED BY <1>2, <1>4, <1>5, <1>6, <1>7, <1>8 DEF IInv, ListInv

LEMMA IInvNext == IInv /\ [Next]_vars => IInv'
  BY TypeNext, ListNext, DoneNext, GoneNext, TwinsNext DEF IInv

THEOREM Invariant == Spec => []IInv
  BY IInvInit, IInvNext, PTL DEF Spec

\* Every variable keeps its type, whatever the loops and the publishers do at once.
THEOREM TypeCorrect == Spec => []TypeOK
  <1>1. IInv => TypeOK
    BY DEF IInv
  <1> QED BY <1>1, Invariant, PTL

\* A message leaves the queue unread only through a TryDequeue that hit another message
\* than the one looked at, or because its list was miscounted (ConsumeQueue): an undone
\* entry alone never makes the count of a list lie.
THEOREM GoneOnlyWhenTaken == Spec => []GoneWhenTaken
  <1>1. IInv => GoneWhenTaken
    BY DEF IInv
  <1> QED BY <1>1, Invariant, PTL

\* Two messages in the queue have one id only if two PushQueue found it new at once.
THEOREM TwinsExplained == Spec => []TwinsPushedTogether
  <1>1. IInv => TwinsPushedTogether
    BY DEF IInv, Twins
  <1> QED BY <1>1, Invariant, PTL

\* A subscription gets a message twice only if its own entry was undone by another loop's
\* List.Add, or if two loops of its own were adding it at once (ConsumeQueue).
THEOREM TwiceExplained == Spec => []TwiceOnlyIfUndone
  <1>1. IInv => TwiceOnlyIfUndone
    BY DEF IInv, ListInv, TypeOK, Truthful, TwiceOnlyIfUndone
  <1> QED BY <1>1, Invariant, PTL

=============================================================================
