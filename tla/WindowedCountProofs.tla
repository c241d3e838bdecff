------------------------ MODULE WindowedCountProofs ------------------------
(***************************************************************************)
(* Every record is counted once, for any inputs, keys, windows, capacities *)
(* and clock skews.                                                        *)
(***************************************************************************)
EXTENDS WindowedCount, FiniteSetTheorems, TLAPS

-----------------------------------------------------------------------------
(* The order of the rows *)

LEMMA Numbers ==
  /\ MaxRecords \in Nat /\ MaxTime \in Nat /\ MaxSkew \in Nat /\ Keys \subseteq Nat
  /\ Size \in Nat \ {0} /\ QueueCapacity \in Nat \ {0}
BY TimeAssumption

LEMMA StateParts ==
  ASSUME NEW s \in States
  PROVE  s = <<s[1], s[2]>> /\ s[1] \in Windows /\ s[2] \in Keys /\ s[1] \in Nat /\ s[2] \in Nat
<1>1. s \in Windows \X Keys
  BY DEF States
<1>2. s = <<s[1], s[2]>> /\ s[1] \in Windows /\ s[2] \in Keys
  BY <1>1
<1>3. \A w \in Windows : w \in Nat
  BY Numbers DEF Windows
<1>4. s[1] \in Nat /\ s[2] \in Nat
  BY <1>2, <1>3, Numbers
<1> QED
  BY <1>2, <1>4

\* A set of numbers has a least one.
LEMMA LeastNatural ==
  ASSUME NEW T, T \subseteq Nat, T # {}
  PROVE  \E m \in T : \A k \in T : m <= k
<1>1. PICK m \in T : \A k \in T : <<k, m>> \notin OpToRel(<, Nat)
  BY NatLessThanWellFounded, WFMin
<1>2. ASSUME NEW k \in T PROVE ~(k < m)
  <2>1. k \in Nat /\ m \in Nat
    OBVIOUS
  <2>2. <<k, m>> \notin {p \in Nat \X Nat : p[1] < p[2]}
    BY <1>1 DEF OpToRel
  <2> QED
    BY <2>1, <2>2
<1>3. \A k \in T : m <= k
  BY <1>2
<1> QED
  BY <1>3

\* Among states one comes first.
LEMMA FirstState ==
  ASSUME NEW S \in SUBSET States, S # {}
  PROVE  \E m \in S : \A s \in S \ {m} : Earlier(m, s)
<1> DEFINE Starts == {s[1] : s \in S}
<1>1. Starts \subseteq Nat /\ Starts # {}
  BY StateParts
<1>2. PICK w \in Starts : \A k \in Starts : w <= k
  BY <1>1, LeastNatural
<1> DEFINE Firsts == {s[2] : s \in {x \in S : x[1] = w}}
<1>3. Firsts \subseteq Nat /\ Firsts # {}
  BY StateParts
<1>4. PICK k \in Firsts : \A x \in Firsts : k <= x
  BY <1>3, LeastNatural
<1>5. PICK m \in S : m[1] = w /\ m[2] = k
  OBVIOUS
<1>6. ASSUME NEW s \in S \ {m} PROVE Earlier(m, s)
  <2>1. /\ s[1] \in Nat /\ s[2] \in Nat /\ m[1] \in Nat /\ m[2] \in Nat
        /\ s = <<s[1], s[2]>> /\ m = <<m[1], m[2]>>
    BY StateParts
  <2>2. w <= s[1] /\ (s[1] = w => k <= s[2])
    BY <1>2, <1>4
  <2>3. s[1] # m[1] \/ s[2] # m[2]
    BY <2>1
  <2> QED
    BY <1>5, <2>1, <2>2, <2>3 DEF Earlier
<1> QED
  BY <1>6

\* A finite set of states can be listed in this order.
Lists(q, S) ==
  /\ q \in [1..Cardinality(S) -> S]
  /\ \A i, j \in 1..Cardinality(S) : i < j => Earlier(q[i], q[j])

LEMMA CanBeListed ==
  ASSUME NEW S \in SUBSET States, IsFiniteSet(S)
  PROVE  \E q : Lists(q, S)
<1> DEFINE Bad == {n \in Nat : \E X \in SUBSET States :
                     IsFiniteSet(X) /\ Cardinality(X) = n /\ \A q : ~Lists(q, X)}
<1>1. Cardinality(S) \in Nat
  BY FS_CardinalityType
<1> SUFFICES ASSUME Bad # {} PROVE FALSE
  BY <1>1
<1>2. PICK n \in Bad : \A k \in Bad : n <= k
  BY LeastNatural
<1>3. PICK X \in SUBSET States : IsFiniteSet(X) /\ Cardinality(X) = n /\ \A q : ~Lists(q, X)
  OBVIOUS
<1>4. n \in Nat
  OBVIOUS
<1>5. X # {}
  <2> SUFFICES ASSUME X = {} PROVE FALSE
    OBVIOUS
  <2>1. Cardinality(X) = 0
    BY FS_EmptySet
  <2> DEFINE q == [i \in 1..0 |-> 0]
  <2>2. q \in [1..0 -> X] /\ \A i, j \in 1..0 : i < j => Earlier(q[i], q[j])
    OBVIOUS
  <2> HIDE DEF q
  <2>3. Lists(q, X)
    BY <2>1, <2>2 DEF Lists
  <2> QED
    BY <1>3, <2>3
<1>6. PICK m \in X : \A s \in X \ {m} : Earlier(m, s)
  BY <1>5, FirstState
<1> DEFINE Y == X \ {m}
<1>7. IsFiniteSet(Y) /\ Cardinality(Y) = n - 1 /\ Y \in SUBSET States
  BY <1>3, FS_RemoveElement
<1>8. n # 0 /\ n - 1 \in Nat
  BY <1>3, <1>4, <1>5, FS_EmptySet
<1>9. n - 1 \notin Bad
  BY <1>2, <1>4, <1>8
<1>10. PICK r : Lists(r, Y)
  BY <1>7, <1>8, <1>9
<1>11. /\ r \in [1..(n - 1) -> Y]
       /\ \A i, j \in 1..(n - 1) : i < j => Earlier(r[i], r[j])
  BY <1>7, <1>10 DEF Lists
<1> DEFINE q == [i \in 1..n |-> IF i = 1 THEN m ELSE r[i - 1]]
<1>12. \A i \in 2..n : i - 1 \in 1..(n - 1) /\ i \in 1..n /\ i # 1
  BY <1>4
<1>13. \A i \in 1..n : i = 1 \/ i \in 2..n
  BY <1>4
<1>14. q \in [1..n -> X]
  <2>1. \A i \in 2..n : r[i - 1] \in X
    BY <1>11, <1>12
  <2> QED
    BY <1>13, <2>1
<1>15. ASSUME NEW i \in 1..n, NEW j \in 1..n, i < j PROVE Earlier(q[i], q[j])
  <2>1. j \in 2..n /\ q[j] = r[j - 1] /\ r[j - 1] \in Y
    BY <1>4, <1>11, <1>12, <1>15
  <2>2. CASE i = 1
    BY <1>6, <2>1, <2>2
  <2>3. CASE i # 1
    <3>1. i - 1 \in 1..(n - 1) /\ j - 1 \in 1..(n - 1) /\ i - 1 < j - 1
      BY <1>4, <1>15, <2>1, <2>3
    <3>2. q[i] = r[i - 1]
      BY <2>3
    <3> QED
      BY <1>11, <2>1, <3>1, <3>2
  <2> QED
    BY <2>2, <2>3
<1> HIDE DEF q
<1>16. Lists(q, X)
  BY <1>3, <1>14, <1>15 DEF Lists
<1> QED
  BY <1>3, <1>16

\* sorted() lists every state once.
LEMMA SortedLists ==
  ASSUME NEW S \in SUBSET States, IsFiniteSet(S)
  PROVE  LET n == Cardinality(S) IN
         /\ n \in Nat /\ Sorted(S) \in [1..n -> S]
         /\ \A i, j \in 1..n : i # j => Sorted(S)[i] # Sorted(S)[j]
         /\ \A s \in S : \E i \in 1..n : Sorted(S)[i] = s
<1> DEFINE n == Cardinality(S)
           q == Sorted(S)
<1>1. n \in Nat
  BY FS_CardinalityType
<1>2. PICK p : Lists(p, S)
  BY CanBeListed
<1>3. p \in [1..n -> S] /\ \A i, j \in DOMAIN p : i < j => Earlier(p[i], p[j])
  BY <1>2 DEF Lists
<1>4. q \in [1..n -> S] /\ \A i, j \in DOMAIN q : i < j => Earlier(q[i], q[j])
  BY <1>3 DEF Sorted
<1> HIDE DEF q
<1>5. ASSUME NEW i \in 1..n, NEW j \in 1..n, i < j PROVE q[i] # q[j]
  <2>1. Earlier(q[i], q[j]) /\ q[i] \in States
    BY <1>4, <1>5
  <2>2. q[i][1] \in Nat /\ q[i][2] \in Nat
    BY <2>1, StateParts
  <2> QED
    BY <2>1, <2>2 DEF Earlier
<1>6. \A i, j \in 1..n : i # j => q[i] # q[j]
  <2> SUFFICES ASSUME NEW i \in 1..n, NEW j \in 1..n, i # j PROVE q[i] # q[j]
    OBVIOUS
  <2>1. i < j \/ j < i
    BY <1>1
  <2> QED
    BY <1>5, <2>1
<1>7. q \in Injection(1..n, S)
  BY <1>4, <1>6 DEF Injection, IsInjective
<1>8. Cardinality(1..n) = n
  BY <1>1, FS_Interval
<1>9. q \in Surjection(1..n, S)
  BY <1>7, <1>8, FS_Injection
<1>10. \A s \in S : \E i \in 1..n : q[i] = s
  BY <1>9 DEF Surjection
<1> QED
  BY <1>1, <1>4, <1>6, <1>10 DEF q

-----------------------------------------------------------------------------
(* Types *)

Records == {r \in [id : Ids, time : Int, key : Keys] : <<Assign(r.time), r.key>> \in States}

Busy(win) == {s \in States : win[s] # {}}

Typed ==
  /\ clock \in 0..MaxTime
  /\ sent \in [Inputs -> 0..MaxRecords]
  /\ channel \in [Inputs -> Seq(Records \cup {End})]
  /\ \A u \in Inputs : Len(channel[u]) <= QueueCapacity
  /\ closed \subseteq Inputs
  /\ windows \in [States -> SUBSET Ids] /\ IsFiniteSet(Busy(windows))
  /\ state \in {"running", "finishing", "stopped", "failed"}
  /\ out \in Seq(RowType) /\ toSink \in Seq(RowType) /\ rows \in Seq(RowType)
  /\ Len(toSink) <= QueueCapacity

\* A record is not the end of its input.
LEMMA EndIsNoRecord == \A r \in Records : r # End /\ r.id # End.id
<1> SUFFICES ASSUME NEW r \in Records PROVE r.id # End.id
  OBVIOUS
<1>1. r.id \in Inputs \X (1..MaxRecords)
  BY DEF Records, Ids
<1>2. End.id = << >>
  BY DEF End
<1> QED
  BY <1>1, <1>2

\* The windows that are due, and what on_timer makes of them.
LEMMA TimerTyped ==
  ASSUME NEW win \in [States -> SUBSET Ids], IsFiniteSet(Busy(win))
  PROVE  LET due == Due(win) IN
         /\ Cleared(win, due) \in [States -> SUBSET Ids] /\ IsFiniteSet(Busy(Cleared(win, due)))
         /\ Rows(win, due) \in Seq(RowType)
         /\ \E n \in Nat : \E q \in [1..n -> due] :
              /\ Rows(win, due) =
                   [i \in 1..n |-> [window |-> q[i][1], key |-> q[i][2], records |-> win[q[i]]]]
              /\ \A i, j \in 1..n : i # j => q[i] # q[j]
              /\ \A s \in due : \E i \in 1..n : q[i] = s
<1> DEFINE due == Due(win)
           n == Cardinality(due)
           q == Sorted(due)
           R == [i \in 1..n |-> [window |-> q[i][1], key |-> q[i][2], records |-> win[q[i]]]]
<1>1. due \in SUBSET Busy(win) /\ due \in SUBSET States
  BY DEF Due, Busy
<1>2. IsFiniteSet(due)
  BY <1>1, FS_Subset
<1>3. /\ n \in Nat /\ q \in [1..n -> due]
      /\ \A i, j \in 1..n : i # j => q[i] # q[j]
      /\ \A s \in due : \E i \in 1..n : q[i] = s
  BY <1>1, <1>2, SortedLists
<1>4. Rows(win, due) = R
  <2>1. DOMAIN q = 1..n
    BY <1>3
  <2> QED
    BY <2>1 DEF Rows
<1>5. R \in Seq(RowType)
  <2>1. ASSUME NEW i \in 1..n
        PROVE  [window |-> q[i][1], key |-> q[i][2], records |-> win[q[i]]] \in RowType
    <3>1. q[i] \in States
      BY <1>1, <1>3
    <3>2. q[i][1] \in Windows /\ q[i][2] \in Keys /\ win[q[i]] \in SUBSET Ids
      BY <3>1, StateParts
    <3> QED
      BY <3>2 DEF RowType
  <2> QED
    BY <1>3, <2>1
<1>6. Cleared(win, due) \in [States -> SUBSET Ids]
  BY DEF Cleared
<1>7. Busy(Cleared(win, due)) \in SUBSET Busy(win)
  BY DEF Busy, Cleared
<1>8. IsFiniteSet(Busy(Cleared(win, due)))
  BY <1>7, FS_Subset
<1> HIDE DEF due, q, n
<1>9. \E k \in Nat : \E p \in [1..k -> due] :
              /\ Rows(win, due) =
                   [i \in 1..k |-> [window |-> p[i][1], key |-> p[i][2], records |-> win[p[i]]]]
              /\ \A i, j \in 1..k : i # j => p[i] # p[j]
              /\ \A s \in due : \E i \in 1..k : p[i] = s
  BY <1>3, <1>4
<1> QED
  BY <1>4, <1>5, <1>6, <1>8, <1>9 DEF due

\* Putting a record into its window.
LEMMA ReducedTyped ==
  ASSUME NEW win \in [States -> SUBSET Ids], IsFiniteSet(Busy(win)), NEW s \in States,
         NEW id \in Ids
  PROVE  LET w == [win EXCEPT ![s] = @ \cup {id}] IN
         w \in [States -> SUBSET Ids] /\ IsFiniteSet(Busy(w))
<1> DEFINE w == [win EXCEPT ![s] = @ \cup {id}]
<1>1. w \in [States -> SUBSET Ids]
  OBVIOUS
<1>2. Busy(w) \in SUBSET (Busy(win) \cup {s})
  BY DEF Busy
<1>3. IsFiniteSet(Busy(win) \cup {s})
  BY FS_AddElement
<1> QED
  BY <1>1, <1>2, <1>3, FS_Subset

LEMMA NoWindows ==
  LET w == [s \in States |-> {}] IN w \in [States -> SUBSET Ids] /\ IsFiniteSet(Busy(w))
<1>1. Busy([s \in States |-> {}]) = {}
  BY DEF Busy
<1> QED
  BY <1>1, FS_EmptySet

LEMMA InitTyped == Init => Typed
<1> SUFFICES ASSUME Init PROVE Typed
  OBVIOUS
<1>1. clock \in 0..MaxTime /\ sent \in [Inputs -> 0..MaxRecords] /\ Len(toSink) <= QueueCapacity
  BY Numbers DEF Init
<1>2. /\ channel \in [Inputs -> Seq(Records \cup {End})]
      /\ \A u \in Inputs : Len(channel[u]) <= QueueCapacity
  BY Numbers DEF Init
<1> QED
  BY <1>1, <1>2, NoWindows DEF Init, Typed

\* What a channel hands to the task.
LEMMA HeadTyped ==
  ASSUME Typed, NEW u \in Inputs, channel[u] # << >>
  PROVE  /\ Head(channel[u]) \in Records \cup {End}
         /\ Tail(channel[u]) \in Seq(Records \cup {End})
         /\ Len(Tail(channel[u])) <= QueueCapacity
<1>1. channel[u] \in Seq(Records \cup {End}) /\ Len(channel[u]) <= QueueCapacity
  BY DEF Typed
<1>2. /\ Head(channel[u]) \in Records \cup {End}
      /\ Tail(channel[u]) \in Seq(Records \cup {End})
      /\ Len(Tail(channel[u])) = Len(channel[u]) - 1 /\ Len(channel[u]) \in Nat
  BY <1>1
<1> QED
  BY <1>1, <1>2, Numbers

LEMMA InputsTyped ==
  ASSUME Typed, Tick \/ \E u \in Inputs : Sends(u) \/ Ends(u)
  PROVE  Typed'
<1>1. CASE Tick
  BY <1>1, Numbers DEF Tick, Typed, inputVars, taskVars, sinkVars
<1>2. ASSUME NEW u \in Inputs, Sends(u) \/ Ends(u) PROVE Typed'
  <2>1. PICK x \in Records \cup {End} : channel' = [channel EXCEPT ![u] = Append(@, x)]
    <3>1. CASE Ends(u)
      BY <3>1 DEF Ends
    <3>2. CASE Sends(u)
      <4>1. PICK time \in (clock - MaxSkew)..(clock + MaxSkew), k \in Keys :
              /\ <<Assign(time), k>> \in States
              /\ channel' = [channel EXCEPT ![u] =
                   Append(@, [id |-> <<u, sent[u] + 1>>, time |-> time, key |-> k])]
        BY <3>2 DEF Sends
      <4>2. time \in Int
        BY Numbers DEF Typed
      <4>3. <<u, sent[u] + 1>> \in Ids
        <5>1. sent[u] \in 0..MaxRecords /\ sent[u] < MaxRecords
          BY <3>2 DEF Sends, Typed
        <5>2. sent[u] + 1 \in 1..MaxRecords
          BY <5>1, Numbers
        <5> QED
          BY <5>2 DEF Ids
      <4>4. [id |-> <<u, sent[u] + 1>>, time |-> time, key |-> k] \in Records
        BY <4>1, <4>2, <4>3 DEF Records
      <4> QED
        BY <4>1, <4>4
    <3> QED
      BY <1>2, <3>1, <3>2
  <2>2. Len(channel[u]) < QueueCapacity /\ UNCHANGED <<clock, taskVars, sinkVars>>
    BY <1>2 DEF Sends, Ends
  <2>3. sent' \in [Inputs -> 0..MaxRecords]
    <3>1. CASE Ends(u)
      BY <3>1 DEF Ends, Typed
    <3>2. CASE Sends(u)
      BY <3>2, Numbers DEF Sends, Typed
    <3> QED
      BY <1>2, <3>1, <3>2
  <2>4. /\ channel' \in [Inputs -> Seq(Records \cup {End})]
        /\ \A v \in Inputs : Len(channel'[v]) <= QueueCapacity
    <3>1. /\ Append(channel[u], x) \in Seq(Records \cup {End})
          /\ Len(Append(channel[u], x)) = Len(channel[u]) + 1 /\ Len(channel[u]) \in Nat
      BY DEF Typed
    <3>2. Len(Append(channel[u], x)) <= QueueCapacity
      BY <2>2, <3>1, Numbers
    <3> QED
      BY <2>1, <3>1, <3>2 DEF Typed
  <2> QED
    BY <2>2, <2>3, <2>4 DEF Typed, taskVars, sinkVars
<1> QED
  BY <1>1, <1>2

LEMMA LoopTyped ==
  ASSUME Typed, TimerFires \/ \E u \in Inputs : Processes(u) \/ TakesEnd(u)
  PROVE  Typed'
<1>1. ASSUME NEW win \in [States -> SUBSET Ids], IsFiniteSet(Busy(win)), OnTimer(win)
      PROVE  /\ windows' \in [States -> SUBSET Ids] /\ IsFiniteSet(Busy(windows)')
             /\ out' \in Seq(RowType)
  <2>1. out' = Rows(win, Due(win)) /\ windows' = Cleared(win, Due(win))
    BY <1>1 DEF OnTimer
  <2>2. Busy(windows)' = Busy(Cleared(win, Due(win)))
    BY <2>1 DEF Busy
  <2> QED
    BY <1>1, <2>1, <2>2, TimerTyped
<1>2. CASE TimerFires
  BY <1>1, <1>2 DEF TimerFires, Typed, inputVars, sinkVars
<1>3. ASSUME NEW u \in Inputs, Processes(u) \/ TakesEnd(u)
      PROVE  /\ channel' \in [Inputs -> Seq(Records \cup {End})]
             /\ \A v \in Inputs : Len(channel'[v]) <= QueueCapacity
  <2>1. channel[u] # << >> /\ channel' = [channel EXCEPT ![u] = Tail(@)]
    BY <1>3 DEF Processes, TakesEnd
  <2> QED
    BY <2>1, HeadTyped DEF Typed
<1>4. ASSUME NEW u \in Inputs, Processes(u) PROVE Typed'
  <2> DEFINE r == Head(channel[u])
             s == <<Assign(r.time), r.key>>
             win == [windows EXCEPT ![s] = @ \cup {r.id}]
  <2>1. r \in Records
    BY <1>4, HeadTyped DEF Processes
  <2>2. s \in States /\ r.id \in Ids
    BY <2>1 DEF Records
  <2>3. OnTimer(win)
    BY <1>4 DEF Processes
  <2>4. win \in [States -> SUBSET Ids] /\ IsFiniteSet(Busy(win))
    BY <2>2, ReducedTyped DEF Typed
  <2> HIDE DEF win
  <2>5. /\ windows' \in [States -> SUBSET Ids] /\ IsFiniteSet(Busy(windows)')
        /\ out' \in Seq(RowType)
    BY <1>1, <2>3, <2>4
  <2> QED
    BY <1>3, <1>4, <2>5 DEF Processes, Typed, sinkVars
<1>5. ASSUME NEW u \in Inputs, TakesEnd(u) PROVE Typed'
  <2>1. /\ windows' \in [States -> SUBSET Ids] /\ IsFiniteSet(Busy(windows)')
        /\ out' \in Seq(RowType) /\ state' \in {"running", "finishing", "stopped", "failed"}
    <3>1. CASE closed' = Inputs
      BY <1>1, <1>5, <3>1 DEF TakesEnd, Typed
    <3>2. CASE closed' # Inputs
      BY <1>5, <3>2 DEF TakesEnd, Typed, Busy
    <3> QED
      BY <3>1, <3>2
  <2> QED
    BY <1>3, <1>5, <2>1 DEF TakesEnd, Typed, sinkVars
<1> QED
  BY <1>2, <1>4, <1>5

LEMMA OutputsTyped ==
  ASSUME Typed, Emits \/ Finishes \/ StopTask \/ TaskFails \/ SinkWrites
  PROVE  Typed'
<1>1. CASE Emits
  <2>1. Head(out) \in RowType /\ Tail(out) \in Seq(RowType)
    BY <1>1 DEF Emits, Typed
  <2>2. /\ Append(toSink, Head(out)) \in Seq(RowType)
        /\ Len(Append(toSink, Head(out))) = Len(toSink) + 1 /\ Len(toSink) \in Nat
    BY <2>1 DEF Typed
  <2>3. Len(toSink') <= QueueCapacity
    BY <1>1, <2>2, Numbers DEF Emits
  <2> QED
    BY <1>1, <2>1, <2>2, <2>3 DEF Emits, Typed, inputVars, Busy
<1>2. ASSUME NEW as \in {"stopped", "failed"}, Leaves(as), out' \in Seq(RowType),
             toSink' \in Seq(RowType), Len(toSink') <= QueueCapacity
      PROVE  Typed'
  BY <1>2, NoWindows DEF Leaves, Typed, inputVars, Busy
<1>3. CASE Finishes
  BY <1>2, <1>3 DEF Finishes, Typed
<1>4. CASE StopTask
  <2>1. out # << >> => Head(out) \in RowType
    BY DEF Typed
  <2>2. out' = << >> \/ (out # << >> /\ out' = <<Head(out)>>)
    BY <1>4 DEF StopTask
  <2>3. out' \in Seq(RowType)
    <3>1. CASE out' = << >>
      BY <3>1
    <3>2. CASE out # << >> /\ out' = <<Head(out)>>
      <4>1. PICK h \in RowType : out' = <<h>>
        BY <2>1, <3>2
      <4> QED
        BY <4>1
    <3> QED
      BY <2>2, <3>1, <3>2
  <2> QED
    BY <1>2, <1>4, <2>3 DEF StopTask, Typed
<1>5. CASE TaskFails
  <2>1. PICK n \in 0..Len(toSink) : toSink' = SubSeq(toSink, 1, n)
    BY <1>5 DEF TaskFails
  <2>2. SubSeq(toSink, 1, n) \in Seq(RowType) /\ Len(SubSeq(toSink, 1, n)) = n /\ n <= Len(toSink)
    BY DEF Typed
  <2>3. Len(toSink') <= QueueCapacity
    BY <2>1, <2>2, Numbers DEF Typed
  <2> QED
    BY <1>2, <1>5, <2>1, <2>2, <2>3 DEF TaskFails
<1>6. CASE SinkWrites
  <2>1. /\ Head(toSink) \in RowType /\ Tail(toSink) \in Seq(RowType)
        /\ Len(Tail(toSink)) = Len(toSink) - 1 /\ Len(toSink) \in Nat
    BY <1>6 DEF SinkWrites, Typed
  <2>2. Append(rows, Head(toSink)) \in Seq(RowType)
    BY <2>1 DEF Typed
  <2>3. Len(toSink') <= QueueCapacity
    BY <1>6, <2>1, Numbers DEF SinkWrites, Typed
  <2> QED
    BY <1>6, <2>1, <2>2, <2>3 DEF SinkWrites, Typed, inputVars, taskVars, Busy
<1> QED
  BY <1>1, <1>3, <1>4, <1>5, <1>6

LEMMA NextTyped == Typed /\ [Next]_vars => Typed'
<1> SUFFICES ASSUME Typed, [Next]_vars PROVE Typed'
  OBVIOUS
<1>1. CASE UNCHANGED vars
  BY <1>1 DEF vars, inputVars, taskVars, sinkVars, Typed, Busy
<1>2. CASE Next
  BY <1>2, InputsTyped, LoopTyped, OutputsTyped DEF Next, Takes
<1> QED
  BY <1>1, <1>2

\* Every variable keeps its shape, and the channels their capacity.
THEOREM ShapesKept == Spec => []TypeOK
<1>1. Typed => TypeOK
  BY DEF Typed, TypeOK, IsRows
<1> QED
  BY <1>1, InitTyped, NextTyped, PTL DEF Spec

-----------------------------------------------------------------------------
(* The invariant *)

\* The records of a channel are numbered, and none is there twice.
ChannelSound(u) ==
  /\ \A i \in DOMAIN channel[u] : channel[u][i] # End =>
       channel[u][i].id \in Ids /\ channel[u][i].id[1] = u /\ channel[u][i].id[2] <= sent[u]
  /\ \A i, k \in DOMAIN channel[u] :
       channel[u][i] # End /\ channel[u][i].id = channel[u][k].id => i = k

\* Rows q, in the order of their making, and windows win share no record.
Apart(q, win) ==
  /\ \A i, j \in DOMAIN q : i # j => q[i].records \cap q[j].records = {}
  /\ \A s, t \in States : s # t => win[s] \cap win[t] = {}
  /\ \A i \in DOMAIN q, s \in States : q[i].records \cap win[s] = {}
  /\ \A i \in DOMAIN q : q[i].window + Size <= clock

\* A record is counted in a row or held in a window.
In(q, win, id) ==
  (\E i \in DOMAIN q : id \in q[i].records) \/ (\E s \in States : id \in win[s])

CountInv ==
  /\ \A u \in Inputs : ChannelSound(u)
  /\ Apart(AllRows, windows)
  /\ state = "running" => \A id \in Ids : In(AllRows, windows, id) <=> Taken(id)

LEMMA AllRowsType ==
  ASSUME Typed
  PROVE  AllRows \in Seq(RowType) /\ \A i \in DOMAIN AllRows : AllRows[i].records \in SUBSET Ids
<1>1. AllRows \in Seq(RowType)
  BY DEF Typed, AllRows
<1>2. \A i \in DOMAIN AllRows : AllRows[i] \in RowType
  BY <1>1
<1> QED
  BY <1>1, <1>2 DEF RowType

LEMMA CountInvCounts == Typed /\ CountInv => CountedOnce
<1> SUFFICES ASSUME Typed, CountInv PROVE CountedOnce
  OBVIOUS
<1>1. \A i \in DOMAIN AllRows : AllRows[i].records \subseteq Ids
  BY AllRowsType
<1>2. \A s \in States : windows[s] \subseteq Ids
  BY DEF Typed
<1>3. Counted \cap Held = {}
  BY DEF CountInv, Apart, Counted, Held
<1>4. state = "running" => Counted \cup Held = {id \in Ids : Taken(id)}
  BY <1>1, <1>2 DEF CountInv, In, Counted, Held
<1> QED
  BY <1>3, <1>4 DEF CountInv, Apart, CountedOnce

-----------------------------------------------------------------------------
(* Rows *)

LEMMA SameSeq ==
  ASSUME NEW S, NEW x \in Seq(S), NEW y \in Seq(S), Len(x) = Len(y),
         \A i \in 1..Len(y) : x[i] = y[i]
  PROVE  x = y
OBVIOUS

\* The rows of the file, of the channel and of the task, one after the other.
Chain(a, b, c) == a \o b \o c

LEMMA EmittedRows ==
  ASSUME NEW S, NEW a \in Seq(S), NEW b \in Seq(S), NEW c \in Seq(S), c # << >>
  PROVE  Chain(a, Append(b, Head(c)), Tail(c)) = Chain(a, b, c)
<1> DEFINE x == a \o Append(b, Head(c)) \o Tail(c)
           y == a \o b \o c
<1>1. Head(c) \in S /\ Tail(c) \in Seq(S) /\ Len(c) \in Nat \ {0}
  OBVIOUS
<1>2. Append(b, Head(c)) \in Seq(S)
  BY <1>1
<1>3. x \in Seq(S) /\ y \in Seq(S)
  BY <1>1, <1>2
<1>4. Len(x) = Len(y)
  BY <1>1, <1>2
<1>5. ASSUME NEW i \in 1..Len(y) PROVE x[i] = y[i]
  BY <1>1, <1>2
<1> HIDE DEF x, y
<1>6. x = y
  BY <1>3, <1>4, <1>5, SameSeq
<1> QED
  BY <1>6 DEF x, y, Chain

LEMMA WrittenRows ==
  ASSUME NEW S, NEW a \in Seq(S), NEW b \in Seq(S), NEW c \in Seq(S), b # << >>
  PROVE  Chain(Append(a, Head(b)), Tail(b), c) = Chain(a, b, c)
<1> DEFINE x == Append(a, Head(b)) \o Tail(b) \o c
           y == a \o b \o c
<1>1. Head(b) \in S /\ Tail(b) \in Seq(S) /\ Len(b) \in Nat \ {0}
  OBVIOUS
<1>2. Append(a, Head(b)) \in Seq(S)
  BY <1>1
<1>3. x \in Seq(S) /\ y \in Seq(S)
  BY <1>1, <1>2
<1>4. Len(x) = Len(y)
  BY <1>1, <1>2
<1>5. ASSUME NEW i \in 1..Len(y) PROVE x[i] = y[i]
  BY <1>1, <1>2
<1> HIDE DEF x, y
<1>6. x = y
  BY <1>3, <1>4, <1>5, SameSeq
<1> QED
  BY <1>6 DEF x, y, Chain

\* What is left of the rows when some at the end are lost.
IsPart(q, p) == DOMAIN q \subseteq DOMAIN p /\ \A i \in DOMAIN q : q[i] = p[i]

LEMMA PartIsApart ==
  ASSUME NEW p, NEW q, NEW w, IsPart(q, p), Apart(p, w)
  PROVE  Apart(q, [s \in States |-> {}])
BY DEF IsPart, Apart

LEMMA ShorterIsPart ==
  ASSUME NEW S, NEW a \in Seq(S), NEW b \in Seq(S), NEW c \in Seq(S)
  PROVE  /\ IsPart(a \o b \o << >>, a \o b \o c)
         /\ c # << >> => IsPart(a \o b \o <<Head(c)>>, a \o b \o c)
<1>1. IsPart(a \o b \o << >>, a \o b \o c)
  BY DEF IsPart
<1>2. ASSUME c # << >> PROVE IsPart(a \o b \o <<Head(c)>>, a \o b \o c)
  BY <1>2 DEF IsPart
<1> QED
  BY <1>1, <1>2

LEMMA AbortedIsPart ==
  ASSUME NEW S, NEW a \in Seq(S), NEW b \in Seq(S), NEW c \in Seq(S), NEW n \in 0..Len(b)
  PROVE  IsPart(a \o SubSeq(b, 1, n) \o << >>, a \o b \o c)
<1>1. n \in Nat /\ n <= Len(b) /\ Len(b) \in Nat
  OBVIOUS
<1>2. PICK d : d = SubSeq(b, 1, n)
  OBVIOUS
<1>3. d \in Seq(S) /\ Len(d) = n /\ \A i \in 1..n : d[i] = b[i]
  BY <1>1, <1>2
<1>4. IsPart(a \o d \o << >>, a \o b \o c)
  BY <1>1, <1>3 DEF IsPart
<1> QED
  BY <1>2, <1>4

\* on_timer turns each window that is due into one row.
LEMMA TimerCounts ==
  ASSUME NEW win \in [States -> SUBSET Ids], IsFiniteSet(Busy(win)),
         NEW q \in Seq(RowType), Apart(q, win), clock \in Nat
  PROVE  LET due == Due(win)
             p == q \o Rows(win, due)
             w == Cleared(win, due) IN
         /\ Apart(p, w)
         /\ \A id \in Ids : In(p, w, id) <=> In(q, win, id)
<1> DEFINE due == Due(win)
           R == Rows(win, due)
           p == q \o R
           w == Cleared(win, due)
<1>a. PICK n \in Nat : \E q1 \in [1..n -> due] :
        /\ R = [i \in 1..n |-> [window |-> q1[i][1], key |-> q1[i][2], records |-> win[q1[i]]]]
        /\ \A i, j \in 1..n : i # j => q1[i] # q1[j]
        /\ \A s \in due : \E i \in 1..n : q1[i] = s
  BY TimerTyped
<1>1. PICK o \in [1..n -> due] :
        /\ R = [i \in 1..n |-> [window |-> o[i][1], key |-> o[i][2], records |-> win[o[i]]]]
        /\ \A i, j \in 1..n : i # j => o[i] # o[j]
        /\ \A s \in due : \E i \in 1..n : o[i] = s
  BY <1>a
<1>2. R \in Seq(RowType) /\ Len(R) = n /\ DOMAIN R = 1..n
  <2>1. R \in Seq(RowType)
    BY TimerTyped
  <2>2. DOMAIN R = 1..n
    BY <1>1
  <2> HIDE DEF R
  <2>3. Len(R) = n
    BY <2>1, <2>2
  <2> QED
    BY <2>1, <2>2, <2>3
<1>3. \A s \in due : s \in States /\ s[1] + Size <= clock
  BY DEF Due
<1>4. \A i \in 1..n : o[i] \in due /\ R[i].records = win[o[i]] /\ R[i].window = o[i][1]
  BY <1>1
<1> DEFINE m == Len(q)
<1>5. m \in Nat /\ DOMAIN q = 1..m /\ DOMAIN p = 1..(m + n) /\ p \in Seq(RowType)
  BY <1>2
<1>6. \A i \in 1..m : i \in DOMAIN p /\ p[i] = q[i]
  BY <1>2, <1>5
<1>7. \A i \in 1..n : m + i \in DOMAIN p /\ p[m + i] = R[i]
  BY <1>2, <1>5
<1>8. \A i \in DOMAIN p : i \in 1..m \/ \E k \in 1..n : i = m + k
  <2> SUFFICES ASSUME NEW i \in DOMAIN p, i \notin 1..m PROVE \E k \in 1..n : i = m + k
    OBVIOUS
  <2>1. i - m \in 1..n /\ i = m + (i - m)
    BY <1>1, <1>5
  <2> QED
    BY <2>1
<1>9. \A s \in States : w[s] = IF s \in due THEN {} ELSE win[s]
  BY DEF Cleared
<1> HIDE DEF due, R, p, w
\* Where a row of p comes from.
<1>10. \A i \in DOMAIN p : \/ i \in DOMAIN q /\ p[i] = q[i]
                           \/ \E k \in 1..n : i = m + k /\ p[i] = R[k]
  BY <1>5, <1>6, <1>7, <1>8
<1>11. \A i, j \in DOMAIN p : i # j => p[i].records \cap p[j].records = {}
  <2> SUFFICES ASSUME NEW i \in DOMAIN p, NEW j \in DOMAIN p, i # j
               PROVE  p[i].records \cap p[j].records = {}
    OBVIOUS
  <2>1. CASE i \in DOMAIN q /\ p[i] = q[i] /\ j \in DOMAIN q /\ p[j] = q[j]
    BY <2>1 DEF Apart
  <2>2. ASSUME NEW k \in 1..n, p[j] = R[k], i \in DOMAIN q, p[i] = q[i]
        PROVE  p[i].records \cap p[j].records = {}
    <3>1. p[j].records = win[o[k]] /\ o[k] \in States
      BY <1>3, <1>4, <2>2
    <3> QED
      BY <2>2, <3>1 DEF Apart
  <2>3. ASSUME NEW k \in 1..n, p[i] = R[k], j \in DOMAIN q, p[j] = q[j]
        PROVE  p[i].records \cap p[j].records = {}
    <3>1. p[i].records = win[o[k]] /\ o[k] \in States
      BY <1>3, <1>4, <2>3
    <3>2. q[j].records \cap win[o[k]] = {}
      BY <2>3, <3>1 DEF Apart
    <3> QED
      BY <2>3, <3>1, <3>2
  <2>4. ASSUME NEW k \in 1..n, i = m + k, p[i] = R[k], NEW l \in 1..n, j = m + l, p[j] = R[l]
        PROVE  p[i].records \cap p[j].records = {}
    <3>1. o[k] # o[l] /\ o[k] \in States /\ o[l] \in States
      BY <1>1, <1>3, <1>4, <2>4
    <3>2. p[i].records = win[o[k]] /\ p[j].records = win[o[l]]
      BY <1>4, <2>4
    <3> QED
      BY <3>1, <3>2 DEF Apart
  <2> QED
    BY <1>10, <2>1, <2>2, <2>3, <2>4
<1>12. \A s, t \in States : s # t => w[s] \cap w[t] = {}
  BY <1>9 DEF Apart
<1>13. ASSUME NEW i \in DOMAIN p, NEW s \in States PROVE p[i].records \cap w[s] = {}
  <2>1. CASE i \in DOMAIN q /\ p[i] = q[i]
    BY <1>9, <2>1 DEF Apart
  <2>2. ASSUME NEW k \in 1..n, p[i] = R[k] PROVE p[i].records \cap w[s] = {}
    <3>1. p[i].records = win[o[k]] /\ o[k] \in due /\ o[k] \in States
      BY <1>3, <1>4, <2>2
    <3>2. s = o[k] => w[s] = {}
      BY <1>9, <3>1
    <3>3. s # o[k] => win[o[k]] \cap win[s] = {}
      BY <3>1 DEF Apart
    <3> QED
      BY <1>9, <3>1, <3>2, <3>3
  <2> QED
    BY <1>10, <2>1, <2>2
<1>14. ASSUME NEW i \in DOMAIN p PROVE p[i].window + Size <= clock
  <2>1. CASE i \in DOMAIN q /\ p[i] = q[i]
    BY <2>1 DEF Apart
  <2>2. ASSUME NEW k \in 1..n, p[i] = R[k] PROVE p[i].window + Size <= clock
    BY <1>3, <1>4, <2>2
  <2> QED
    BY <1>10, <2>1, <2>2
<1>15. Apart(p, w)
  BY <1>11, <1>12, <1>13, <1>14 DEF Apart
<1>16. ASSUME NEW id, In(p, w, id) PROVE In(q, win, id)
  <2>1. ASSUME NEW i \in DOMAIN p, id \in p[i].records PROVE In(q, win, id)
    <3>1. CASE i \in DOMAIN q /\ p[i] = q[i]
      BY <2>1, <3>1 DEF In
    <3>2. ASSUME NEW k \in 1..n, p[i] = R[k] PROVE In(q, win, id)
      BY <1>3, <1>4, <2>1, <3>2 DEF In
    <3> QED
      BY <1>10, <3>1, <3>2
  <2>2. ASSUME NEW s \in States, id \in w[s] PROVE In(q, win, id)
    BY <1>9, <2>2 DEF In
  <2> QED
    BY <1>16, <2>1, <2>2 DEF In
<1>17. ASSUME NEW id, In(q, win, id) PROVE In(p, w, id)
  <2>1. ASSUME NEW i \in DOMAIN q, id \in q[i].records PROVE In(p, w, id)
    BY <1>5, <1>6, <2>1 DEF In
  <2>2. ASSUME NEW s \in States, id \in win[s] PROVE In(p, w, id)
    <3>1. CASE s \notin due
      BY <1>9, <2>2, <3>1 DEF In
    <3>2. CASE s \in due
      <4>1. PICK k \in 1..n : o[k] = s
        BY <1>1, <3>2
      <4>2. m + k \in DOMAIN p /\ p[m + k].records = win[s]
        BY <1>4, <1>7, <4>1
      <4> QED
        BY <2>2, <4>2 DEF In
    <3> QED
      BY <3>1, <3>2
  <2> QED
    BY <1>17, <2>1, <2>2 DEF In
<1> QED
  BY <1>15, <1>16, <1>17 DEF p, w, R, due

-----------------------------------------------------------------------------
(* Records *)

\* A record that is put into a window for the first time.
LEMMA ReducedApart ==
  ASSUME NEW q, NEW win \in [States -> SUBSET Ids], Apart(q, win), NEW s \in States,
         NEW id \in Ids, ~In(q, win, id)
  PROVE  LET w == [win EXCEPT ![s] = @ \cup {id}] IN
         Apart(q, w) /\ \A x : In(q, w, x) <=> In(q, win, x) \/ x = id
<1> DEFINE w == [win EXCEPT ![s] = @ \cup {id}]
<1>1. \A t \in States : w[t] = IF t = s THEN win[s] \cup {id} ELSE win[t]
  OBVIOUS
<1>2. /\ \A t \in States : id \notin win[t]
      /\ \A i \in DOMAIN q : id \notin q[i].records
  BY DEF In
<1> HIDE DEF w
<1>3. \A t, v \in States : t # v => w[t] \cap w[v] = {}
  BY <1>1, <1>2 DEF Apart
<1>4. \A i \in DOMAIN q, t \in States : q[i].records \cap w[t] = {}
  BY <1>1, <1>2 DEF Apart
<1>5. Apart(q, w)
  BY <1>3, <1>4 DEF Apart
<1>6. ASSUME NEW x PROVE In(q, w, x) <=> In(q, win, x) \/ x = id
  <2>1. (\E t \in States : x \in w[t]) <=> (\E t \in States : x \in win[t]) \/ x = id
    BY <1>1
  <2> QED
    BY <2>1 DEF In
<1> QED
  BY <1>5, <1>6 DEF w

\* Taking the first item of a channel makes its record, and no other, a taken one.
LEMMA TakenFirst ==
  ASSUME Typed, \A v \in Inputs : ChannelSound(v), NEW u \in Inputs, channel[u] # << >>,
         channel' = [channel EXCEPT ![u] = Tail(@)], sent' = sent
  PROVE  LET r == Head(channel[u]) IN
         /\ \A v \in Inputs : ChannelSound(v)'
         /\ r # End => r.id \in Ids /\ ~Taken(r.id)
         /\ \A id \in Ids : Taken(id)' <=> Taken(id) \/ (r # End /\ id = r.id)
<1> DEFINE r == Head(channel[u])
<1>0. PICK c : c = channel[u]
  OBVIOUS
<1>1. c \in Seq(Records \cup {End}) /\ Len(c) \in Nat \ {0} /\ r = c[1] /\ r \in Records \cup {End}
  BY <1>0 DEF Typed
<1>2. /\ channel'[u] = Tail(c) /\ \A v \in Inputs \ {u} : channel'[v] = channel[v]
  BY <1>0 DEF Typed
<1>3. /\ DOMAIN Tail(c) = 1..(Len(c) - 1) /\ DOMAIN c = 1..Len(c)
      /\ \A i \in 1..(Len(c) - 1) : i + 1 \in 1..Len(c) /\ Tail(c)[i] = c[i + 1]
  BY <1>1
<1>4. \A k \in 1..Len(c) : k = 1 \/ (k - 1 \in 1..(Len(c) - 1) /\ Tail(c)[k - 1] = c[k])
  <2> SUFFICES ASSUME NEW k \in 1..Len(c), k # 1
               PROVE  k - 1 \in 1..(Len(c) - 1) /\ Tail(c)[k - 1] = c[k]
    OBVIOUS
  <2>1. k - 1 \in 1..(Len(c) - 1) /\ (k - 1) + 1 = k
    BY <1>1
  <2> QED
    BY <1>3, <2>1
<1>5. /\ \A i \in 1..Len(c) : c[i] # End => c[i].id \in Ids /\ c[i].id[1] = u /\ c[i].id[2] <= sent[u]
      /\ \A i, k \in 1..Len(c) : c[i] # End /\ c[i].id = c[k].id => i = k
  BY <1>0, <1>3 DEF ChannelSound
<1>6. ASSUME NEW v \in Inputs PROVE ChannelSound(v)'
  <2>1. CASE v # u
    BY <1>2, <2>1 DEF ChannelSound
  <2>2. CASE v = u
    <3>0. PICK d : d = Tail(c)
      OBVIOUS
    <3>1. \A i \in 1..(Len(c) - 1) : d[i] # End =>
            d[i].id \in Ids /\ d[i].id[1] = u /\ d[i].id[2] <= sent[u]
      BY <1>3, <1>5, <3>0
    <3>2. ASSUME NEW i \in 1..(Len(c) - 1), NEW k \in 1..(Len(c) - 1),
                 d[i] # End, d[i].id = d[k].id
          PROVE  i = k
      <4>1. i + 1 = k + 1
        BY <1>3, <1>5, <3>0, <3>2
      <4> QED
        BY <1>1, <4>1
    <3>3. channel'[u] = d /\ DOMAIN d = 1..(Len(c) - 1)
      BY <1>2, <1>3, <3>0
    <3>4. \A i \in DOMAIN channel'[u] : channel'[u][i] # End =>
            channel'[u][i].id \in Ids /\ channel'[u][i].id[1] = u /\ channel'[u][i].id[2] <= sent'[u]
      BY <3>1, <3>3
    <3>5. \A i, k \in DOMAIN channel'[u] :
            channel'[u][i] # End /\ channel'[u][i].id = channel'[u][k].id => i = k
      <4>1. \A i, k \in 1..(Len(c) - 1) : d[i] # End /\ d[i].id = d[k].id => i = k
        BY <3>2
      <4>2. PICK q : q = channel'[u]
        OBVIOUS
      <4>3. \A i, k \in DOMAIN q : q[i] # End /\ q[i].id = q[k].id => i = k
        BY <3>3, <4>1, <4>2
      <4> QED
        BY <4>2, <4>3
    <3> QED
      BY <2>2, <3>4, <3>5 DEF ChannelSound
  <2> QED
    BY <2>1, <2>2
<1>7. 1 \in 1..Len(c)
  BY <1>1
<1>8. ASSUME r # End PROVE r.id \in Ids /\ ~Taken(r.id) /\ r.id[1] = u /\ r.id[2] <= sent[u]
  <2>1. r.id \in Ids /\ r.id[1] = u /\ r.id[2] <= sent[u]
    BY <1>1, <1>5, <1>7, <1>8
  <2>2. 1 \in DOMAIN channel[r.id[1]] /\ channel[r.id[1]][1].id = r.id
    BY <1>0, <1>1, <1>3, <1>7, <2>1
  <2> QED
    BY <2>1, <2>2 DEF Taken
<1>9. ASSUME NEW id \in Ids PROVE Taken(id)' <=> Taken(id) \/ (r # End /\ id = r.id)
  <2>1. id[1] \in Inputs
    BY DEF Ids
  <2>2. CASE id[1] # u
    <3>1. r # End => id # r.id
      BY <1>8, <2>2
    <3> QED
      BY <1>2, <2>1, <2>2, <3>1 DEF Taken
  <2>3. CASE id[1] = u
    <3>1. Taken(id) <=> id[2] <= sent[u] /\ \A i \in 1..Len(c) : c[i].id # id
      BY <1>0, <1>3, <2>3 DEF Taken
    <3>2. Taken(id)' <=> id[2] <= sent[u] /\ \A i \in 1..(Len(c) - 1) : Tail(c)[i].id # id
      BY <1>2, <1>3, <2>3 DEF Taken
    <3>3. r = End => r.id # id
      <4>1. End.id = << >> /\ id \in Inputs \X (1..MaxRecords)
        BY DEF End, Ids
      <4> QED
        BY <4>1
    <3>4. (\A i \in 1..Len(c) : c[i].id # id) <=>
            r.id # id /\ \A i \in 1..(Len(c) - 1) : Tail(c)[i].id # id
      <4>1. ASSUME \A i \in 1..Len(c) : c[i].id # id
            PROVE  r.id # id /\ \A i \in 1..(Len(c) - 1) : Tail(c)[i].id # id
        BY <1>1, <1>3, <1>7, <4>1
      <4>2. ASSUME r.id # id, \A i \in 1..(Len(c) - 1) : Tail(c)[i].id # id
            PROVE  \A k \in 1..Len(c) : c[k].id # id
        BY <1>1, <1>4, <4>2
      <4> QED
        BY <4>1, <4>2
    <3>5. ASSUME r # End, id = r.id
          PROVE  id[2] <= sent[u] /\ \A i \in 1..(Len(c) - 1) : Tail(c)[i].id # id
      <4>1. ASSUME NEW i \in 1..(Len(c) - 1) PROVE Tail(c)[i].id # id
        <5>1. i + 1 # 1 /\ i + 1 \in 1..Len(c) /\ Tail(c)[i] = c[i + 1]
          BY <1>1, <1>3
        <5>2. c[1] # End /\ c[1].id = id
          BY <1>1, <3>5
        <5> QED
          BY <1>5, <1>7, <5>1, <5>2
      <4> QED
        BY <1>8, <3>5, <4>1
    <3> HIDE DEF r
    <3> QED
      BY <3>1, <3>2, <3>3, <3>4, <3>5
  <2> QED
    BY <2>2, <2>3
<1> QED
  BY <1>6, <1>8, <1>9

\* A record that is sent is not taken, and changes nothing for the others.
LEMMA SentIsNotTaken ==
  ASSUME Typed, \A v \in Inputs : ChannelSound(v), NEW u \in Inputs, Sends(u) \/ Ends(u)
  PROVE  /\ \A v \in Inputs : ChannelSound(v)'
         /\ \A id \in Ids : Taken(id)' <=> Taken(id)
<1>0. PICK c : c = channel[u]
  OBVIOUS
<1>1. /\ c \in Seq(Records \cup {End}) /\ Len(c) \in Nat /\ sent[u] \in Nat
      /\ \A v \in Inputs : sent[v] \in Nat
  BY <1>0, Numbers DEF Typed
<1>2. PICK x : /\ channel' = [channel EXCEPT ![u] = Append(@, x)]
               /\ \/ x = End /\ sent' = sent
                  \/ x.id = <<u, sent[u] + 1>> /\ sent' = [sent EXCEPT ![u] = @ + 1]
                       /\ sent[u] < MaxRecords
  <2>1. CASE Ends(u)
    BY <2>1 DEF Ends
  <2>2. CASE Sends(u)
    <3>1. PICK time \in (clock - MaxSkew)..(clock + MaxSkew), k \in Keys :
            channel' = [channel EXCEPT ![u] =
              Append(@, [id |-> <<u, sent[u] + 1>>, time |-> time, key |-> k])]
      BY <2>2 DEF Sends
    <3>2. sent' = [sent EXCEPT ![u] = @ + 1] /\ sent[u] < MaxRecords
      BY <2>2 DEF Sends
    <3>3. PICK y : y = [id |-> <<u, sent[u] + 1>>, time |-> time, key |-> k]
      OBVIOUS
    <3>4. y.id = <<u, sent[u] + 1>> /\ channel' = [channel EXCEPT ![u] = Append(@, y)]
      BY <3>1, <3>3
    <3> QED
      BY <3>2, <3>4
  <2> QED
    BY <2>1, <2>2
<1>3. /\ channel'[u] = Append(c, x) /\ \A v \in Inputs \ {u} : channel'[v] = channel[v]
      /\ \A v \in Inputs \ {u} : sent'[v] = sent[v]
      /\ sent[u] <= sent'[u]
  BY <1>0, <1>1, <1>2 DEF Typed
<1>4. /\ DOMAIN Append(c, x) = 1..(Len(c) + 1) /\ DOMAIN c = 1..Len(c)
      /\ Append(c, x)[Len(c) + 1] = x
      /\ \A i \in 1..Len(c) : i \in 1..(Len(c) + 1) /\ Append(c, x)[i] = c[i]
      /\ \A i \in 1..(Len(c) + 1) : i \in 1..Len(c) \/ i = Len(c) + 1
      /\ Len(c) + 1 \in 1..(Len(c) + 1)
  BY <1>1
<1>5. /\ \A i \in 1..Len(c) : c[i] # End => c[i].id \in Ids /\ c[i].id[1] = u /\ c[i].id[2] <= sent[u]
      /\ \A i, k \in 1..Len(c) : c[i] # End /\ c[i].id = c[k].id => i = k
  BY <1>0, <1>4 DEF ChannelSound
<1>6. ASSUME NEW id \in Ids PROVE id # << >> /\ id = <<id[1], id[2]>> /\ id[1] \in Inputs /\ id[2] \in Nat
  <2>1. id \in Inputs \X (1..MaxRecords)
    BY DEF Ids
  <2> QED
    BY <2>1, Numbers
<1>7. End.id = << >>
  BY DEF End
<1>8. \A i \in 1..Len(c) : c[i] = End \/ c[i].id # x.id
  <2> SUFFICES ASSUME NEW i \in 1..Len(c), c[i] # End PROVE c[i].id # x.id
    OBVIOUS
  <2>1. c[i].id \in Ids /\ c[i].id[2] <= sent[u] /\ c[i].id[2] \in Nat /\ c[i].id # << >>
    BY <1>5, <1>6
  <2>2. CASE x = End
    BY <1>7, <2>1, <2>2
  <2>3. CASE x.id = <<u, sent[u] + 1>>
    <3>1. x.id[2] = sent[u] + 1
      BY <2>3
    <3> QED
      BY <1>1, <2>1, <3>1
  <2> QED
    BY <1>2, <2>2, <2>3
<1>9. x # End => x.id \in Ids /\ x.id[1] = u /\ x.id[2] <= sent'[u]
  <2> SUFFICES ASSUME x # End PROVE x.id \in Ids /\ x.id[1] = u /\ x.id[2] <= sent'[u]
    OBVIOUS
  <2>1. x.id = <<u, sent[u] + 1>> /\ sent'[u] = sent[u] + 1 /\ sent[u] < MaxRecords
    BY <1>2 DEF Typed
  <2>2. sent[u] + 1 \in 1..MaxRecords
    BY <1>1, <2>1, Numbers
  <2> QED
    BY <1>1, <2>1, <2>2 DEF Ids
<1>10. ASSUME NEW v \in Inputs PROVE ChannelSound(v)'
  <2>1. CASE v # u
    BY <1>3, <2>1 DEF ChannelSound
  <2>2. CASE v = u
    <3> DEFINE d == Append(c, x)
    <3>1. ASSUME NEW i \in 1..(Len(c) + 1), d[i] # End
          PROVE  d[i].id \in Ids /\ d[i].id[1] = u /\ d[i].id[2] <= sent'[u]
      <4>1. CASE i \in 1..Len(c)
        <5>1. d[i] = c[i] /\ c[i].id \in Ids /\ c[i].id[1] = u /\ c[i].id[2] <= sent[u]
          BY <1>4, <1>5, <3>1, <4>1
        <5>2. c[i].id[2] \in Nat /\ sent'[u] \in Nat
          <6>1. c[i].id[2] \in Nat
            BY <1>6, <5>1
          <6>2. sent[u] \in Nat /\ (sent'[u] = sent[u] \/ sent'[u] = sent[u] + 1)
            BY <1>1, <1>2 DEF Typed
          <6> QED
            BY <6>1, <6>2
        <5>3. PICK k, m, n : k = c[i].id[2] /\ m = sent[u] /\ n = sent'[u]
          OBVIOUS
        <5>4. k \in Nat /\ m \in Nat /\ n \in Nat /\ k <= m /\ m <= n
          BY <1>1, <1>3, <5>1, <5>2, <5>3
        <5>5. k <= n
          BY <5>4
        <5> QED
          BY <5>1, <5>3, <5>5
      <4>2. CASE i = Len(c) + 1
        BY <1>4, <1>9, <3>1, <4>2
      <4> QED
        BY <1>4, <4>1, <4>2
    <3>2. ASSUME NEW i \in 1..(Len(c) + 1), NEW k \in 1..(Len(c) + 1), d[i] # End, d[i].id = d[k].id
          PROVE  i = k
      <4>1. CASE i \in 1..Len(c) /\ k \in 1..Len(c)
        BY <1>4, <1>5, <3>2, <4>1
      <4>2. CASE i \in 1..Len(c) /\ k = Len(c) + 1
        BY <1>4, <1>8, <3>2, <4>2
      <4>3. CASE i = Len(c) + 1 /\ k \in 1..Len(c)
        <5>1. x # End /\ x.id = c[k].id /\ x.id # << >>
          BY <1>4, <1>6, <1>9, <3>2, <4>3
        <5> QED
          BY <1>7, <1>8, <4>3, <5>1
      <4> QED
        BY <1>4, <4>1, <4>2, <4>3
    <3> HIDE DEF d
    <3>3. channel'[u] = d /\ DOMAIN d = 1..(Len(c) + 1)
      BY <1>3, <1>4 DEF d
    <3> QED
      BY <2>2, <3>1, <3>2, <3>3 DEF ChannelSound
  <2> QED
    BY <2>1, <2>2
<1>11. ASSUME NEW id \in Ids PROVE Taken(id)' <=> Taken(id)
  <2>1. CASE id[1] # u
    BY <1>3, <1>6, <2>1 DEF Taken
  <2>2. CASE id[1] = u
    <3>1. Taken(id) <=> id[2] <= sent[u] /\ \A i \in 1..Len(c) : c[i].id # id
      BY <1>0, <1>4, <2>2 DEF Taken
    <3>2. Taken(id)' <=> id[2] <= sent'[u] /\ \A i \in 1..(Len(c) + 1) : Append(c, x)[i].id # id
      BY <1>3, <1>4, <2>2 DEF Taken
    <3>3. (\A i \in 1..(Len(c) + 1) : Append(c, x)[i].id # id) <=>
            (\A i \in 1..Len(c) : c[i].id # id) /\ x.id # id
      BY <1>4
    <3>4. CASE x = End /\ sent' = sent
      BY <1>6, <1>7, <3>1, <3>2, <3>3, <3>4
    <3>5. CASE x.id = <<u, sent[u] + 1>> /\ sent' = [sent EXCEPT ![u] = @ + 1]
      <4>1. sent'[u] = sent[u] + 1
        BY <3>5 DEF Typed
      <4>2. x.id = id <=> id[2] = sent[u] + 1
        BY <1>6, <2>2, <3>5
      <4>3. id[2] <= sent'[u] /\ id[2] # sent[u] + 1 <=> id[2] <= sent[u]
        BY <1>1, <1>6, <4>1
      <4> QED
        BY <3>1, <3>2, <3>3, <4>2, <4>3
    <3> QED
      BY <1>2, <3>4, <3>5
  <2> QED
    BY <2>1, <2>2
<1> QED
  BY <1>10, <1>11

-----------------------------------------------------------------------------
(* Each step counts each record once *)

\* A step that leaves rows and windows alone, and time moves on.
LEMMA ApartLater ==
  ASSUME Typed, Typed', Apart(AllRows, windows), AllRows' = AllRows, windows' = windows,
         clock <= clock'
  PROVE  Apart(AllRows, windows)'
<1>1. ASSUME NEW i \in DOMAIN AllRows PROVE AllRows[i].window + Size <= clock'
  <2>1. AllRows[i] \in RowType
    BY AllRowsType
  <2>2. AllRows[i].window \in Windows
    BY <2>1 DEF RowType
  <2>3. AllRows[i].window \in Nat /\ clock \in Nat /\ clock' \in Nat
    BY <2>2, Numbers DEF Windows, Typed
  <2> QED
    BY <2>3, Numbers DEF Apart
<1>2. \A i \in DOMAIN AllRows' : AllRows'[i].window + Size <= clock'
  BY <1>1
<1> QED
  BY <1>2 DEF Apart

\* A step that leaves rows, windows and what is taken alone.
LEMMA NothingCounted ==
  ASSUME Typed, Typed', CountInv, AllRows' = AllRows, windows' = windows, clock <= clock',
         \A v \in Inputs : ChannelSound(v)', state' = "running" => state = "running",
         \A id \in Ids : Taken(id)' <=> Taken(id)
  PROVE  CountInv'
<1>1. Apart(AllRows, windows)'
  BY ApartLater DEF CountInv
<1>2. ASSUME state' = "running", NEW id \in Ids
      PROVE  In(AllRows', windows', id) <=> Taken(id)'
  BY <1>2 DEF CountInv
<1>3. ASSUME NEW id PROVE In(AllRows, windows, id)' <=> In(AllRows', windows', id)
  BY DEF In
<1> QED
  BY <1>1, <1>2 DEF CountInv

LEMMA InitCounts == Init => CountInv
<1> SUFFICES ASSUME Init PROVE CountInv
  OBVIOUS
<1>1. AllRows = << >>
  BY DEF Init, AllRows
<1>2. \A u \in Inputs : channel[u] = << >> /\ sent[u] = 0
  BY DEF Init
<1>3. \A s \in States : windows[s] = {}
  BY DEF Init
<1>4. \A u \in Inputs : ChannelSound(u)
  BY <1>2 DEF ChannelSound
<1>5. Apart(AllRows, windows)
  BY <1>1, <1>3 DEF Apart
<1>6. ASSUME NEW id \in Ids PROVE ~In(AllRows, windows, id) /\ ~Taken(id)
  <2>1. id[1] \in Inputs /\ id[2] \in 1..MaxRecords
    BY DEF Ids
  <2>2. id[2] \in Int /\ ~(id[2] <= 0)
    BY <2>1, Numbers
  <2> QED
    BY <1>1, <1>2, <1>3, <2>1, <2>2 DEF In, Taken
<1> QED
  BY <1>4, <1>5, <1>6 DEF CountInv

LEMMA InputsCount ==
  ASSUME Typed, Typed', CountInv, Tick \/ \E u \in Inputs : Sends(u) \/ Ends(u)
  PROVE  CountInv'
<1>1. CASE Tick
  <2>1. /\ clock' = clock + 1 /\ clock \in Nat /\ channel' = channel /\ sent' = sent
        /\ windows' = windows /\ state' = state /\ out' = out /\ toSink' = toSink /\ rows' = rows
    BY <1>1, Numbers DEF Tick, Typed, inputVars, taskVars, sinkVars
  <2>2. AllRows' = AllRows /\ clock <= clock'
    BY <2>1 DEF AllRows
  <2>3. \A v \in Inputs : ChannelSound(v)'
    BY <2>1 DEF CountInv, ChannelSound
  <2>4. \A id \in Ids : Taken(id)' <=> Taken(id)
    BY <2>1 DEF Taken
  <2> QED
    BY <2>1, <2>2, <2>3, <2>4, NothingCounted
<1>2. ASSUME NEW u \in Inputs, Sends(u) \/ Ends(u) PROVE CountInv'
  <2>1. /\ clock' = clock /\ clock \in Nat /\ windows' = windows /\ state' = state
        /\ out' = out /\ toSink' = toSink /\ rows' = rows
    BY <1>2, Numbers DEF Sends, Ends, Typed, taskVars, sinkVars
  <2>2. AllRows' = AllRows /\ clock <= clock'
    BY <2>1 DEF AllRows
  <2>3. /\ \A v \in Inputs : ChannelSound(v)'
        /\ \A id \in Ids : Taken(id)' <=> Taken(id)
    BY <1>2, SentIsNotTaken DEF CountInv
  <2> QED
    BY <2>1, <2>2, <2>3, NothingCounted
<1> QED
  BY <1>1, <1>2

\* on_timer of windows that hold what is taken.
LEMMA TimerKeeps ==
  ASSUME Typed, Typed', NEW win \in [States -> SUBSET Ids], IsFiniteSet(Busy(win)),
         Apart(AllRows, win), OnTimer(win), out = << >>, toSink' = toSink, rows' = rows,
         clock' = clock
  PROVE  /\ Apart(AllRows, windows)'
         /\ \A id \in Ids : In(AllRows, windows, id)' <=> In(AllRows, win, id)
<1> DEFINE due == Due(win)
           R == Rows(win, due)
<1>1. R \in Seq(RowType) /\ rows \in Seq(RowType) /\ toSink \in Seq(RowType) /\ clock \in Nat
  BY TimerTyped, Numbers DEF Typed
<1>2. out' = R /\ windows' = Cleared(win, due)
  BY DEF OnTimer
<1> HIDE DEF R, due
<1>3. PICK q : q = AllRows
  OBVIOUS
<1>4. q \in Seq(RowType) /\ q = rows \o toSink
  BY <1>1, <1>3 DEF AllRows
<1>5. AllRows' = q \o R
  BY <1>2, <1>4 DEF AllRows
<1>6. /\ Apart(q \o R, Cleared(win, due))
      /\ \A id \in Ids : In(q \o R, Cleared(win, due), id) <=> In(q, win, id)
  BY <1>1, <1>3, <1>4, TimerCounts DEF R, due
<1>7. Apart(AllRows, windows)'
  BY <1>2, <1>5, <1>6 DEF Apart
<1>8. ASSUME NEW id \in Ids PROVE In(AllRows, windows, id)' <=> In(AllRows, win, id)
  BY <1>2, <1>3, <1>5, <1>6 DEF In
<1> QED
  BY <1>7, <1>8

LEMMA ProcessesCounts ==
  ASSUME Typed, Typed', CountInv, NEW u \in Inputs, Processes(u)
  PROVE  CountInv'
<1> DEFINE r == Head(channel[u])
           s == <<Assign(r.time), r.key>>
           win == [windows EXCEPT ![s] = @ \cup {r.id}]
<1>1. /\ state = "running" /\ out = << >> /\ channel[u] # << >> /\ r # End /\ OnTimer(win)
      /\ channel' = [channel EXCEPT ![u] = Tail(@)]
      /\ clock' = clock /\ sent' = sent /\ state' = state /\ toSink' = toSink /\ rows' = rows
  BY DEF Processes, Waiting, sinkVars
<1>2. r \in Records
  BY <1>1, HeadTyped
<1>3. s \in States /\ r.id \in Ids
  BY <1>2 DEF Records
<1>4. /\ \A v \in Inputs : ChannelSound(v)'
      /\ ~Taken(r.id)
      /\ \A id \in Ids : Taken(id)' <=> Taken(id) \/ id = r.id
  BY <1>1, TakenFirst DEF CountInv
<1>5. Apart(AllRows, windows) /\ \A id \in Ids : In(AllRows, windows, id) <=> Taken(id)
  BY <1>1 DEF CountInv
<1>6. windows \in [States -> SUBSET Ids] /\ IsFiniteSet(Busy(windows))
  BY DEF Typed
<1> HIDE DEF r, s
<1>7. ~In(AllRows, windows, r.id)
  BY <1>3, <1>4, <1>5
<1>8. Apart(AllRows, win) /\ \A x : In(AllRows, win, x) <=> In(AllRows, windows, x) \/ x = r.id
  BY <1>3, <1>5, <1>6, <1>7, ReducedApart
<1>9. win \in [States -> SUBSET Ids] /\ IsFiniteSet(Busy(win))
  BY <1>3, <1>6, ReducedTyped
<1> HIDE DEF win
<1>10. /\ Apart(AllRows, windows)'
       /\ \A id \in Ids : In(AllRows, windows, id)' <=> In(AllRows, win, id)
  BY <1>1, <1>8, <1>9, TimerKeeps
<1>11. \A id \in Ids : In(AllRows, windows, id)' <=> Taken(id)'
  BY <1>4, <1>5, <1>8, <1>10
<1> QED
  BY <1>4, <1>10, <1>11 DEF CountInv

LEMMA TakesEndCounts ==
  ASSUME Typed, Typed', CountInv, NEW u \in Inputs, TakesEnd(u)
  PROVE  CountInv'
<1>1. /\ state = "running" /\ out = << >> /\ channel[u] # << >> /\ Head(channel[u]) = End
      /\ channel' = [channel EXCEPT ![u] = Tail(@)]
      /\ clock' = clock /\ sent' = sent /\ toSink' = toSink /\ rows' = rows
  BY DEF TakesEnd, Waiting, sinkVars
<1>2. /\ \A v \in Inputs : ChannelSound(v)'
      /\ \A id \in Ids : Taken(id)' <=> Taken(id)
  BY <1>1, TakenFirst DEF CountInv
<1>3. CASE OnTimer(windows) /\ state' = "finishing"
  <2>1. /\ windows \in [States -> SUBSET Ids] /\ IsFiniteSet(Busy(windows))
        /\ Apart(AllRows, windows)
    BY DEF Typed, CountInv
  <2>2. Apart(AllRows, windows)'
    BY <1>1, <1>3, <2>1, TimerKeeps
  <2> QED
    BY <1>2, <1>3, <2>2 DEF CountInv
<1>4. CASE UNCHANGED <<windows, out, state>>
  <2>1. AllRows' = AllRows /\ windows' = windows /\ state' = state /\ clock <= clock'
    BY <1>1, <1>4, Numbers DEF AllRows, Typed
  <2> QED
    BY <1>1, <1>2, <2>1, NothingCounted
<1> QED
  BY <1>3, <1>4 DEF TakesEnd

LEMMA TimerFiresCounts ==
  ASSUME Typed, Typed', CountInv, TimerFires
  PROVE  CountInv'
<1>1. /\ state = "running" /\ out = << >> /\ OnTimer(windows) /\ channel' = channel
      /\ clock' = clock /\ sent' = sent /\ state' = state /\ toSink' = toSink /\ rows' = rows
  BY DEF TimerFires, Waiting, inputVars, sinkVars
<1>2. /\ windows \in [States -> SUBSET Ids] /\ IsFiniteSet(Busy(windows))
      /\ Apart(AllRows, windows) /\ \A id \in Ids : In(AllRows, windows, id) <=> Taken(id)
  BY <1>1 DEF Typed, CountInv
<1>3. /\ Apart(AllRows, windows)'
      /\ \A id \in Ids : In(AllRows, windows, id)' <=> In(AllRows, windows, id)
  BY <1>1, <1>2, TimerKeeps
<1>4. \A v \in Inputs : ChannelSound(v)'
  BY <1>1 DEF CountInv, ChannelSound
<1>5. \A id \in Ids : Taken(id)' <=> Taken(id)
  BY <1>1 DEF Taken
<1> QED
  BY <1>2, <1>3, <1>4, <1>5 DEF CountInv

\* The rows on their way move on, in order.
LEMMA RowsMoveOn ==
  ASSUME Typed, Typed', CountInv, Emits \/ SinkWrites
  PROVE  CountInv'
<1>1. /\ clock' = clock /\ clock \in Nat /\ channel' = channel /\ sent' = sent
      /\ windows' = windows /\ state' = state
  BY Numbers DEF Emits, SinkWrites, inputVars, taskVars, Typed
<1>2. rows \in Seq(RowType) /\ toSink \in Seq(RowType) /\ out \in Seq(RowType)
  BY DEF Typed
<1>3. AllRows' = AllRows
  <2>1. CASE Emits
    <3>1. out # << >> /\ toSink' = Append(toSink, Head(out)) /\ out' = Tail(out) /\ rows' = rows
      BY <2>1 DEF Emits
    <3>2. Chain(rows, Append(toSink, Head(out)), Tail(out)) = Chain(rows, toSink, out)
      BY <1>2, <3>1, EmittedRows
    <3> QED
      BY <3>1, <3>2 DEF AllRows, Chain
  <2>2. CASE SinkWrites
    <3>1. toSink # << >> /\ rows' = Append(rows, Head(toSink)) /\ toSink' = Tail(toSink) /\ out' = out
      BY <2>2 DEF SinkWrites, taskVars
    <3>2. Chain(Append(rows, Head(toSink)), Tail(toSink), out) = Chain(rows, toSink, out)
      BY <1>2, <3>1, WrittenRows
    <3> QED
      BY <3>1, <3>2 DEF AllRows, Chain
  <2> QED
    BY <2>1, <2>2
<1>4. \A v \in Inputs : ChannelSound(v)'
  BY <1>1 DEF CountInv, ChannelSound
<1>5. \A id \in Ids : Taken(id)' <=> Taken(id)
  BY <1>1 DEF Taken
<1> QED
  BY <1>1, <1>3, <1>4, <1>5, NothingCounted

\* The task ends: windows are dropped, and of the rows those behind may be lost.
LEMMA TaskEndsCounts ==
  ASSUME Typed, Typed', CountInv, Finishes \/ StopTask \/ TaskFails
  PROVE  CountInv'
<1>1. /\ clock' = clock /\ channel' = channel /\ sent' = sent /\ rows' = rows
      /\ windows' = [s \in States |-> {}] /\ state' # "running"
  BY DEF Finishes, StopTask, TaskFails, Leaves, inputVars
<1>2. rows \in Seq(RowType) /\ toSink \in Seq(RowType) /\ out \in Seq(RowType)
  BY DEF Typed
<1>3. PICK q : q = AllRows
  OBVIOUS
<1>4. q = rows \o toSink \o out /\ Apart(q, windows)
  BY <1>3 DEF CountInv, AllRows
<1>5. IsPart(AllRows', q)
  <2>1. CASE Finishes
    <3>1. AllRows' = q
      BY <1>1, <1>3, <2>1 DEF Finishes, AllRows
    <3> QED
      BY <3>1 DEF IsPart
  <2>2. CASE StopTask
    <3>1. toSink' = toSink /\ (out' = << >> \/ (out # << >> /\ out' = <<Head(out)>>))
      BY <2>2 DEF StopTask
    <3>2. AllRows' = rows \o toSink \o out'
      BY <1>1, <3>1 DEF AllRows
    <3>3. CASE out' = << >>
      <4>1. IsPart(rows \o toSink \o << >>, rows \o toSink \o out)
        BY <1>2, ShorterIsPart
      <4> QED
        BY <1>4, <3>2, <3>3, <4>1
    <3>4. CASE out # << >> /\ out' = <<Head(out)>>
      <4>1. IsPart(rows \o toSink \o <<Head(out)>>, rows \o toSink \o out)
        BY <1>2, <3>4, ShorterIsPart
      <4> QED
        BY <1>4, <3>2, <3>4, <4>1
    <3> QED
      BY <3>1, <3>3, <3>4
  <2>3. CASE TaskFails
    <3>1. PICK n \in 0..Len(toSink) : toSink' = SubSeq(toSink, 1, n)
      BY <2>3 DEF TaskFails
    <3>2. out' = << >>
      BY <2>3 DEF TaskFails
    <3>3. AllRows' = rows \o SubSeq(toSink, 1, n) \o << >>
      BY <1>1, <3>1, <3>2 DEF AllRows
    <3> QED
      BY <1>2, <1>4, <3>3, AbortedIsPart
  <2> QED
    BY <2>1, <2>2, <2>3
<1>6. Apart(AllRows', [s \in States |-> {}])
  BY <1>4, <1>5, PartIsApart
<1>7. Apart(AllRows, windows)'
  BY <1>1, <1>6 DEF Apart
<1>8. \A v \in Inputs : ChannelSound(v)'
  BY <1>1 DEF CountInv, ChannelSound
<1> QED
  BY <1>1, <1>7, <1>8 DEF CountInv

LEMMA NextCounts == Typed /\ Typed' /\ CountInv /\ [Next]_vars => CountInv'
<1> SUFFICES ASSUME Typed, Typed', CountInv, [Next]_vars PROVE CountInv'
  OBVIOUS
<1>1. CASE UNCHANGED vars
  <2>1. /\ clock' = clock /\ clock \in Nat /\ channel' = channel /\ sent' = sent
        /\ windows' = windows /\ state' = state /\ out' = out /\ toSink' = toSink /\ rows' = rows
    BY <1>1, Numbers DEF vars, inputVars, taskVars, sinkVars, Typed
  <2>2. AllRows' = AllRows /\ clock <= clock'
    BY <2>1 DEF AllRows
  <2>3. \A v \in Inputs : ChannelSound(v)'
    BY <2>1 DEF CountInv, ChannelSound
  <2>4. \A id \in Ids : Taken(id)' <=> Taken(id)
    BY <2>1 DEF Taken
  <2> QED
    BY <2>1, <2>2, <2>3, <2>4, NothingCounted
<1>2. CASE Next
  BY <1>2, InputsCount, ProcessesCounts, TakesEndCounts, TimerFiresCounts, RowsMoveOn,
     TaskEndsCounts DEF Next, Takes
<1> QED
  BY <1>1, <1>2

\* Every record that the running task has taken is counted in exactly one row or held in
\* exactly one window, and none is ever counted twice; no row exists before its window
\* has ended (process, on_timer).
THEOREM RecordsCountedOnce == Spec => []CountedOnce
<1>1. Init => Typed /\ CountInv
  BY InitTyped, InitCounts
<1>2. (Typed /\ CountInv) /\ [Next]_vars => (Typed /\ CountInv)'
  BY NextTyped, NextCounts
<1>3. Typed /\ CountInv => CountedOnce
  BY CountInvCounts
<1> QED
  BY <1>1, <1>2, <1>3, PTL DEF Spec
=============================================================================
