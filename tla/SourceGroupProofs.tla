------------------------- MODULE SourceGroupProofs -------------------------
(***************************************************************************)
(* Proofs about SourceGroup for every log, set of subtasks and of routes.  *)
(***************************************************************************)
EXTENDS SourceGroup, FiniteSetTheorems, TLAPS

-----------------------------------------------------------------------------
(* The invariant *)

Last == Cardinality(Routes)

\* The values of the variables.
Typed ==
  /\ policy \in {"skip", "fail"}
  /\ phase \in [Subtasks -> {"new", "polling", "sending", "committing", "closed"}]
  /\ holding \in [Subtasks -> [partition : Partitions \cup {None}, offset : Nat,
                               routes : SUBSET Routes]]
  /\ assigned \in [Partitions -> Subtasks \cup {None}]
  /\ position \in [Partitions -> (Nat \ {0}) \cup {None}]
  /\ committed \in [Partitions -> (Nat \ {0}) \cup {None}]
  /\ accepted \in [Partitions -> [Routes -> SUBSET Nat]]

\* Every good record before offset o is committed.
Oldest(p, o) == \A x \in Good(p) : x < o => Before(p, x)

InHand(s, p, o) ==
  /\ phase[s] \in {"sending", "committing"}
  /\ holding[s].partition = p /\ holding[s].offset = o

\* What a task has in hand is a good record, the oldest its partition lacks, put on
\* the routes from the first to the k-th.
HandSound(s) ==
  phase[s] \in {"sending", "committing"} =>
    LET p == holding[s].partition
        o == holding[s].offset
    IN /\ p \in Partitions /\ o \in Good(p) /\ Oldest(p, o)
       /\ \A r \in holding[s].routes : o \in accepted[p][r]
       /\ \E k \in 0..Last : /\ holding[s].routes = 1..k
                             /\ phase[s] = "sending" <=> k < Last

\* The member that has a partition has read on from the committed offset, and of what
\* it has read only the record in hand is not committed.
ReadSound(p) ==
  assigned[p] \in Subtasks /\ phase[assigned[p]] \in Running =>
    /\ position[p] # None /\ Start(p) <= position[p]
    /\ \A o \in 1..Len(Log[p]) : o < position[p] =>
         IF Log[p][o] THEN Before(p, o) \/ InHand(assigned[p], p, o)
                      ELSE policy = "skip"

\* A record that is in a queue has no older one that is not committed.
QueuedSound(p) ==
  \A o \in Good(p) : \A r \in Routes : o \in accepted[p][r] => Oldest(p, o)

GroupInv ==
  /\ Typed
  /\ \A s \in Subtasks : HandSound(s)
  /\ \A p \in Partitions : ReadSound(p) /\ QueuedSound(p)
  /\ CommittedWasAccepted

-----------------------------------------------------------------------------
(* Lemmas *)

\* The routes are numbered from 1 to their number, and there is one.
LEMMA RoutesType == Last \in Nat \ {0} /\ Routes = 1..Last
<1>1. IsFiniteSet(Routes) /\ Routes # {} /\ Routes = 1..Last
  BY GroupAssumption DEF Last
<1>2. Last \in Nat
  BY <1>1, FS_CardinalityType DEF Last
<1> QED
  BY <1>1, <1>2

\* The route a task puts its record on next is the first it has not been put on.
LEMMA NextRouteType ==
  ASSUME NEW s \in Subtasks, NEW k \in Nat, holding[s].routes = 1..k
  PROVE  NextRoute(s) = k + 1
<1>1. Cardinality(1..k) = k
  BY FS_Interval
<1> QED
  BY <1>1 DEF NextRoute

\* The offsets of a partition are numbers, and its log is a sequence.
LEMMA LogType ==
  ASSUME NEW p \in Partitions
  PROVE  /\ Len(Log[p]) \in Nat /\ Good(p) \subseteq 1..Len(Log[p])
         /\ \A o \in Good(p) : Log[p][o]
<1>1. Log[p] \in Seq(BOOLEAN)
  BY GroupAssumption
<1> QED
  BY <1>1 DEF Good

\* Consumers go on at the committed offsets: whatever the assignment, what lies before
\* them is committed.
LEMMA ReassignSound ==
  ASSUME GroupInv, NEW members \in SUBSET Subtasks, Reassign(members),
         UNCHANGED <<committed, accepted, policy>>
  PROVE  /\ assigned' \in [Partitions -> Subtasks \cup {None}]
         /\ position' \in [Partitions -> (Nat \ {0}) \cup {None}]
         /\ \A p \in Partitions : ReadSound(p)'
<1>1. assigned' \in [Partitions -> Subtasks \cup {None}]
  BY DEF Reassign
<1>2. \A p \in Partitions : Start(p) \in Nat \ {0} /\ Start(p) # None
  <2> SUFFICES ASSUME NEW p \in Partitions
               PROVE  Start(p) \in Nat \ {0} /\ Start(p) # None
    OBVIOUS
  <2>1. committed[p] \in (Nat \ {0}) \cup {None}
    BY DEF GroupInv, Typed
  <2> QED
    BY <2>1, GroupAssumption DEF Start
<1>3. position' \in [Partitions -> (Nat \ {0}) \cup {None}]
  BY <1>2 DEF Reassign
<1>4. ASSUME NEW p \in Partitions
      PROVE  ReadSound(p)'
  <2>1. position'[p] = Start(p) /\ Start(p)' = Start(p)
    BY DEF Reassign, Start
  <2>2. ASSUME NEW o \in 1..Len(Log[p]), o < Start(p)
        PROVE  Before(p, o)
    BY <2>2, LogType DEF Start, Before
  <2>3. ASSUME NEW o \in 1..Len(Log[p]), o < Start(p)
        PROVE  IF Log[p][o] THEN Before(p, o) ELSE policy = "skip"
    BY <2>2, <2>3 DEF GroupInv, CommittedWasAccepted
  <2> QED
    BY <1>2, <2>1, <2>3 DEF ReadSound, Before
<1> QED
  BY <1>1, <1>3, <1>4

-----------------------------------------------------------------------------
(* The steps *)

LEMMA InvInit == Init => GroupInv
<1> SUFFICES ASSUME Init PROVE GroupInv
  OBVIOUS
<1> USE DEF Init, Nothing
<1>1. Typed
  BY DEF Typed
<1>2. \A s \in Subtasks : HandSound(s)
  BY DEF HandSound
<1>3. \A p \in Partitions : ReadSound(p) /\ QueuedSound(p)
  BY GroupAssumption DEF ReadSound, QueuedSound
<1>4. CommittedWasAccepted
  BY DEF CommittedWasAccepted, Before
<1> QED
  BY <1>1, <1>2, <1>3, <1>4 DEF GroupInv

LEMMA InvRebalance == GroupInv /\ Rebalance => GroupInv'
<1> SUFFICES ASSUME GroupInv, Rebalance PROVE GroupInv'
  OBVIOUS
<1>1. Members \in SUBSET Subtasks
  BY DEF Members
<1>2. /\ assigned' \in [Partitions -> Subtasks \cup {None}]
      /\ position' \in [Partitions -> (Nat \ {0}) \cup {None}]
      /\ \A p \in Partitions : ReadSound(p)'
  BY <1>1, ReassignSound DEF Rebalance
<1>3. UNCHANGED <<policy, phase, holding, committed, accepted>>
  BY DEF Rebalance
<1>4. Typed'
  BY <1>2, <1>3 DEF GroupInv, Typed
<1>5. \A s \in Subtasks : HandSound(s)'
  BY <1>3 DEF GroupInv, HandSound, Oldest, Before
<1>6. \A p \in Partitions : QueuedSound(p)'
  BY <1>3 DEF GroupInv, QueuedSound, Oldest, Before
<1>7. CommittedWasAccepted'
  BY <1>3 DEF GroupInv, CommittedWasAccepted, Before
<1> QED
  BY <1>2, <1>4, <1>5, <1>6, <1>7 DEF GroupInv

LEMMA InvOpen ==
  ASSUME NEW s \in Subtasks, GroupInv, Open(s)
  PROVE  GroupInv'
<1>1. Members \cup {s} \in SUBSET Subtasks
  BY DEF Members
<1>2. UNCHANGED <<policy, holding, committed, accepted>>
  BY DEF Open
<1>3. /\ assigned' \in [Partitions -> Subtasks \cup {None}]
      /\ position' \in [Partitions -> (Nat \ {0}) \cup {None}]
      /\ \A p \in Partitions : ReadSound(p)'
  BY <1>1, <1>2, ReassignSound DEF Open
<1>4. phase' = [phase EXCEPT ![s] = "polling"]
  BY DEF Open
<1>5. Typed'
  BY <1>2, <1>3, <1>4 DEF GroupInv, Typed
<1>6. \A u \in Subtasks : HandSound(u)'
  BY <1>2, <1>4 DEF GroupInv, Typed, HandSound, Oldest, Before
<1>7. \A p \in Partitions : QueuedSound(p)'
  BY <1>2 DEF GroupInv, QueuedSound, Oldest, Before
<1>8. CommittedWasAccepted'
  BY <1>2 DEF GroupInv, CommittedWasAccepted, Before
<1> QED
  BY <1>3, <1>5, <1>6, <1>7, <1>8 DEF GroupInv

\* The steps of one task that leave the assignment of partitions alone.
LEMMA InvOpenFails ==
  ASSUME NEW s \in Subtasks, GroupInv, OpenFails(s)
  PROVE  GroupInv'
<1>1. UNCHANGED <<policy, holding, assigned, position, committed, accepted>>
  BY DEF OpenFails
<1>2. phase' = [phase EXCEPT ![s] = "closed"] /\ phase[s] = "new"
  BY DEF OpenFails
<1>3. Typed'
  BY <1>1, <1>2 DEF GroupInv, Typed
<1>4. \A u \in Subtasks : HandSound(u)'
  BY <1>1, <1>2 DEF GroupInv, Typed, HandSound, Oldest, Before
<1>5. \A p \in Partitions : ReadSound(p)'
  <2> SUFFICES ASSUME NEW p \in Partitions PROVE ReadSound(p)'
    OBVIOUS
  <2>1. ReadSound(p)
    BY DEF GroupInv
  <2> QED
    BY <1>1, <1>2, <2>1 DEF GroupInv, Typed, ReadSound, InHand, Running, Before, Start
<1>6. \A p \in Partitions : QueuedSound(p)'
  BY <1>1 DEF GroupInv, QueuedSound, Oldest, Before
<1>7. CommittedWasAccepted'
  BY <1>1 DEF GroupInv, CommittedWasAccepted, Before
<1> QED
  BY <1>3, <1>4, <1>5, <1>6, <1>7 DEF GroupInv

\* What a polling task is about to read has nothing uncommitted before it.
LEMMA PolledIsOldest ==
  ASSUME GroupInv, NEW s \in Subtasks, phase[s] = "polling",
         NEW p \in Partitions, HasNext(s, p)
  PROVE  /\ position[p] \in 1..Len(Log[p])
         /\ \A o \in 1..Len(Log[p]) : o < position[p] =>
              IF Log[p][o] THEN Before(p, o) ELSE policy = "skip"
<1>1. assigned[p] = s /\ position[p] <= Len(Log[p])
  BY DEF HasNext
<1>2. ReadSound(p) /\ phase[s] \in Running
  BY DEF GroupInv, Running
<1>3. position[p] # None /\ position[p] \in (Nat \ {0}) \cup {None}
  BY <1>1, <1>2 DEF ReadSound, GroupInv, Typed
<1>4. position[p] \in 1..Len(Log[p])
  BY <1>1, <1>3, LogType
<1>5. \A o : ~InHand(s, p, o)
  BY DEF InHand
<1> QED
  BY <1>1, <1>2, <1>4, <1>5 DEF ReadSound

LEMMA InvPoll ==
  ASSUME NEW s \in Subtasks, GroupInv, Poll(s)
  PROVE  GroupInv'
<1> PICK p \in Partitions :
      /\ HasNext(s, p) /\ Log[p][position[p]]
      /\ position' = [position EXCEPT ![p] = @ + 1]
      /\ phase' = [phase EXCEPT ![s] = "sending"]
      /\ holding' = [holding EXCEPT ![s] = [partition |-> p, offset |-> position[p], routes |-> {}]]
  BY DEF Poll
<1>1. UNCHANGED <<policy, assigned, committed, accepted>> /\ phase[s] = "polling"
  BY DEF Poll
<1>2. /\ position[p] \in 1..Len(Log[p])
      /\ \A o \in 1..Len(Log[p]) : o < position[p] =>
           IF Log[p][o] THEN Before(p, o) ELSE policy = "skip"
  BY <1>1, PolledIsOldest
<1>3. Len(Log[p]) \in Nat /\ position[p] \in Nat \ {0}
  BY <1>2, LogType
<1> PICK n \in Nat \ {0} : n = position[p]
  BY <1>3
<1>4. Typed'
  BY <1>1, <1>3 DEF GroupInv, Typed
<1>5. ASSUME NEW u \in Subtasks PROVE HandSound(u)'
  <2>1. CASE u # s
    BY <1>1, <2>1 DEF GroupInv, Typed, HandSound, Oldest, Before
  <2>2. CASE u = s
    <3>1. /\ phase'[u] = "sending" /\ holding'[u].partition = p
          /\ holding'[u].offset = n /\ holding'[u].routes = {}
      BY <2>2 DEF GroupInv, Typed
    <3>2. n \in Good(p)
      BY <1>2 DEF Good
    <3>3. ASSUME NEW x \in Good(p), x < n PROVE Before(p, x)
      <4>1. x \in 1..Len(Log[p]) /\ Log[p][x]
        BY LogType
      <4> QED
        BY <1>2, <3>3, <4>1
    <3>4. Oldest(p, n)'
      BY <1>1, <3>3 DEF Oldest, Before, Good
    <3>5. 0 \in 0..Last /\ {} = 1..0 /\ 0 < Last
      BY RoutesType
    <3>6. \E k \in 0..Last : /\ holding'[u].routes = 1..k
                             /\ phase'[u] = "sending" <=> k < Last
      BY <3>1, <3>5
    <3> HIDE DEF Last
    <3> QED
      BY <3>1, <3>2, <3>4, <3>6 DEF HandSound, Good
  <2> QED
    BY <2>1, <2>2
<1>6. ASSUME NEW q \in Partitions PROVE ReadSound(q)'
  <2>1. ReadSound(q)
    BY DEF GroupInv
  <2>2. CASE q = p
    <3>1. assigned[p] = s /\ position'[p] = position[p] + 1
      BY DEF HasNext, GroupInv, Typed
    <3>2. InHand(s, p, n)'
      BY DEF InHand, GroupInv, Typed
    <3>3. Start(p)' = Start(p) /\ Start(p) <= position[p] /\ Start(p) \in Nat
      <4>1. committed[p] \in (Nat \ {0}) \cup {None} /\ committed' = committed
        BY <1>1 DEF GroupInv, Typed
      <4>2. Start(p)' = Start(p) /\ Start(p) \in Nat
        BY <4>1 DEF Start
      <4>3. Start(p) <= position[p]
        BY <1>1, <2>1, <2>2, <3>1 DEF ReadSound, Running
      <4> QED
        BY <4>2, <4>3
    <3>4. \A o \in 1..Len(Log[p]) : o < position[p] + 1 => o < position[p] \/ o = position[p]
      BY <1>3
    <3>5. position[p] + 1 # None /\ Start(p) <= position[p] + 1
      BY <1>3, <3>3, GroupAssumption
    <3>6. \A o \in 1..Len(Log[p]) : o < position'[p] =>
            IF Log[p][o] THEN Before(p, o)' \/ InHand(s, p, o)' ELSE policy' = "skip"
      <4> SUFFICES ASSUME NEW o \in 1..Len(Log[p]), o < position'[p]
                   PROVE  IF Log[p][o] THEN Before(p, o)' \/ InHand(s, p, o)'
                                       ELSE policy' = "skip"
        OBVIOUS
      <4>1. CASE o < position[p]
        BY <1>1, <1>2, <4>1 DEF Before
      <4>2. CASE o = position[p]
        BY <3>2, <4>2
      <4> QED
        BY <3>1, <3>4, <4>1, <4>2
    <3> QED
      BY <1>1, <2>2, <3>1, <3>3, <3>5, <3>6 DEF ReadSound
  <2>3. CASE q # p
    <3>1. position'[q] = position[q] /\ Start(q)' = Start(q)
      BY <1>1, <2>3 DEF GroupInv, Typed, Start
    <3>2. \A u \in Subtasks : phase'[u] \in Running => phase[u] \in Running
      BY <1>1 DEF GroupInv, Typed, Running
    <3>3. \A u \in Subtasks : \A o : InHand(u, q, o) => InHand(u, q, o)'
      BY <1>1 DEF GroupInv, Typed, InHand
    <3> QED
      BY <1>1, <2>1, <3>1, <3>2, <3>3 DEF ReadSound, Before
  <2> QED
    BY <2>2, <2>3
<1>7. \A q \in Partitions : QueuedSound(q)'
  BY <1>1 DEF GroupInv, QueuedSound, Oldest, Before
<1>8. CommittedWasAccepted'
  BY <1>1 DEF GroupInv, CommittedWasAccepted, Before
<1> QED
  BY <1>4, <1>5, <1>6, <1>7, <1>8 DEF GroupInv

LEMMA InvPollBad ==
  ASSUME NEW s \in Subtasks, GroupInv, PollBad(s)
  PROVE  GroupInv'
<1> PICK p \in Partitions :
      /\ HasNext(s, p) /\ ~Log[p][position[p]]
      /\ position' = [position EXCEPT ![p] = @ + 1]
  BY DEF PollBad
<1>1. /\ UNCHANGED <<policy, holding, assigned, committed, accepted>> /\ phase[s] = "polling"
      /\ phase' = [phase EXCEPT ![s] = IF policy = "skip" THEN "polling" ELSE "closed"]
  BY DEF PollBad
<1>2. /\ position[p] \in 1..Len(Log[p])
      /\ \A o \in 1..Len(Log[p]) : o < position[p] =>
           IF Log[p][o] THEN Before(p, o) ELSE policy = "skip"
  BY <1>1, PolledIsOldest
<1>3. Len(Log[p]) \in Nat /\ position[p] \in Nat \ {0}
  BY <1>2, LogType
<1>4. Typed'
  BY <1>1, <1>3 DEF GroupInv, Typed
<1>5. \A u \in Subtasks : HandSound(u)'
  BY <1>1 DEF GroupInv, Typed, HandSound, Oldest, Before
<1>6. ASSUME NEW q \in Partitions PROVE ReadSound(q)'
  <2>1. ReadSound(q)
    BY DEF GroupInv
  <2>2. Start(q)' = Start(q) /\ \A u, o : InHand(u, q, o) => InHand(u, q, o)'
    BY <1>1 DEF Start, InHand, GroupInv, Typed
  <2>3. CASE q = p
    <3>1. assigned[p] = s /\ position'[p] = position[p] + 1
      BY DEF HasNext, GroupInv, Typed
    <3>2. phase'[s] \in Running => policy = "skip"
      BY <1>1 DEF Running, GroupInv, Typed
    <3>3. Start(p) \in Nat /\ Start(p) <= position[p]
      <4>1. committed[p] \in (Nat \ {0}) \cup {None}
        BY DEF GroupInv, Typed
      <4> QED
        BY <1>1, <2>1, <2>3, <3>1, <4>1 DEF ReadSound, Running, Start
    <3>4. position[p] + 1 # None /\ Start(p) <= position[p] + 1
      BY <1>3, <3>3, GroupAssumption
    <3>5. ASSUME NEW o \in 1..Len(Log[p]), o < position[p] + 1, policy = "skip"
          PROVE  IF Log[p][o] THEN Before(p, o)' ELSE policy' = "skip"
      BY <1>1, <1>2, <1>3, <3>5 DEF Before
    <3> QED
      BY <1>1, <2>2, <2>3, <3>1, <3>2, <3>4, <3>5 DEF ReadSound
  <2>4. CASE q # p
    <3>1. position'[q] = position[q]
      BY <2>4 DEF GroupInv, Typed
    <3>2. \A u \in Subtasks : phase'[u] \in Running => phase[u] \in Running
      BY <1>1 DEF GroupInv, Typed, Running
    <3> QED
      BY <1>1, <2>1, <2>2, <3>1, <3>2 DEF ReadSound, Before
  <2> QED
    BY <2>3, <2>4
<1>7. \A q \in Partitions : QueuedSound(q)'
  BY <1>1 DEF GroupInv, QueuedSound, Oldest, Before
<1>8. CommittedWasAccepted'
  BY <1>1 DEF GroupInv, CommittedWasAccepted, Before
<1> QED
  BY <1>4, <1>5, <1>6, <1>7, <1>8 DEF GroupInv

\* A put adds the record in hand to the queue of the next route, and nothing else.
LEMMA PutAdds ==
  ASSUME GroupInv, NEW s \in Subtasks, phase[s] = "sending", accepted' = Accepted(s)
  PROVE  /\ NextRoute(s) \in Routes
         /\ accepted' \in [Partitions -> [Routes -> SUBSET Nat]]
         /\ \A p \in Partitions, r \in Routes : accepted[p][r] \subseteq accepted'[p][r]
         /\ \A p \in Partitions, r \in Routes : \A o \in accepted'[p][r] :
              o \in accepted[p][r] \/ (p = holding[s].partition /\ o = holding[s].offset)
         /\ holding[s].offset \in accepted'[holding[s].partition][NextRoute(s)]
<1>1. /\ HandSound(s) /\ accepted \in [Partitions -> [Routes -> SUBSET Nat]]
      /\ holding[s].offset \in Nat
  BY DEF GroupInv, Typed
<1>2. PICK k \in 0..Last : holding[s].routes = 1..k /\ k < Last
  BY <1>1 DEF HandSound
<1>3. NextRoute(s) \in Routes
  BY <1>2, NextRouteType, RoutesType
<1>4. holding[s].partition \in Partitions
  BY <1>1 DEF HandSound
<1> QED
  BY <1>1, <1>3, <1>4 DEF Accepted

\* More records in the queues are fine as long as each is the oldest of its partition.
LEMMA QueuesGrow ==
  ASSUME GroupInv, NEW s \in Subtasks, phase[s] = "sending",
         accepted' = Accepted(s), UNCHANGED <<policy, committed>>
  PROVE  (\A p \in Partitions : QueuedSound(p)') /\ CommittedWasAccepted'
<1>1. \A p \in Partitions, r \in Routes : accepted[p][r] \subseteq accepted'[p][r]
  BY PutAdds
<1>2. ASSUME NEW p \in Partitions PROVE QueuedSound(p)'
  <2>1. QueuedSound(p) /\ HandSound(s)
    BY DEF GroupInv
  <2>2. \A o \in Good(p) : Oldest(p, o) => Oldest(p, o)'
    BY DEF Oldest, Before, Good
  <2>3. \A r \in Routes : \A o \in accepted'[p][r] :
          o \in accepted[p][r] \/ (p = holding[s].partition /\ o = holding[s].offset)
    BY PutAdds
  <2>4. p = holding[s].partition => Oldest(p, holding[s].offset)
    BY <2>1 DEF HandSound
  <2> QED
    BY <2>1, <2>2, <2>3, <2>4 DEF QueuedSound, Good
<1>3. CommittedWasAccepted'
  BY <1>1 DEF GroupInv, CommittedWasAccepted, Before
<1> QED
  BY <1>2, <1>3

LEMMA InvPut ==
  ASSUME NEW s \in Subtasks, GroupInv, Put(s)
  PROVE  GroupInv'
<1>1. /\ UNCHANGED <<policy, assigned, position, committed>>
      /\ phase[s] = "sending" /\ accepted' = Accepted(s)
      /\ holding' = [holding EXCEPT ![s].routes = @ \cup {NextRoute(s)}]
      /\ phase' = [phase EXCEPT ![s] = IF NextRoute(s) = Last THEN "committing" ELSE "sending"]
  BY DEF Put, Last
<1>2. /\ NextRoute(s) \in Routes
      /\ accepted' \in [Partitions -> [Routes -> SUBSET Nat]]
      /\ \A p \in Partitions, r \in Routes : accepted[p][r] \subseteq accepted'[p][r]
      /\ holding[s].offset \in accepted'[holding[s].partition][NextRoute(s)]
  BY <1>1, PutAdds
<1>3. \A u \in Subtasks : /\ holding'[u].partition = holding[u].partition
                          /\ holding'[u].offset = holding[u].offset
                          /\ u # s => holding'[u] = holding[u] /\ phase'[u] = phase[u]
  BY <1>1 DEF GroupInv, Typed
<1>4. Typed'
  BY <1>1, <1>2 DEF GroupInv, Typed
<1>5. ASSUME NEW u \in Subtasks PROVE HandSound(u)'
  <2>1. HandSound(u)
    BY DEF GroupInv
  <2>2. CASE u # s
    BY <1>1, <1>2, <1>3, <2>1, <2>2 DEF HandSound, Oldest, Before, Good, GroupInv, Typed
  <2>3. CASE u = s
    <3>1. PICK k \in 0..Last : holding[s].routes = 1..k /\ k < Last
      BY <1>1, <2>1, <2>3 DEF HandSound
    <3>2. NextRoute(s) = k + 1 /\ Last \in Nat
      BY <3>1, NextRouteType, RoutesType
    <3>3. holding'[s].routes = holding[s].routes \cup {NextRoute(s)}
      BY <1>1 DEF GroupInv, Typed
    <3>4. holding'[s].routes = 1..(k + 1) /\ k + 1 \in 0..Last
      BY <3>1, <3>2, <3>3
    <3>5. phase'[s] = "sending" <=> k + 1 < Last
      BY <1>1, <3>1, <3>2 DEF GroupInv, Typed
    <3>6. \A r \in holding'[s].routes : holding[s].offset \in accepted'[holding[s].partition][r]
      BY <1>1, <1>2, <2>1, <2>3, <3>3 DEF HandSound, GroupInv, Typed
    <3>7. /\ holding[s].partition \in Partitions
          /\ holding[s].offset \in Good(holding[s].partition)
          /\ Oldest(holding[s].partition, holding[s].offset)
      BY <1>1, <2>1, <2>3 DEF HandSound
    <3>8. \A p \in Partitions : \A o \in Good(p) : Oldest(p, o) => Oldest(p, o)'
      BY <1>1 DEF Oldest, Before, Good
    <3>9. PICK p \in Partitions, o \in Nat :
            o \in Good(p) /\ p = holding[s].partition /\ o = holding[s].offset
      BY <3>7 DEF GroupInv, Typed
    <3>10. Oldest(p, o)' /\ holding'[s].partition = p /\ holding'[s].offset = o
      BY <1>3, <3>7, <3>8, <3>9
    <3>11. \E j \in 0..Last : /\ holding'[s].routes = 1..j
                              /\ phase'[s] = "sending" <=> j < Last
      BY <3>4, <3>5
    <3> QED
      BY <2>3, <3>6, <3>9, <3>10, <3>11 DEF HandSound, Good, Last
  <2> QED
    BY <2>2, <2>3
<1>6. ASSUME NEW p \in Partitions PROVE ReadSound(p)'
  <2>1. ReadSound(p)
    BY DEF GroupInv
  <2>2. \A u \in Subtasks : /\ phase'[u] \in Running => phase[u] \in Running
                            /\ \A o : InHand(u, p, o) => InHand(u, p, o)'
    BY <1>1, <1>3 DEF InHand, Running, GroupInv, Typed
  <2> QED
    BY <1>1, <2>1, <2>2 DEF ReadSound, Before, Start
<1>7. (\A p \in Partitions : QueuedSound(p)') /\ CommittedWasAccepted'
  BY <1>1, QueuesGrow
<1> QED
  BY <1>4, <1>5, <1>6, <1>7 DEF GroupInv

LEMMA InvClose ==
  ASSUME NEW s \in Subtasks, GroupInv, Close(s)
  PROVE  GroupInv'
<1>1. /\ UNCHANGED <<policy, assigned, position, committed>>
      /\ phase' = [phase EXCEPT ![s] = "closed"]
      /\ holding' = [holding EXCEPT ![s] = Nothing]
      /\ \/ UNCHANGED accepted
         \/ phase[s] = "sending" /\ accepted' = Accepted(s)
  BY DEF Close
<1>2. /\ accepted' \in [Partitions -> [Routes -> SUBSET Nat]]
      /\ \A p \in Partitions, r \in Routes : accepted[p][r] \subseteq accepted'[p][r]
  BY <1>1, PutAdds DEF GroupInv, Typed
<1>3. Typed'
  BY <1>1, <1>2 DEF GroupInv, Typed, Nothing
<1>4. ASSUME NEW u \in Subtasks PROVE HandSound(u)'
  <2>1. HandSound(u)
    BY DEF GroupInv
  <2>2. CASE u # s
    <3>1. phase'[u] = phase[u] /\ holding'[u] = holding[u]
      BY <1>1, <2>2 DEF GroupInv, Typed
    <3> QED
      BY <1>1, <1>2, <2>1, <3>1 DEF HandSound, Oldest, Before, Good, GroupInv, Typed
  <2>3. CASE u = s
    BY <1>1, <2>3 DEF HandSound, GroupInv, Typed
  <2> QED
    BY <2>2, <2>3
<1>5. ASSUME NEW p \in Partitions PROVE ReadSound(p)'
  <2>1. ReadSound(p)
    BY DEF GroupInv
  <2>2. \A u \in Subtasks : phase'[u] \in Running =>
          phase[u] \in Running /\ \A o : InHand(u, p, o) => InHand(u, p, o)'
    BY <1>1 DEF InHand, Running, GroupInv, Typed
  <2> QED
    BY <1>1, <2>1, <2>2 DEF ReadSound, Before, Start
<1>6. (\A p \in Partitions : QueuedSound(p)') /\ CommittedWasAccepted'
  <2>1. CASE UNCHANGED accepted
    BY <1>1, <2>1 DEF GroupInv, QueuedSound, CommittedWasAccepted, Oldest, Before
  <2>2. CASE phase[s] = "sending" /\ accepted' = Accepted(s)
    BY <1>1, <2>2, QueuesGrow
  <2> QED
    BY <1>1, <2>1, <2>2
<1> QED
  BY <1>3, <1>4, <1>5, <1>6 DEF GroupInv

\* A commit takes every position of the consumer: what it has read is accepted on all
\* routes, the record in hand included, so each of these positions is safe to resume at.
LEMMA InvCommit ==
  ASSUME NEW s \in Subtasks, GroupInv, Commit(s)
  PROVE  GroupInv'
<1>1. /\ UNCHANGED <<policy, assigned, position, accepted>> /\ phase[s] = "committing"
      /\ committed' = [p \in Partitions |-> IF assigned[p] = s THEN position[p] ELSE committed[p]]
      /\ phase' = [phase EXCEPT ![s] = "polling"]
      /\ holding' = [holding EXCEPT ![s] = Nothing]
  BY DEF Commit
<1>2. Typed'
  BY <1>1 DEF GroupInv, Typed, Nothing
<1>3. ASSUME NEW p \in Partitions, NEW o \in Good(p), InHand(s, p, o)
      PROVE  \A r \in Routes : o \in accepted[p][r]
  <2>1. PICK k \in 0..Last : holding[s].routes = 1..k /\ ~(k < Last)
    BY <1>1, <1>3 DEF GroupInv, HandSound, InHand
  <2>2. holding[s].routes = Routes
    BY <2>1, RoutesType
  <2> QED
    BY <1>1, <1>3, <2>2 DEF GroupInv, HandSound, InHand
<1>4. ASSUME NEW p \in Partitions, assigned[p] = s
      PROVE  /\ position[p] # None /\ position[p] \in Nat /\ Start(p) <= position[p]
             /\ \A o \in 1..Len(Log[p]) : o < position[p] =>
                  IF Log[p][o] THEN \A r \in Routes : o \in accepted[p][r]
                               ELSE policy = "skip"
  <2>1. ReadSound(p) /\ phase[s] \in Running /\ CommittedWasAccepted
    BY <1>1 DEF GroupInv, Running
  <2>2. position[p] \in (Nat \ {0}) \cup {None}
    BY DEF GroupInv, Typed
  <2>3. ASSUME NEW o \in 1..Len(Log[p]), o < position[p]
        PROVE  IF Log[p][o] THEN \A r \in Routes : o \in accepted[p][r]
                            ELSE policy = "skip"
    <3>1. CASE ~Log[p][o]
      BY <1>4, <2>1, <2>3, <3>1 DEF ReadSound
    <3>2. CASE Log[p][o]
      <4>1. o \in Good(p)
        BY <3>2 DEF Good
      <4>2. Before(p, o) \/ InHand(s, p, o)
        BY <1>4, <2>1, <2>3, <3>2 DEF ReadSound
      <4> QED
        BY <1>3, <2>1, <3>2, <4>1, <4>2 DEF CommittedWasAccepted
    <3> QED
      BY <3>1, <3>2
  <2> QED
    BY <1>4, <2>1, <2>2, <2>3 DEF ReadSound
<1>5. ASSUME NEW p \in Partitions, NEW o \in Nat, Before(p, o)
      PROVE  Before(p, o)'
  <2>1. committed[p] \in Nat /\ committed[p] # None /\ o < committed[p]
    BY <1>5 DEF Before, GroupInv, Typed
  <2>2. CASE assigned[p] = s
    <3>1. committed'[p] = position[p] /\ committed[p] <= position[p]
      BY <1>1, <1>4, <2>1, <2>2 DEF Start
    <3> QED
      BY <1>4, <2>1, <2>2, <3>1 DEF Before
  <2>3. CASE assigned[p] # s
    BY <1>1, <2>1, <2>3 DEF Before
  <2> QED
    BY <2>2, <2>3
<1>6. \A p \in Partitions : \A o \in Good(p) : Oldest(p, o) => Oldest(p, o)'
  BY <1>5, LogType DEF Oldest, Good
<1>7. ASSUME NEW u \in Subtasks PROVE HandSound(u)'
  <2>1. CASE u = s
    BY <1>1, <2>1 DEF HandSound, GroupInv, Typed
  <2>2. CASE u # s
    <3>1. phase'[u] = phase[u] /\ holding'[u] = holding[u] /\ HandSound(u)
      BY <1>1, <2>2 DEF GroupInv, Typed
    <3> QED
      BY <1>1, <1>6, <3>1 DEF HandSound, Good
  <2> QED
    BY <2>1, <2>2
<1>8. ASSUME NEW p \in Partitions PROVE ReadSound(p)'
  <2>1. CASE assigned[p] = s
    <3>1. committed'[p] = position[p] /\ Start(p)' = position[p]
      BY <1>1, <1>4, <2>1 DEF Start
    <3>2. \A o \in 1..Len(Log[p]) : o < position[p] => Before(p, o)'
      BY <1>4, <2>1, <3>1 DEF Before
    <3> QED
      BY <1>1, <1>4, <2>1, <3>1, <3>2 DEF ReadSound
  <2>2. CASE assigned[p] # s
    <3>1. committed'[p] = committed[p] /\ Start(p)' = Start(p) /\ ReadSound(p)
      BY <1>1, <2>2 DEF Start, GroupInv
    <3>2. assigned[p] \in Subtasks =>
            /\ phase'[assigned[p]] = phase[assigned[p]]
            /\ \A o : InHand(assigned[p], p, o) => InHand(assigned[p], p, o)'
      BY <1>1, <2>2 DEF InHand, GroupInv, Typed
    <3> QED
      BY <1>1, <3>1, <3>2 DEF ReadSound, Before
  <2> QED
    BY <2>1, <2>2
<1>9. \A p \in Partitions : QueuedSound(p)'
  BY <1>1, <1>6 DEF GroupInv, QueuedSound, Good
<1>10. CommittedWasAccepted'
  <2> SUFFICES ASSUME NEW p \in Partitions, NEW o \in 1..Len(Log[p]), Before(p, o)'
               PROVE  IF Log[p][o] THEN \A r \in Routes : o \in accepted[p][r]
                                   ELSE policy = "skip"
    BY <1>1 DEF CommittedWasAccepted
  <2>1. CASE assigned[p] = s
    BY <1>1, <1>4, <2>1 DEF Before
  <2>2. CASE assigned[p] # s
    BY <1>1, <2>2 DEF Before, GroupInv, CommittedWasAccepted
  <2> QED
    BY <2>1, <2>2
<1> QED
  BY <1>2, <1>7, <1>8, <1>9, <1>10 DEF GroupInv

-----------------------------------------------------------------------------
(* Theorems *)

\* The invariant holds in every state: each action of Next keeps it.
LEMMA InvHolds == Spec => []GroupInv
<1>1. GroupInv /\ [Next]_vars => GroupInv'
  <2> SUFFICES ASSUME GroupInv, [Next]_vars PROVE GroupInv'
    OBVIOUS
  <2>1. CASE Rebalance
    BY <2>1, InvRebalance
  <2>2. ASSUME NEW s \in Subtasks,
               Open(s) \/ OpenFails(s) \/ Poll(s) \/ PollBad(s) \/ Put(s) \/ Commit(s) \/ Close(s)
        PROVE  GroupInv'
    BY <2>2, InvOpen, InvOpenFails, InvPoll, InvPollBad, InvPut, InvCommit, InvClose
  <2>3. CASE UNCHANGED vars
    BY <2>3 DEF vars, GroupInv, Typed, HandSound, ReadSound, QueuedSound, Oldest, Before,
                InHand, Start, CommittedWasAccepted
  <2> QED
    BY <2>1, <2>2, <2>3 DEF Next
<1> QED
  BY <1>1, InvInit, PTL DEF Spec

\* No commit of any member, whatever partitions it is assigned by then, passes a record
\* that is not in the queue of every route.
THEOREM CommitsAreSafe == Spec => []CommittedWasAccepted
<1>1. GroupInv => CommittedWasAccepted
  BY DEF GroupInv
<1> QED
  BY <1>1, InvHolds, PTL

\* However often a partition changes hands, at most one record of it is sent again.
THEOREM ResendsBounded == Spec => []ResendsOneAtMost
<1>1. GroupInv => ResendsOneAtMost
  <2> SUFFICES ASSUME GroupInv, NEW p \in Partitions
               PROVE  Cardinality({o \in Good(p) : /\ ~Before(p, o)
                                                   /\ \E r \in Routes : o \in accepted[p][r]}) <= 1
    BY DEF ResendsOneAtMost
  <2> DEFINE again == {o \in Good(p) : ~Before(p, o) /\ \E r \in Routes : o \in accepted[p][r]}
  <2>1. \A x, y \in again : ~(x < y)
    BY DEF GroupInv, QueuedSound, Oldest
  <2>2. \A x \in again : x \in Nat
    BY LogType
  <2>3. \A x, y \in again : x = y
    BY <2>1, <2>2
  <2>4. CASE again = {}
    BY <2>4, FS_EmptySet
  <2>5. CASE again # {}
    <3>1. PICK x \in again : TRUE
      BY <2>5
    <3>2. again = {x}
      BY <2>3, <3>1
    <3>3. Cardinality(again) = 1
      BY <3>2, FS_Singleton
    <3> QED
      BY <3>3
  <2> QED
    BY <2>4, <2>5
<1> QED
  BY <1>1, InvHolds, PTL
=============================================================================
