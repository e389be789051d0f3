-------------------------- MODULE CiSessionProofs --------------------------
(***************************************************************************)
(* Theorems about CiSession, for any number of slots, any limit of sessions *)
(* per slot and any bounds: the table stays within its limits, the events   *)
(* tell it, a number is never taken for the session that had it before, and *)
(* host and module agree once nothing is on its way.                        *)
(***************************************************************************)
EXTENDS CiSession, FiniteSetTheorems, FunctionTheorems, WellFoundedInduction, TLAPS

Entries == Session \cup {None}
HostMessage == Open \cup Object \cup Close \cup Closed
ModuleMessage == Opened \cup Object \cup Close \cup Closed

(***************************************************************************)
(* Sequences: what the prover needs to know of the four operations.         *)
(***************************************************************************)
LEMMA HeadTailType ==
    ASSUME NEW S, NEW q \in Seq(S), q # << >>
    PROVE  Head(q) \in S /\ Tail(q) \in Seq(S)
OBVIOUS

LEMMA ConcatType ==
    ASSUME NEW S, NEW q \in Seq(S), NEW r \in Seq(S)
    PROVE  q \o r \in Seq(S)
OBVIOUS

(* A message the host reads is one the module sent, and what is left is a
   queue of such messages.                                                  *)
LEMMA ReadType ==
    ASSUME NEW s \in Slots, NEW tag, Read(s, tag),
           toHost \in [Slots -> Seq(HostMessage)]
    PROVE  /\ Arrived(s) \in HostMessage
           /\ Arrived(s).tag = tag
           /\ toHost' \in [Slots -> Seq(HostMessage)]
BY HeadTailType DEF Read, Arrived

LEMMA ToldType ==
    ASSUME NEW s \in Slots, NEW tag, ModuleReads(s, tag),
           toModule \in [Slots -> Seq(ModuleMessage)]
    PROVE  /\ Told(s) \in ModuleMessage
           /\ Told(s).tag = tag
           /\ toModule' \in [Slots -> Seq(ModuleMessage)]
BY HeadTailType DEF ModuleReads, Told

LEMMA WithoutType ==
    ASSUME NEW S, NEW q \in Seq(S), NEW i \in 1 .. Len(q)
    PROVE  Without(q, i) \in Seq(S)
<1> DEFINE k == Len(q) - 1
<1>1. k \in Nat /\ \A j \in 1 .. k : q[j] \in S /\ q[j + 1] \in S
  OBVIOUS
<1>2. [j \in 1 .. k |-> IF j < i THEN q[j] ELSE q[j + 1]] \in [1 .. k -> S]
  BY <1>1
<1>3. [j \in 1 .. k |-> IF j < i THEN q[j] ELSE q[j + 1]] \in Seq(S)
  BY <1>1, <1>2
<1> QED
  BY <1>3 DEF Without

LEMMA AnswersType ==
    ASSUME NEW s \in Slots, NEW q \in Seq(ModuleMessage), NEW r \in Seq(ModuleMessage),
           Answers(s, q, r), lost \in 0 .. MaxLost,
           toModule \in [Slots -> Seq(ModuleMessage)]
    PROVE  /\ toModule' \in [Slots -> Seq(ModuleMessage)]
           /\ lost' \in 0 .. MaxLost
<1> DEFINE all == q \o r
<1>1. all \in Seq(ModuleMessage)
  BY ConcatType
<1> HIDE DEF all
<1>2. CASE toModule' = [toModule EXCEPT ![s] = all] /\ UNCHANGED lost
  BY <1>1, <1>2
<1>3. CASE Swallows(s, all)
  <2>1. PICK i \in 1 .. Len(all) : toModule' = [toModule EXCEPT ![s] = Without(all, i)]
    BY <1>3 DEF Swallows
  <2>2. Without(all, i) \in Seq(ModuleMessage)
    BY <1>1, WithoutType
  <2>3. lost < MaxLost /\ lost' = lost + 1
    BY <1>3 DEF Swallows
  <2>4. lost' \in 0 .. MaxLost
    BY <2>3, SessionsAssumption
  <2> QED
    BY <2>1, <2>2, <2>4
<1> QED
  BY <1>2, <1>3 DEF Answers, all

LEMMA SendType ==
    ASSUME NEW s \in Slots, NEW spdu \in ModuleMessage, Send(s, spdu),
           toModule \in [Slots -> Seq(ModuleMessage)]
    PROVE  toModule' \in [Slots -> Seq(ModuleMessage)]
BY DEF Send

LEMMA AnswerType ==
    ASSUME NEW n \in Nat, NEW g \in Nat, NEW answer \in MayAnswer(n, g)
    PROVE  answer \in Seq(ModuleMessage)
<1> DEFINE spdu == Spdu("object", n, g, "Object")
<1>1. spdu \in ModuleMessage
  BY DEF Spdu, ModuleMessage, Object
<1>2. answer = << >> \/ answer = <<spdu>>
  BY DEF MayAnswer
<1> HIDE DEF spdu
<1>3. << >> \in Seq(ModuleMessage) /\ <<spdu>> \in Seq(ModuleMessage)
  BY <1>1
<1> QED
  BY <1>2, <1>3

LEMMA DeliverType ==
    ASSUME NEW s \in Slots, NEW spdu \in HostMessage, Deliver(s, spdu),
           toHost \in [Slots -> Seq(HostMessage)]
    PROVE  toHost' \in [Slots -> Seq(HostMessage)]
BY DEF Deliver

(***************************************************************************)
(* The table.                                                              *)
(***************************************************************************)

(* alloc_session takes a number that nobody has, in the table or next to it. *)
LEMMA NextIsVacant ==
    ASSUME sessions \in Seq(Entries)
    PROVE  /\ NextNumber \in 1 .. Len(sessions) + 1
           /\ NextNumber \notin Live
           /\ NextNumber = Len(sessions) + 1 => Vacant = {}
<1>1. CASE Vacant = {}
  BY <1>1 DEF NextNumber, Live
<1>2. CASE Vacant # {}
  <2>1. Vacant \subseteq Nat
    BY DEF Vacant
  <2>2. PICK n \in Vacant : \A m \in Vacant : ~ (<<m, n>> \in OpToRel(<, Nat))
    BY <1>2, <2>1, NatLessThanWellFounded, WFMin
  <2>3. ASSUME NEW m \in Vacant, m < n
         PROVE  <<m, n>> \in OpToRel(<, Nat)
    BY <2>1, <2>3, Zenon DEF OpToRel
  <2>4. n \in Vacant
    BY <2>2
  <2>5. ASSUME NEW m \in Vacant
         PROVE  ~ (m < n)
    BY <2>2, <2>3, Zenon
  <2>6. \A m \in Vacant : n <= m
    BY <2>1, <2>4, <2>5
  <2>7. NextNumber \in Vacant
    BY <1>2, <2>4, <2>6 DEF NextNumber
  <2> QED
    BY <2>7 DEF Vacant, Live
<1> QED
  BY <1>1, <1>2

(* If each slot has at most MaxSlotSessions of the numbers L, there are no
   more of them than all slots may have together.                           *)
LEMMA SlotsShareTheTable ==
    ASSUME NEW L, IsFiniteSet(L), NEW slotOf \in [L -> Slots],
           \A s \in Slots : Cardinality({n \in L : slotOf[n] = s}) <= MaxSlotSessions
    PROVE  Cardinality(L) <= Cardinality(Slots) * MaxSlotSessions
<1> DEFINE Of(s) == {n \in L : slotOf[n] = s}
           Ranks(s) == Injection(Of(s), 1 .. MaxSlotSessions)
           rank == [s \in Slots |-> CHOOSE f : f \in Ranks(s)]
           place == [n \in L |-> <<slotOf[n], rank[slotOf[n]][n]>>]
           Places == Slots \X (1 .. MaxSlotSessions)
<1>1. ASSUME NEW s \in Slots
      PROVE  Ranks(s) # {}
  <2> DEFINE k == Cardinality(Of(s))
  <2>1. IsFiniteSet(Of(s))
    BY FS_Subset
  <2>2. k \in Nat /\ k <= MaxSlotSessions /\ ExistsBijection(1 .. k, Of(s))
    BY <2>1, FS_CardinalityType
  <2>3. ExistsBijection(Of(s), 1 .. k)
    BY <2>2, Fun_ExistsBijSymmetric
  <2>4. PICK f : f \in Bijection(Of(s), 1 .. k)
    BY <2>3 DEF ExistsBijection
  <2>5. 1 .. k \subseteq 1 .. MaxSlotSessions
    BY <2>2, SessionsAssumption
  <2>6. f \in [Of(s) -> 1 .. MaxSlotSessions]
    BY <2>4, <2>5 DEF Bijection, Injection
  <2>7. f \in Ranks(s)
    BY <2>4, <2>6 DEF Bijection, Injection, IsInjective
  <2> QED
    BY <2>7
<1>2. ASSUME NEW s \in Slots
      PROVE  rank[s] \in Ranks(s)
  BY <1>1
<1>3. place \in Injection(L, Places)
  <2>1. ASSUME NEW n \in L
        PROVE  rank[slotOf[n]][n] \in 1 .. MaxSlotSessions
    BY <1>2 DEF Injection
  <2>2. place \in [L -> Places]
    BY <2>1
  <2>3. ASSUME NEW m \in L, NEW n \in L, place[m] = place[n]
        PROVE  m = n
    <3> DEFINE a == rank[slotOf[m]][m]
               b == rank[slotOf[n]][n]
    <3>1. place[m] = <<slotOf[m], a>> /\ place[n] = <<slotOf[n], b>>
      OBVIOUS
    <3> HIDE DEF a, b, place
    <3>2. <<slotOf[m], a>> = <<slotOf[n], b>>
      BY <2>3, <3>1
    <3>3. slotOf[m] = slotOf[n] /\ a = b
      BY <3>2
    <3>4. slotOf[m] = slotOf[n] /\ rank[slotOf[n]][m] = rank[slotOf[n]][n]
      BY <3>3 DEF a, b
    <3> QED
      BY <3>4, <1>2 DEF Injection, IsInjective
  <2> QED
    BY <2>2, <2>3 DEF Injection, IsInjective
<1>4. IsFiniteSet(Places) /\ Cardinality(Places) = Cardinality(Slots) * MaxSlotSessions
  <2>1. /\ IsFiniteSet(1 .. MaxSlotSessions)
        /\ Cardinality(1 .. MaxSlotSessions) = MaxSlotSessions
    BY FS_Interval, SessionsAssumption
  <2> QED
    BY <2>1, FS_Product, SessionsAssumption
<1> QED
  BY <1>3, <1>4, FS_Injection

(***************************************************************************)
(* Types, one lemma for each part of the state an action may change.       *)
(***************************************************************************)
HostType ==
    /\ sessions \in Seq(Entries)
    /\ fragments \subseteq [number : Nat, opening : Nat]
    /\ events \subseteq Nat

LEMMA SetStateType ==
    ASSUME HostType, NEW n \in Live, NEW state \in {"Active", "Closing"}, SetState(n, state)
    PROVE  /\ sessions' \in Seq(Entries)
           /\ DOMAIN sessions' = DOMAIN sessions
           /\ \A m \in DOMAIN sessions :
                 /\ sessions'[m] = None <=> sessions[m] = None
                 /\ sessions[m] # None => sessions'[m].slot = sessions[m].slot
<1>1. \A m \in DOMAIN sessions : sessions[m] \in Entries
  BY DEF HostType
<1>2. sessions[n] \in Session
  BY <1>1 DEF Live, Entries
<1>3. [sessions[n] EXCEPT !.state = state] \in Session
  BY <1>2 DEF Session
<1>4. [sessions[n] EXCEPT !.state = state].slot = sessions[n].slot
  BY <1>2 DEF Session
<1>5. sessions' = [sessions EXCEPT ![n] = [sessions[n] EXCEPT !.state = state]]
  BY DEF SetState
<1>6. n \in DOMAIN sessions /\ sessions[n] # None
  BY DEF Live
<1> HIDE DEF SetState
<1>7. sessions' \in Seq(Entries) /\ DOMAIN sessions' = DOMAIN sessions
  BY <1>3, <1>5, <1>6 DEF HostType, Entries
<1>8. \A m \in DOMAIN sessions : m # n => sessions'[m] = sessions[m]
  BY <1>5
<1>9. sessions'[n] = [sessions[n] EXCEPT !.state = state]
  BY <1>5, <1>6
<1>10. sessions'[n] # None
  BY <1>3, <1>9, SessionsAssumption
<1> QED
  BY <1>4, <1>6, <1>7, <1>8, <1>9, <1>10

LEMMA FreedType ==
    ASSUME HostType, NEW numbers, Freed(numbers)
    PROVE  /\ HostType'
           /\ DOMAIN sessions' = DOMAIN sessions
           /\ Len(sessions') = Len(sessions)
           /\ Live' = Live \ numbers
           /\ \A m \in Live' : sessions'[m] = sessions[m]
<1>1. sessions' = [n \in 1 .. Len(sessions) |-> IF n \in numbers THEN None ELSE sessions[n]]
  BY DEF Freed, HostType
<1>2. \A m \in 1 .. Len(sessions) : sessions[m] \in Entries
  BY DEF HostType
<1>3. sessions' \in Seq(Entries)
  <2>1. sessions' \in [1 .. Len(sessions) -> Entries]
    BY <1>1, <1>2 DEF Entries
  <2>2. Len(sessions) \in Nat
    BY DEF HostType
  <2> QED
    BY <2>1, <2>2
<1>4. DOMAIN sessions' = DOMAIN sessions /\ Len(sessions') = Len(sessions)
  BY <1>1, <1>3 DEF HostType
<1>5. fragments' \subseteq [number : Nat, opening : Nat] /\ events' \subseteq Nat
  BY DEF Freed, HostType
<1>6. Live' = Live \ numbers
  BY <1>1, <1>4 DEF Live, HostType
<1>7. \A m \in Live' : sessions'[m] = sessions[m]
  BY <1>1, <1>4, <1>6 DEF Live, HostType
<1> QED
  BY <1>3, <1>4, <1>5, <1>6, <1>7 DEF HostType

LEMMA GrantedType ==
    ASSUME HostType, NEW entry \in Session, sessions' = Allocated(NextNumber, entry)
    PROVE  /\ sessions' \in Seq(Entries)
           /\ NextNumber \in Nat
           /\ NextNumber \notin Live
           /\ Live' = Live \cup {NextNumber}
           /\ sessions'[NextNumber] = entry
           /\ \A m \in Live : sessions'[m] = sessions[m]
           /\ \/ Len(sessions') = Len(sessions)
              \/ Live' = 1 .. Len(sessions')
<1> DEFINE n == NextNumber
<1>1. /\ n \in 1 .. Len(sessions) + 1
      /\ n \notin Live
      /\ n = Len(sessions) + 1 => Vacant = {}
  BY NextIsVacant DEF HostType
<1>2. Len(sessions) \in Nat /\ DOMAIN sessions = 1 .. Len(sessions)
  BY DEF HostType
<1>3. sessions' = [m \in DOMAIN sessions \cup {n} |-> IF m = n THEN entry ELSE sessions[m]]
  BY DEF Allocated
<1> HIDE DEF n
<1>4. \A m \in 1 .. Len(sessions) : sessions[m] \in Entries
  BY DEF HostType
<1>5. entry \in Entries /\ entry # None
  BY SessionsAssumption DEF Entries
<1>8. sessions'[n] = entry /\ n \in Nat
  BY <1>1, <1>2, <1>3
<1>9. ASSUME NEW m \in Live
      PROVE  sessions'[m] = sessions[m]
  <2>1. m \in DOMAIN sessions /\ m # n
    BY <1>1 DEF Live
  <2> QED
    BY <1>3, <2>1
<1> DEFINE Grown ==
        /\ sessions' \in Seq(Entries)
        /\ Live' = Live \cup {n}
        /\ Len(sessions') = Len(sessions) \/ Live' = 1 .. Len(sessions')
<1>6. ASSUME n = Len(sessions) + 1
      PROVE  Grown
  <2>1. DOMAIN sessions' = 1 .. Len(sessions) + 1
    BY <1>2, <1>3, <1>6
  <2>2. sessions' \in [1 .. Len(sessions) + 1 -> Entries]
    BY <1>2, <1>3, <1>4, <1>5, <1>6
  <2>3. sessions' \in Seq(Entries) /\ Len(sessions') = Len(sessions) + 1
    BY <1>2, <2>2
  <2>4. Live = 1 .. Len(sessions)
    BY <1>1, <1>2, <1>6 DEF Vacant, Live
  <2>5. Live' = Live \cup {n}
    BY <1>2, <1>3, <1>5, <1>6, <2>1, <2>4 DEF Live
  <2>6. Live' = 1 .. Len(sessions')
    BY <1>2, <1>6, <2>3, <2>4, <2>5
  <2> QED
    BY <2>3, <2>5, <2>6
<1>7. ASSUME n \in 1 .. Len(sessions)
      PROVE  Grown
  <2>1. sessions' \in [1 .. Len(sessions) -> Entries]
    BY <1>2, <1>3, <1>4, <1>5, <1>7
  <2>2. sessions' \in Seq(Entries) /\ Len(sessions') = Len(sessions)
    BY <1>2, <2>1
  <2>3. Live' = Live \cup {n}
    BY <1>2, <1>3, <1>5, <1>7, <2>1 DEF Live
  <2> QED
    BY <2>2, <2>3
<1>10. Grown
  BY <1>1, <1>2, <1>6, <1>7
<1> QED
  BY <1>1, <1>8, <1>9, <1>10 DEF n

(***************************************************************************)
(* What holds of the table, its chains and its events in every state.       *)
(***************************************************************************)
ChainsOfLive == \A f \in fragments : f.number \in Live
Tidy ==
    /\ EventsTellTheTable
    /\ ChainsOfLive
    /\ SlotCap
    /\ TableBounded

LEMMA LiveIsFinite ==
    ASSUME HostType
    PROVE  /\ IsFiniteSet(Live)
           /\ \A s \in Slots : IsFiniteSet(InUse(s))
<1>1. Live \subseteq 1 .. Len(sessions) /\ Len(sessions) \in Nat
  BY DEF HostType, Live
<1>2. IsFiniteSet(1 .. Len(sessions))
  BY <1>1, FS_Interval
<1>3. IsFiniteSet(Live)
  BY <1>1, <1>2, FS_Subset
<1>4. \A s \in Slots : InUse(s) \subseteq Live
  BY DEF InUse
<1> QED
  BY <1>3, <1>4, FS_Subset

LEMMA KeptTidy ==
    ASSUME Tidy, UNCHANGED hostVars
    PROVE  Tidy'
BY DEF Tidy, hostVars, EventsTellTheTable, ChainsOfLive, SlotCap, TableBounded, InUse, Live

LEMMA ChainTidy ==
    ASSUME Tidy, UNCHANGED <<sessions, events>>, \A f \in fragments' : f.number \in Live
    PROVE  Tidy'
BY DEF Tidy, EventsTellTheTable, ChainsOfLive, SlotCap, TableBounded, InUse, Live

LEMMA SetStateTidy ==
    ASSUME HostType, Tidy, NEW n \in Live, NEW state \in {"Active", "Closing"},
           SetState(n, state), UNCHANGED <<fragments, events>>
    PROVE  Tidy'
<1>1. /\ sessions' \in Seq(Entries)
      /\ DOMAIN sessions' = DOMAIN sessions
      /\ \A m \in DOMAIN sessions :
            /\ sessions'[m] = None <=> sessions[m] = None
            /\ sessions[m] # None => sessions'[m].slot = sessions[m].slot
  BY SetStateType
<1>2. Live' = Live
  BY <1>1 DEF Live
<1>3. \A s \in Slots : InUse(s)' = InUse(s)
  BY <1>1, <1>2 DEF InUse, Live
<1>4. Len(sessions') = Len(sessions)
  BY <1>1 DEF HostType
<1>5. SlotCap'
  BY <1>3 DEF Tidy, SlotCap
<1> QED
  BY <1>2, <1>4, <1>5 DEF Tidy, EventsTellTheTable, ChainsOfLive, TableBounded

LEMMA FreedTidy ==
    ASSUME HostType, Tidy, NEW numbers, Freed(numbers)
    PROVE  Tidy'
<1>1. /\ Len(sessions') = Len(sessions)
      /\ Live' = Live \ numbers
      /\ \A m \in Live' : sessions'[m] = sessions[m]
  BY FreedType
<1>2. EventsTellTheTable' /\ ChainsOfLive'
  BY <1>1 DEF Tidy, EventsTellTheTable, ChainsOfLive, Freed
<1>3. SlotCap'
  <2>1. SUFFICES ASSUME NEW s \in Slots
                 PROVE  Cardinality(InUse(s)') <= MaxSlotSessions
    BY DEF SlotCap
  <2>2. InUse(s)' \subseteq InUse(s)
    BY <1>1 DEF InUse
  <2>3. IsFiniteSet(InUse(s)) /\ Cardinality(InUse(s)) \in Nat
    BY LiveIsFinite, FS_CardinalityType
  <2>4. IsFiniteSet(InUse(s)') /\ Cardinality(InUse(s)') <= Cardinality(InUse(s))
    BY <2>2, <2>3, FS_Subset
  <2>5. Cardinality(InUse(s)') \in Nat
    BY <2>4, FS_CardinalityType
  <2> QED
    BY <2>3, <2>4, <2>5, SessionsAssumption DEF Tidy, SlotCap
<1>4. TableBounded'
  BY <1>1 DEF Tidy, TableBounded
<1> QED
  BY <1>2, <1>3, <1>4 DEF Tidy

LEMMA GrantTidy ==
    ASSUME HostType, Tidy, NEW s \in Slots, NEW entry \in Session,
           entry.slot = s,
           Cardinality(InUse(s)) < MaxSlotSessions,
           sessions' = Allocated(NextNumber, entry),
           events' = events \cup {NextNumber},
           UNCHANGED fragments
    PROVE  Tidy'
<1> DEFINE n == NextNumber
<1>1. /\ sessions' \in Seq(Entries)
      /\ n \notin Live
      /\ Live' = Live \cup {n}
      /\ sessions'[n] = entry
      /\ \A m \in Live : sessions'[m] = sessions[m]
      /\ Len(sessions') = Len(sessions) \/ Live' = 1 .. Len(sessions')
  BY GrantedType
<1>2. EventsTellTheTable' /\ ChainsOfLive'
  BY <1>1 DEF Tidy, EventsTellTheTable, ChainsOfLive
<1> HIDE DEF n
<1>3. ASSUME NEW t \in Slots
      PROVE  InUse(t)' = IF t = s THEN InUse(t) \cup {n} ELSE InUse(t)
  BY <1>1 DEF InUse
<1>4. SlotCap'
  <2>1. SUFFICES ASSUME NEW t \in Slots
                 PROVE  Cardinality(InUse(t)') <= MaxSlotSessions
    BY DEF SlotCap
  <2>2. IsFiniteSet(InUse(t)) /\ Cardinality(InUse(t)) \in Nat
    BY LiveIsFinite, FS_CardinalityType
  <2>3. CASE t # s
    BY <1>3, <2>3 DEF Tidy, SlotCap
  <2>4. CASE t = s
    <3>1. n \notin InUse(s)
      BY <1>1 DEF InUse
    <3>2. Cardinality(InUse(s) \cup {n}) = Cardinality(InUse(s)) + 1
      BY <2>2, <2>4, <3>1, FS_AddElement
    <3> QED
      BY <1>3, <2>2, <2>4, <3>2, SessionsAssumption
  <2> QED
    BY <2>3, <2>4
<1>5. TableBounded'
  <2>1. CASE Len(sessions') = Len(sessions)
    BY <2>1 DEF Tidy, TableBounded
  <2>2. CASE Live' = 1 .. Len(sessions')
    <3> DEFINE L == Live'
               slotOf == [m \in L |-> sessions'[m].slot]
    <3>1. Len(sessions') \in Nat
      BY <1>1
    <3>2. IsFiniteSet(L) /\ Cardinality(L) = Len(sessions')
      <4>1. ASSUME NEW k \in Nat
            PROVE  IsFiniteSet(1 .. k) /\ Cardinality(1 .. k) = k
        BY FS_Interval
      <4> QED
        BY <2>2, <3>1, <4>1
    <3>3. \A m \in L : sessions'[m] \in Session
      BY <1>1 DEF Live, Entries
    <3>4. slotOf \in [L -> Slots]
      BY <3>3 DEF Session
    <3>5. \A t \in Slots : {m \in L : slotOf[m] = t} = InUse(t)'
      BY DEF InUse
    <3>6. \A t \in Slots : Cardinality({m \in L : slotOf[m] = t}) <= MaxSlotSessions
      BY <1>4, <3>5 DEF SlotCap
    <3> HIDE DEF L, slotOf
    <3>7. Cardinality(L) <= Cardinality(Slots) * MaxSlotSessions
      BY <3>2, <3>4, <3>6, SlotsShareTheTable
    <3> QED
      BY <3>2, <3>7 DEF TableBounded
  <2> QED
    BY <1>1, <2>1, <2>2
<1> QED
  BY <1>2, <1>4, <1>5 DEF Tidy

(***************************************************************************)
(* The inductive invariant.                                                *)
(***************************************************************************)
WireType ==
    /\ toHost \in [Slots -> Seq(HostMessage)]
    /\ toModule \in [Slots -> Seq(ModuleMessage)]
    /\ modules \in [Slots -> SUBSET Belief]
    /\ openings \in Nat
    /\ lost \in 0 .. MaxLost

LEMMA TypeParts == TypeOK <=> HostType /\ WireType
BY DEF TypeOK, HostType, WireType, Entries, HostMessage, ModuleMessage

Inv == HostType /\ WireType /\ Tidy

LEMMA InitInv == Init => Inv
<1> SUFFICES ASSUME Init
             PROVE  Inv
  OBVIOUS
<1>1. HostType /\ WireType
  BY SessionsAssumption DEF Init, HostType, WireType
<1>2. sessions = << >> /\ Live = {} /\ \A s \in Slots : InUse(s) = {}
  BY DEF Init, Live, InUse
<1>3. Cardinality(Slots) \in Nat
  BY SessionsAssumption, FS_CardinalityType
<1>4. SlotCap
  <2>1. Cardinality({}) = 0
    BY FS_EmptySet
  <2>2. \A s \in Slots : Cardinality(InUse(s)) = 0
    BY <1>2, <2>1
  <2> QED
    BY <2>2, SessionsAssumption DEF SlotCap
<1>5. 0 <= Cardinality(Slots) * MaxSlotSessions
  BY <1>3, SessionsAssumption
<1>6. TableBounded
  BY <1>2, <1>5 DEF TableBounded
<1>7. EventsTellTheTable /\ ChainsOfLive
  BY <1>2 DEF Init, EventsTellTheTable, ChainsOfLive
<1> QED
  BY <1>1, <1>4, <1>6, <1>7 DEF Inv, Tidy

LEMMA EntryOf ==
    ASSUME HostType, NEW s \in Slots, NEW n \in InUse(s)
    PROVE  /\ n \in Live
           /\ n \in Nat
           /\ sessions[n] \in Session
BY DEF HostType, InUse, Live, Entries

LEMMA HostTypeKept ==
    ASSUME HostType, UNCHANGED hostVars
    PROVE  HostType'
BY DEF HostType, hostVars

(* The host reads an SPDU.                                                 *)
LEMMA HandleInv ==
    ASSUME Inv, NEW s \in Slots, Handle(s)
    PROVE  Inv'
<1> USE DEF Inv
<1>1. CASE OpenGranted(s)
  <2> DEFINE r == Arrived(s).what
             n == NextNumber
             g == openings + 1
             entry == [slot |-> s, resource |-> r, state |-> "Active", opening |-> g]
  <2>1. /\ Arrived(s) \in HostMessage
        /\ Arrived(s).tag = "open"
        /\ toHost' \in [Slots -> Seq(HostMessage)]
    BY <1>1, ReadType DEF OpenGranted, WireType
  <2>2. r \in Resource \ {"Unknown"} /\ g \in Nat
    BY <1>1, <2>1 DEF OpenGranted, WireType, HostMessage, Open, Object, Close, Closed
  <2>3. entry \in Session /\ entry.slot = s
    BY <2>2 DEF Session
  <2>4. /\ sessions' = Allocated(NextNumber, entry)
        /\ events' = events \cup {NextNumber}
        /\ Cardinality(InUse(s)) < MaxSlotSessions
        /\ UNCHANGED <<fragments, modules>>
        /\ openings' = g
    BY <1>1 DEF OpenGranted
  <2>5. sessions' \in Seq(Entries) /\ n \in Nat
    BY <2>3, <2>4, GrantedType
  <2>6. HostType'
    BY <2>4, <2>5 DEF HostType
  <2>7. toModule' \in [Slots -> Seq(ModuleMessage)] /\ lost' \in 0 .. MaxLost
    <3> DEFINE m == Spdu("opened", n, g, "Ok")
    <3>1. PICK first \in Welcome(r, n, g) : Answers(s, Append(toModule[s], m), first)
      BY <1>1 DEF OpenGranted
    <3>2. m \in ModuleMessage
      BY <2>2, <2>5 DEF Spdu, ModuleMessage, Opened
    <3>3. first \in MayAnswer(n, g)
      BY <3>1 DEF Welcome, MayAnswer
    <3>4. first \in Seq(ModuleMessage)
      BY <2>2, <2>5, <3>3, AnswerType
    <3> HIDE DEF m
    <3>5. Append(toModule[s], m) \in Seq(ModuleMessage)
      BY <3>2 DEF WireType
    <3> QED
      BY <3>1, <3>4, <3>5, AnswersType DEF WireType
  <2>8. WireType'
    BY <2>1, <2>2, <2>4, <2>7 DEF WireType
  <2>9. Tidy'
    BY <2>3, <2>4, GrantTidy
  <2> QED
    BY <2>6, <2>8, <2>9
<1>2. CASE OpenRefused(s)
  <2>1. Spdu("opened", 0, 0, "Refused") \in ModuleMessage
    BY DEF Spdu, ModuleMessage, Opened
  <2>2. WireType'
    BY <1>2, <2>1, ReadType, SendType DEF OpenRefused, WireType
  <2> QED
    BY <1>2, <2>2, HostTypeKept, KeptTidy DEF OpenRefused
<1>3. CASE ObjectUnknown(s)
  <2>1. WireType'
    BY <1>3, ReadType DEF ObjectUnknown, WireType
  <2> QED
    BY <1>3, <2>1, HostTypeKept, KeptTidy DEF ObjectUnknown
<1>4. CASE ObjectAnswered(s)
  <2> DEFINE n == Arrived(s).number
             g == sessions[n].opening
  <2>1. /\ Read(s, "object")
        /\ n \in InUse(s)
        /\ UNCHANGED <<sessions, fragments, events, modules, openings>>
    BY <1>4 DEF ObjectAnswered, ObjectKnown
  <2>2. n \in Nat /\ g \in Nat
    BY <2>1, EntryOf DEF Session
  <2>3. PICK answer \in MayAnswer(n, g) : Answers(s, toModule[s], answer)
    BY <1>4 DEF ObjectAnswered
  <2>4. answer \in Seq(ModuleMessage)
    BY <2>2, <2>3, AnswerType
  <2>5. WireType'
    BY <2>1, <2>3, <2>4, ReadType, AnswersType DEF WireType
  <2> QED
    BY <2>1, <2>5, HostTypeKept, KeptTidy DEF hostVars
<1>5. CASE MmiMore(s)
  <2>1. /\ Read(s, "object")
        /\ Arrived(s).number \in InUse(s)
        /\ UNCHANGED <<sessions, events, toModule, modules, openings, lost>>
        /\ fragments' = fragments \cup
              {[number |-> Arrived(s).number, opening |-> Arrived(s).opening]}
    BY <1>5 DEF MmiMore, ObjectKnown
  <2>2. Arrived(s) \in HostMessage /\ Arrived(s).tag = "object"
    BY <2>1, ReadType DEF WireType
  <2>3. Arrived(s).number \in Nat /\ Arrived(s).opening \in Nat
    BY <2>2 DEF HostMessage, Open, Object, Close, Closed
  <2>4. HostType'
    BY <2>1, <2>3 DEF HostType
  <2>5. WireType'
    BY <2>1, ReadType DEF WireType
  <2>6. \A f \in fragments' : f.number \in Live
    BY <2>1, EntryOf DEF Tidy, ChainsOfLive
  <2> QED
    BY <2>1, <2>4, <2>5, <2>6, ChainTidy
<1>6. CASE MmiTaken(s)
  <2>1. /\ Read(s, "object")
        /\ UNCHANGED <<sessions, events, toModule, modules, openings, lost>>
        /\ fragments' \subseteq fragments
    BY <1>6 DEF MmiTaken, ObjectKnown
  <2>2. HostType'
    BY <2>1 DEF HostType
  <2>3. WireType'
    BY <2>1, ReadType DEF WireType
  <2>4. \A f \in fragments' : f.number \in Live
    BY <2>1 DEF Tidy, ChainsOfLive
  <2> QED
    BY <2>1, <2>2, <2>3, <2>4, ChainTidy
<1>7. CASE MmiClose(s)
  <2> DEFINE n == Arrived(s).number
  <2>1. /\ Read(s, "object")
        /\ n \in InUse(s)
        /\ UNCHANGED <<fragments, events, modules, openings, lost>>
    BY <1>7 DEF MmiClose, ObjectKnown
  <2>2. n \in Live /\ n \in Nat /\ sessions[n].opening \in Nat
    BY <2>1, EntryOf DEF Session
  <2>3. CASE sessions[n].state = "Active"
    <3>1. SetState(n, "Closing") /\ Send(s, Spdu("close", n, sessions[n].opening, "Ok"))
      BY <1>7, <2>3 DEF MmiClose
    <3>2. Spdu("close", n, sessions[n].opening, "Ok") \in ModuleMessage
      BY <2>2 DEF Spdu, ModuleMessage, Close
    <3>3. WireType'
      BY <2>1, <3>1, <3>2, ReadType, SendType DEF WireType
    <3>4. HostType'
      BY <2>1, <2>2, <3>1, SetStateType DEF HostType
    <3> QED
      BY <2>1, <2>2, <3>1, <3>3, <3>4, SetStateTidy
  <2>4. CASE sessions[n].state # "Active"
    <3>1. UNCHANGED <<sessions, toModule>>
      BY <1>7, <2>4 DEF MmiClose
    <3>2. WireType'
      BY <2>1, <3>1, ReadType DEF WireType
    <3> QED
      BY <2>1, <3>1, <3>2, HostTypeKept, KeptTidy DEF hostVars
  <2> QED
    BY <2>3, <2>4
<1>8. CASE CloseKnown(s)
  <2>1. Arrived(s) \in HostMessage /\ Arrived(s).tag = "close"
    BY <1>8, ReadType DEF CloseKnown, WireType
  <2>2. Spdu("closed", Arrived(s).number, Arrived(s).opening, "Ok") \in ModuleMessage
    BY <2>1 DEF Spdu, HostMessage, ModuleMessage, Open, Object, Close, Closed
  <2>3. WireType'
    BY <1>8, <2>2, ReadType, SendType DEF CloseKnown, WireType
  <2> QED
    BY <1>8, <2>3, FreedType, FreedTidy DEF CloseKnown
<1>9. CASE CloseUnknown(s)
  <2>1. Arrived(s) \in HostMessage /\ Arrived(s).tag = "close"
    BY <1>9, ReadType DEF CloseUnknown, WireType
  <2>2. Spdu("closed", Arrived(s).number, Arrived(s).opening, "NotAllocated") \in ModuleMessage
    BY <2>1 DEF Spdu, HostMessage, ModuleMessage, Open, Object, Close, Closed
  <2>3. WireType'
    BY <1>9, <2>2, ReadType, SendType DEF CloseUnknown, WireType
  <2> QED
    BY <1>9, <2>3, HostTypeKept, KeptTidy DEF CloseUnknown
<1>10. CASE CloseUnexpected(s)
  <2>1. WireType'
    BY <1>10, ReadType DEF CloseUnexpected, WireType
  <2> QED
    BY <1>10, <2>1, HostTypeKept, KeptTidy DEF CloseUnexpected
<1>11. CASE CloseComplete(s)
  <2>1. WireType'
    BY <1>11, ReadType DEF CloseComplete, WireType
  <2> QED
    BY <1>11, <2>1, FreedType, FreedTidy DEF CloseComplete
<1>12. CASE CloseDenied(s)
  <2>1. Arrived(s).number \in Live
    BY <1>12, EntryOf DEF CloseDenied, IsClosing
  <2>2. SetState(Arrived(s).number, "Active") /\ UNCHANGED <<fragments, events>>
    BY <1>12 DEF CloseDenied
  <2>3. HostType'
    BY <2>1, <2>2, SetStateType DEF HostType
  <2>4. WireType'
    BY <1>12, ReadType DEF CloseDenied, WireType
  <2> QED
    BY <2>1, <2>2, <2>3, <2>4, SetStateTidy
<1> QED
  BY <1>1, <1>2, <1>3, <1>4, <1>5, <1>6, <1>7, <1>8, <1>9, <1>10, <1>11, <1>12 DEF Handle

(* Slots are dropped.                                                      *)
LEMMA DroppedInv ==
    ASSUME Inv, NEW gone \in SUBSET Slots, Dropped(gone)
    PROVE  Inv'
<1>1. HostType' /\ Tidy'
  BY FreedType, FreedTidy DEF Dropped, Inv
<1>2. << >> \in Seq(HostMessage) /\ << >> \in Seq(ModuleMessage)
  OBVIOUS
<1>3. WireType'
  BY <1>2 DEF Dropped, Inv, WireType
<1> QED
  BY <1>1, <1>3 DEF Inv

(* Everything else leaves the table alone.                                 *)
LEMMA OutsideInv ==
    ASSUME Inv, NEW s \in Slots,
           \/ Command(s)
           \/ \E r \in Resource : AskOpen(s, r)
           \/ \E what \in {"More", "Object", "CloseMmi"} : SendObject(s, what)
           \/ AskClose(s)
           \/ Stray(s)
           \/ ModuleTakes(s)
           \/ Lose(s)
    PROVE  Inv'
<1>1. UNCHANGED hostVars
  BY DEF Command, AskOpen, SendObject, AskClose, Stray, Lose, ModuleTakes, TakesOpened,
         TakesClosed, TakesObject, AgreesToClose, DeniesClose, HasNothingToClose, ModuleReads
<1> SUFFICES WireType'
  BY <1>1, HostTypeKept, KeptTidy DEF Inv
<1> USE DEF Inv
<1>2. CASE Command(s)
  <2>1. PICK n \in InUse(s) : Send(s, Spdu("object", n, sessions[n].opening, "Object"))
    BY <1>2 DEF Command
  <2>2. n \in Nat /\ sessions[n].opening \in Nat
    BY <2>1, EntryOf DEF Session
  <2>3. Spdu("object", n, sessions[n].opening, "Object") \in ModuleMessage
    BY <2>2 DEF Spdu, ModuleMessage, Object
  <2> QED
    BY <1>2, <2>1, <2>3, SendType DEF Command, WireType
<1>3. ASSUME NEW r \in Resource, AskOpen(s, r)
      PROVE  WireType'
  <2>1. Spdu("open", 0, 0, r) \in HostMessage
    BY DEF Spdu, HostMessage, Open
  <2> QED
    BY <1>3, <2>1, DeliverType DEF AskOpen, WireType
<1>4. ASSUME NEW what \in {"More", "Object", "CloseMmi"}, SendObject(s, what)
      PROVE  WireType'
  <2>1. PICK e \in modules[s] : Deliver(s, Spdu("object", e.number, e.opening, what))
    BY <1>4 DEF SendObject
  <2>2. e \in Belief
    BY <2>1 DEF WireType
  <2>3. Spdu("object", e.number, e.opening, what) \in HostMessage
    BY <2>2 DEF Spdu, HostMessage, Object, Belief
  <2> QED
    BY <1>4, <2>1, <2>3, DeliverType DEF SendObject, WireType
<1>5. CASE AskClose(s)
  <2>1. PICK e \in modules[s] :
           /\ modules' = [modules EXCEPT ![s] = (@ \ {e}) \cup {[e EXCEPT !.closing = TRUE]}]
           /\ Deliver(s, Spdu("close", e.number, e.opening, "Ok"))
    BY <1>5 DEF AskClose
  <2>2. e \in Belief
    BY <2>1 DEF WireType
  <2>3. Spdu("close", e.number, e.opening, "Ok") \in HostMessage
    BY <2>2 DEF Spdu, HostMessage, Close, Belief
  <2>4. [e EXCEPT !.closing = TRUE] \in Belief
    BY <2>2 DEF Belief
  <2>5. modules' \in [Slots -> SUBSET Belief]
    BY <2>1, <2>4 DEF WireType
  <2> QED
    BY <1>5, <2>1, <2>3, <2>5, DeliverType DEF AskClose, WireType
<1>6. CASE ModuleTakes(s)
  <2> DEFINE Response(status) == Spdu("closed", Told(s).number, Told(s).opening, status)
  <2>1. ASSUME NEW tag, ModuleReads(s, tag)
        PROVE  /\ Told(s) \in ModuleMessage
               /\ Told(s).tag = tag
               /\ toModule' \in [Slots -> Seq(ModuleMessage)]
               /\ UNCHANGED <<openings, lost>>
    BY <2>1, ToldType DEF WireType, ModuleReads
  <2>2. ASSUME ModuleReads(s, "close"), NEW status \in {"Ok", "NotAllocated", "Denied"},
               Reply(s, status)
        PROVE  toHost' \in [Slots -> Seq(HostMessage)]
    <3>1. Response(status) \in HostMessage
      BY <2>1, <2>2 DEF Spdu, HostMessage, ModuleMessage, Opened, Object, Close, Closed
    <3> QED
      BY <2>2, <3>1, DeliverType DEF Reply, WireType
  <2>3. CASE TakesOpened(s)
    <3>1. ModuleReads(s, "opened") /\ UNCHANGED toHost
      BY <2>3 DEF TakesOpened
    <3>2. [number |-> Told(s).number, opening |-> Told(s).opening,
           closing |-> FALSE] \in Belief
      BY <2>1, <3>1 DEF Belief, ModuleMessage, Opened, Object, Close, Closed
    <3>3. modules' \in [Slots -> SUBSET Belief]
      BY <2>3, <3>2 DEF TakesOpened, WireType
    <3> QED
      BY <2>1, <3>1, <3>3 DEF WireType
  <2>4. CASE TakesClosed(s)
    <3>1. ModuleReads(s, "closed") /\ UNCHANGED toHost
      BY <2>4 DEF TakesClosed
    <3>2. modules' \in [Slots -> SUBSET Belief]
      BY <2>4 DEF TakesClosed, WireType
    <3> QED
      BY <2>1, <3>1, <3>2 DEF WireType
  <2>5. CASE TakesObject(s)
    BY <2>1, <2>5 DEF TakesObject, WireType
  <2>6. CASE AgreesToClose(s)
    <3>1. ModuleReads(s, "close") /\ Reply(s, "Ok")
      BY <2>6 DEF AgreesToClose
    <3>2. modules' \in [Slots -> SUBSET Belief]
      BY <2>6 DEF AgreesToClose, WireType
    <3> QED
      BY <2>1, <2>2, <3>1, <3>2 DEF WireType
  <2>7. CASE DeniesClose(s)
    <3>1. ModuleReads(s, "close") /\ Reply(s, "Denied") /\ UNCHANGED modules
      BY <2>7 DEF DeniesClose
    <3> QED
      BY <2>1, <2>2, <3>1 DEF WireType
  <2>8. CASE HasNothingToClose(s)
    <3>1. /\ ModuleReads(s, "close")
          /\ Reply(s, "NotAllocated") \/ UNCHANGED toHost
          /\ UNCHANGED modules
      BY <2>8 DEF HasNothingToClose
    <3> QED
      BY <2>1, <2>2, <3>1 DEF WireType
  <2> QED
    BY <1>6, <2>3, <2>4, <2>5, <2>6, <2>7, <2>8 DEF ModuleTakes
<1>7. CASE Lose(s)
  <2>1. Tail(toHost[s]) \in Seq(HostMessage)
    BY <1>7, HeadTailType DEF Lose, WireType
  <2> QED
    BY <1>7, <2>1, SessionsAssumption DEF Lose, WireType
<1>8. CASE Stray(s)
  <2>1. PICK spdu \in NoSession : Deliver(s, spdu)
    BY <1>8 DEF Stray
  <2>2. spdu \in HostMessage
    BY <2>1 DEF NoSession, Spdu, HostMessage, Object, Close
  <2> QED
    BY <1>8, <2>1, <2>2, DeliverType DEF Stray, WireType
<1> QED
  BY <1>2, <1>3, <1>4, <1>5, <1>6, <1>7, <1>8

LEMMA StepInv == Inv /\ [Next]_vars => Inv'
<1> SUFFICES ASSUME Inv, [Next]_vars
             PROVE  Inv'
  OBVIOUS
<1>1. CASE RecoverAll
  BY <1>1, DroppedInv DEF RecoverAll
<1>2. ASSUME NEW s \in Slots, Handle(s)
      PROVE  Inv'
  BY <1>2, HandleInv
<1>3. ASSUME NEW s \in Slots, DropSlot(s)
      PROVE  Inv'
  <2>1. {s} \in SUBSET Slots
    OBVIOUS
  <2> QED
    BY <1>3, <2>1, DroppedInv DEF DropSlot
<1>4. ASSUME NEW s \in Slots,
             \/ Command(s)
             \/ \E r \in Resource : AskOpen(s, r)
             \/ \E what \in {"More", "Object", "CloseMmi"} : SendObject(s, what)
             \/ AskClose(s)
             \/ Stray(s)
             \/ ModuleTakes(s)
             \/ Lose(s)
      PROVE  Inv'
  BY <1>4, OutsideInv
<1>5. CASE UNCHANGED vars
  BY <1>5, HostTypeKept, KeptTidy DEF Inv, WireType, vars, hostVars
<1> QED
  BY <1>1, <1>2, <1>3, <1>4, <1>5 DEF Next

LEMMA Invariant == Spec => []Inv
<1> QED
  BY InitInv, StepInv, PTL DEF Spec

(* The session layer is type correct: sessions, chains, events and every
   SPDU in flight, for any number of slots and sessions.                    *)
THEOREM SessionTypes == Spec => []TypeOK
<1>1. Inv => TypeOK
  BY TypeParts DEF Inv
<1> QED
  BY <1>1, Invariant, PTL

(* alloc_session and free_session keep the table within the limits of all
   slots together: numbers are used again, and no module exhausts them.     *)
THEOREM TableStaysBounded == Spec => []TableShared
<1>1. Inv => TableShared
  BY DEF Inv, Tidy, TableShared
<1> QED
  BY <1>1, Invariant, PTL

(* The events SessionOpened and SessionClosed tell an application exactly
   which sessions exist, whatever is opened, closed, refused or dropped.    *)
THEOREM EventsAreTrue == Spec => []EventsTellTheTable
<1>1. Inv => EventsTellTheTable
  BY DEF Inv, Tidy
<1> QED
  BY <1>1, Invariant, PTL

(***************************************************************************)
(* The two channels of one slot.  H is what is on its way to the host, M to *)
(* the module, B what the module believes, and E the entries of the table   *)
(* that belong to the slot, under their numbers.                            *)
(***************************************************************************)
Grants(m) == m.tag = "opened" /\ m.what = "Ok"
Joined(B, n) == \E e \in B : e.number = n /\ ~e.closing

(* A message that ends the opening g of number n when the host reads it.    *)
Ends(m, n, g) ==
    /\ m.number = n
    /\ \/ m.tag = "close"
       \/ m.tag = "closed" /\ m.what # "Denied" /\ m.opening = g

(* A close request or response about the session that has the number now.   *)
Current(m, tag, E) ==
    m.tag = tag /\ m.number \in DOMAIN E /\ E[m.number].opening = m.opening

(* A session the module has not heard of yet: the host is not closing it,
   nothing was said on it, and what is left on the way to the host is at
   most a late response about a session that had the number before.         *)
Announced(H, M, B, E) ==
    \A i \in 1 .. Len(M) : Grants(M[i]) =>
        /\ M[i].number \in DOMAIN E
        /\ E[M[i].number].opening = M[i].opening
        /\ E[M[i].number].state = "Active"
        /\ ~Joined(B, M[i].number)
        /\ \A j \in 1 .. Len(M) :
              Grants(M[j]) /\ M[j].number = M[i].number => j = i
        /\ \A k \in 1 .. Len(H) : H[k].number = M[i].number =>
              H[k].tag = "closed" /\ H[k].opening # M[i].opening

(* What the module works with exists, and nothing on its way ends it.       *)
Joins(H, B, E) ==
    \A e \in B : ~e.closing =>
        /\ e.number \in DOMAIN E
        /\ E[e.number].opening = e.opening
        /\ \A k \in 1 .. Len(H) : ~Ends(H[k], e.number, e.opening)

(* What the module said of a session is read while the session exists: what
   ends it comes after, and so does every response about an earlier one not. *)
Working(H, E) ==
    \A i \in 1 .. Len(H) : H[i].tag \in {"object", "close"} /\ H[i].number # 0 =>
        /\ H[i].number \in DOMAIN E
        /\ E[H[i].number].opening = H[i].opening
        /\ \A k \in 1 .. Len(H) : k < i => ~Ends(H[k], H[i].number, H[i].opening)
        /\ \A k \in 1 .. Len(H) :
              i < k /\ H[k].tag = "closed" /\ H[k].number = H[i].number =>
                  H[k].opening = H[i].opening

(* Responses about the session that has the number now find it closing.     *)
Responding(H, E) ==
    \A i \in 1 .. Len(H) : H[i].tag = "closed" /\ H[i].number \in DOMAIN E =>
        (E[H[i].number].opening = H[i].opening <=> E[H[i].number].state = "Closing")

(* A session nothing was said on yet: its announcement is still on its way, or
   was dropped, and then the module never hears of it.                      *)
Unheard(H, B, E, n) ==
    /\ E[n].state = "Active"
    /\ ~Joined(B, n)
    /\ \A k \in 1 .. Len(H) : H[k].number = n =>
          H[k].tag = "closed" /\ H[k].opening # E[n].opening

(* What the host said of an earlier session is read before the module hears
   of the one that has the number now, if it ever does.                     *)
Earlier(i, H, M, B, E) ==
    /\ M[i].opening # E[M[i].number].opening
    /\ Unheard(H, B, E, M[i].number)
    /\ \A j \in 1 .. Len(M) : Grants(M[j]) /\ M[j].number = M[i].number => i < j

Present(m, E) ==
    /\ m.opening = E[m.number].opening
    /\ m.tag = "close" => E[m.number].state = "Closing"

Requested(H, M, B, E) ==
    \A i \in 1 .. Len(M) :
        M[i].tag \in {"object", "close"} /\ M[i].number \in DOMAIN E =>
            Present(M[i], E) \/ Earlier(i, H, M, B, E)

(* One close request at a time, with its response.                          *)
OneRequest(H, M, E) ==
    /\ \A i, j \in 1 .. Len(M) :
          Current(M[i], "close", E) /\ Current(M[j], "close", E)
            /\ M[i].number = M[j].number => i = j
    /\ \A i, j \in 1 .. Len(H) :
          Current(H[i], "closed", E) /\ Current(H[j], "closed", E)
            /\ H[i].number = H[j].number => i = j
    /\ \A i \in 1 .. Len(M), j \in 1 .. Len(H) :
          ~(Current(M[i], "close", E) /\ Current(H[j], "closed", E)
            /\ M[i].number = H[j].number)

(* While nothing is lost: a session is announced, joined, or about to end; a
   close the host asked for is on its way, answered, or overtaken; and a close
   the module asked for is on its way or answered.                          *)
Known(H, M, B, E) ==
    \A n \in DOMAIN E :
        \/ \E i \in 1 .. Len(M) : Grants(M[i]) /\ M[i].number = n
        \/ Joined(B, n)
        \/ \E k \in 1 .. Len(H) : Ends(H[k], n, E[n].opening)
Answering(H, M, E) ==
    \A n \in DOMAIN E : E[n].state = "Closing" =>
        \/ \E i \in 1 .. Len(M) : Current(M[i], "close", E) /\ M[i].number = n
        \/ \E k \in 1 .. Len(H) : Current(H[k], "closed", E) /\ H[k].number = n
        \/ \E k \in 1 .. Len(H) : H[k].tag = "close" /\ H[k].number = n
Leaving(H, M, B) ==
    \A e \in B : e.closing =>
        \/ \E k \in 1 .. Len(H) : H[k].tag = "close" /\ H[k].number = e.number
        \/ \E i \in 1 .. Len(M) : M[i].tag = "closed" /\ M[i].number = e.number

Safe(H, M, B, E) ==
    /\ Announced(H, M, B, E)
    /\ Joins(H, B, E)
    /\ Working(H, E)
    /\ Responding(H, E)
    /\ Requested(H, M, B, E)
    /\ OneRequest(H, M, E)

Whole(H, M, B, E) == Known(H, M, B, E) /\ Answering(H, M, E) /\ Leaving(H, M, B)

(* Positions before and after a read, and after a write.                    *)
LEMMA PopFacts ==
    ASSUME NEW S, NEW q \in Seq(S), q # << >>
    PROVE  /\ 1 \in 1 .. Len(q) /\ q[1] = Head(q)
           /\ \A i \in 1 .. Len(Tail(q)) :
                 i + 1 \in 1 .. Len(q) /\ i + 1 # 1 /\ Tail(q)[i] = q[i + 1]
           /\ \A i \in 1 .. Len(q) : i # 1 =>
                 i - 1 \in 1 .. Len(Tail(q)) /\ Tail(q)[i - 1] = q[i]
           /\ \A i, j \in 1 .. Len(Tail(q)) :
                 /\ i < j <=> i + 1 < j + 1
                 /\ i = j <=> i + 1 = j + 1
           /\ \A i, j \in 1 .. Len(q) : i # 1 /\ j # 1 => (i < j <=> i - 1 < j - 1)
           /\ \A i \in 1 .. Len(q) : i # 1 => 1 < i
<1>1. Len(q) \in Nat \ {0} /\ Len(Tail(q)) = Len(q) - 1
  OBVIOUS
<1>2. q[1] = Head(q) /\ \A i \in 1 .. Len(Tail(q)) : Tail(q)[i] = q[i + 1]
  OBVIOUS
<1> DEFINE r == Tail(q)
<1> HIDE DEF r
<1>3. \A i \in 1 .. Len(q) : i # 1 => i - 1 \in 1 .. Len(r) /\ (i - 1) + 1 = i
  BY <1>1 DEF r
<1>4. \A i \in 1 .. Len(q) : i # 1 => r[i - 1] = q[i]
  BY <1>2, <1>3 DEF r
<1>5. \A i \in 1 .. Len(r) : i + 1 \in 1 .. Len(q) /\ i + 1 # 1
  BY <1>1 DEF r
<1>6. \A i, j \in 1 .. Len(r) : (i < j <=> i + 1 < j + 1) /\ (i = j <=> i + 1 = j + 1)
  OBVIOUS
<1>7. \A i, j \in 1 .. Len(q) : /\ i # 1 /\ j # 1 => (i < j <=> i - 1 < j - 1)
                                /\ i # 1 => 1 < i
  OBVIOUS
<1>8. 1 \in 1 .. Len(q)
  BY <1>1
<1> QED
  BY <1>2, <1>3, <1>4, <1>5, <1>6, <1>7, <1>8 DEF r

LEMMA PushFacts ==
    ASSUME NEW S, NEW q \in Seq(S), NEW m
    PROVE  /\ \A i \in 1 .. Len(q) :
                 /\ i \in 1 .. Len(Append(q, m))
                 /\ Append(q, m)[i] = q[i]
                 /\ i # Len(q) + 1 /\ i < Len(q) + 1 /\ ~(Len(q) + 1 < i)
           /\ Len(q) + 1 \in 1 .. Len(Append(q, m))
           /\ Append(q, m)[Len(q) + 1] = m
           /\ \A i \in 1 .. Len(Append(q, m)) : i \in 1 .. Len(q) \/ i = Len(q) + 1
           /\ ~(Len(q) + 1 < Len(q) + 1)
<1>1. /\ Len(q) \in Nat /\ Len(Append(q, m)) = Len(q) + 1
      /\ \A i \in 1 .. Len(q) : Append(q, m)[i] = q[i]
      /\ Append(q, m)[Len(q) + 1] = m
  OBVIOUS
<1> DEFINE r == Append(q, m)
           k == Len(q) + 1
<1>2. k \in 1 .. Len(r) /\ ~(k < k)
  BY <1>1
<1>3. \A i \in 1 .. Len(q) : i \in 1 .. Len(r) /\ i # k /\ i < k /\ ~(k < i)
  BY <1>1
<1>4. \A i \in 1 .. Len(r) : i \in 1 .. Len(q) \/ i = k
  BY <1>1
<1> QED
  BY <1>1, <1>2, <1>3, <1>4

(* The host reads, or loses, a message: what is left is safe,              *)
LEMMA PopHostSafe ==
    ASSUME NEW S, NEW H \in Seq(S), H # << >>, NEW M, NEW B, NEW E,
           Safe(H, M, B, E)
    PROVE  Safe(Tail(H), M, B, E)
<1> DEFINE R == Tail(H)
<1>1. /\ 1 \in 1 .. Len(H)
      /\ \A i \in 1 .. Len(R) : i + 1 \in 1 .. Len(H) /\ i + 1 # 1 /\ R[i] = H[i + 1]
      /\ \A i \in 1 .. Len(H) : i # 1 => i - 1 \in 1 .. Len(R) /\ R[i - 1] = H[i]
      /\ \A i, j \in 1 .. Len(R) : (i < j <=> i + 1 < j + 1) /\ (i = j <=> i + 1 = j + 1)
  BY PopFacts
<1> HIDE DEF R
<1>2. Announced(R, M, B, E)
  <2> SUFFICES ASSUME NEW i \in 1 .. Len(M), Grants(M[i]), NEW k \in 1 .. Len(R),
                      R[k].number = M[i].number
               PROVE  R[k].tag = "closed" /\ R[k].opening # M[i].opening
    BY DEF Safe, Announced
  <2>1. k + 1 \in 1 .. Len(H) /\ R[k] = H[k + 1]
    BY <1>1
  <2> QED
    BY <2>1 DEF Safe, Announced
<1>3. Joins(R, B, E)
  BY <1>1 DEF Safe, Joins
<1>4. Working(R, E)
  <2> SUFFICES ASSUME NEW i \in 1 .. Len(R), R[i].tag \in {"object", "close"},
                      R[i].number # 0
               PROVE  /\ R[i].number \in DOMAIN E
                      /\ E[R[i].number].opening = R[i].opening
                      /\ \A k \in 1 .. Len(R) : k < i =>
                            ~Ends(R[k], R[i].number, R[i].opening)
                      /\ \A k \in 1 .. Len(R) :
                            i < k /\ R[k].tag = "closed" /\ R[k].number = R[i].number
                              => R[k].opening = R[i].opening
    BY DEF Working
  <2>1. i + 1 \in 1 .. Len(H) /\ R[i] = H[i + 1]
    BY <1>1
  <2>2. /\ H[i + 1].number \in DOMAIN E
        /\ E[H[i + 1].number].opening = H[i + 1].opening
        /\ \A k \in 1 .. Len(H) : k < i + 1 =>
              ~Ends(H[k], H[i + 1].number, H[i + 1].opening)
        /\ \A k \in 1 .. Len(H) :
              i + 1 < k /\ H[k].tag = "closed" /\ H[k].number = H[i + 1].number
                => H[k].opening = H[i + 1].opening
    BY <2>1 DEF Safe, Working
  <2>3. \A k \in 1 .. Len(R) : /\ k + 1 \in 1 .. Len(H) /\ R[k] = H[k + 1]
                               /\ k < i <=> k + 1 < i + 1
                               /\ i < k <=> i + 1 < k + 1
    BY <1>1
  <2> QED
    BY <2>1, <2>2, <2>3
<1>5. Responding(R, E)
  <2> SUFFICES ASSUME NEW i \in 1 .. Len(R), R[i].tag = "closed",
                      R[i].number \in DOMAIN E
               PROVE  E[R[i].number].opening = R[i].opening
                        <=> E[R[i].number].state = "Closing"
    BY DEF Responding
  <2>1. i + 1 \in 1 .. Len(H) /\ R[i] = H[i + 1]
    BY <1>1
  <2> QED
    BY <2>1 DEF Safe, Responding
<1>6. OneRequest(R, M, E)
  <2>1. /\ \A i, j \in 1 .. Len(M) :
              Current(M[i], "close", E) /\ Current(M[j], "close", E)
                /\ M[i].number = M[j].number => i = j
        /\ \A i, j \in 1 .. Len(H) :
              Current(H[i], "closed", E) /\ Current(H[j], "closed", E)
                /\ H[i].number = H[j].number => i = j
        /\ \A i \in 1 .. Len(M), j \in 1 .. Len(H) :
              ~(Current(M[i], "close", E) /\ Current(H[j], "closed", E)
                /\ M[i].number = H[j].number)
    BY DEF Safe, OneRequest
  <2>2. ASSUME NEW i \in 1 .. Len(R), NEW j \in 1 .. Len(R),
               Current(R[i], "closed", E), Current(R[j], "closed", E),
               R[i].number = R[j].number
        PROVE  i = j
    <3>1. i + 1 \in 1 .. Len(H) /\ j + 1 \in 1 .. Len(H) /\ R[i] = H[i + 1] /\ R[j] = H[j + 1]
      BY <1>1
    <3>2. i + 1 = j + 1
      BY <3>1, <2>1, <2>2
    <3> QED
      BY <3>2
  <2>3. \A i \in 1 .. Len(M), j \in 1 .. Len(R) :
           ~(Current(M[i], "close", E) /\ Current(R[j], "closed", E)
             /\ M[i].number = R[j].number)
    BY <2>1, <1>1
  <2> QED
    BY <2>1, <2>2, <2>3 DEF OneRequest
<1>7. Requested(R, M, B, E)
  <2>1. \A n : Unheard(H, B, E, n) => Unheard(R, B, E, n)
    BY <1>1 DEF Unheard
  <2> QED
    BY <2>1 DEF Safe, Requested, Earlier
<1> QED
  BY <1>2, <1>3, <1>4, <1>5, <1>6, <1>7 DEF Safe, R

(* ... and whole, if the session that the message ended is gone, and the close
   it denied is given up.                                                   *)
LEMMA PopHostWhole ==
    ASSUME NEW S, NEW H \in Seq(S), H # << >>, NEW M, NEW B, NEW E, NEW F,
           Whole(H, M, B, E),
           \A n \in DOMAIN F :
              /\ n \in DOMAIN E
              /\ F[n].opening = E[n].opening
              /\ F[n].state = "Closing" => E[n].state = "Closing"
              /\ ~Ends(Head(H), n, F[n].opening)
              /\ F[n].state = "Closing" =>
                    ~(Current(Head(H), "closed", F) /\ Head(H).number = n),
           Head(H).tag = "close" =>
              \E i \in 1 .. Len(M) :
                 M[i].tag = "closed" /\ M[i].number = Head(H).number
    PROVE  Whole(Tail(H), M, B, F)
<1> DEFINE h == Head(H)
           R == Tail(H)
<1>1. /\ H[1] = h
      /\ \A i \in 1 .. Len(H) : i # 1 => i - 1 \in 1 .. Len(R) /\ R[i - 1] = H[i]
  BY PopFacts
<1>2. \A n \in DOMAIN F :
         /\ n \in DOMAIN E
         /\ F[n].opening = E[n].opening
         /\ F[n].state = "Closing" => E[n].state = "Closing"
         /\ ~Ends(h, n, F[n].opening)
         /\ F[n].state = "Closing" => ~(Current(h, "closed", F) /\ h.number = n)
  OBVIOUS
<1> HIDE DEF h, R
<1>3. Known(R, M, B, F)
  <2> SUFFICES ASSUME NEW n \in DOMAIN F, NEW k \in 1 .. Len(H),
                      Ends(H[k], n, F[n].opening)
               PROVE  \E i \in 1 .. Len(R) : Ends(R[i], n, F[n].opening)
    BY <1>2 DEF Whole, Known
  <2>1. k # 1
    BY <1>1, <1>2
  <2> QED
    BY <2>1, <1>1
<1>4. Answering(R, M, F)
  <2> SUFFICES ASSUME NEW n \in DOMAIN F, F[n].state = "Closing"
               PROVE  \/ \E i \in 1 .. Len(M) : Current(M[i], "close", F) /\ M[i].number = n
                      \/ \E i \in 1 .. Len(R) : Current(R[i], "closed", F) /\ R[i].number = n
                      \/ \E i \in 1 .. Len(R) : R[i].tag = "close" /\ R[i].number = n
    BY DEF Answering
  <2>1. \A m, tag : Current(m, tag, E) /\ m.number = n => Current(m, tag, F)
    BY <1>2 DEF Current
  <2>2. \/ \E i \in 1 .. Len(M) : Current(M[i], "close", E) /\ M[i].number = n
        \/ \E k \in 1 .. Len(H) : Current(H[k], "closed", E) /\ H[k].number = n
        \/ \E k \in 1 .. Len(H) : H[k].tag = "close" /\ H[k].number = n
    BY <1>2 DEF Whole, Answering
  <2>3. ASSUME NEW k \in 1 .. Len(H), Current(H[k], "closed", E) /\ H[k].number = n
        PROVE  \E i \in 1 .. Len(R) : Current(R[i], "closed", F) /\ R[i].number = n
    <3>1. Current(H[k], "closed", F)
      BY <2>1, <2>3
    <3>2. k # 1
      BY <3>1, <2>3, <1>1, <1>2
    <3> QED
      BY <3>1, <3>2, <2>3, <1>1
  <2>4. ASSUME NEW k \in 1 .. Len(H), H[k].tag = "close" /\ H[k].number = n
        PROVE  \E i \in 1 .. Len(R) : R[i].tag = "close" /\ R[i].number = n
    <3>1. k # 1
      BY <2>4, <1>1, <1>2 DEF Ends
    <3> QED
      BY <3>1, <2>4, <1>1
  <2> QED
    BY <2>1, <2>2, <2>3, <2>4
<1>5. Leaving(R, M, B)
  <2> SUFFICES ASSUME NEW e \in B, e.closing, NEW k \in 1 .. Len(H),
                      H[k].tag = "close", H[k].number = e.number
               PROVE  \/ \E i \in 1 .. Len(R) : R[i].tag = "close" /\ R[i].number = e.number
                      \/ \E i \in 1 .. Len(M) : M[i].tag = "closed" /\ M[i].number = e.number
    BY DEF Whole, Leaving
  <2>1. CASE k = 1
    BY <2>1, <1>1 DEF h
  <2>2. CASE k # 1
    BY <2>2, <1>1
  <2> QED
    BY <2>1, <2>2
<1> QED
  BY <1>3, <1>4, <1>5 DEF Whole, R

(* A message of which a new or closing session does not speak yet is pushed. *)
LEMMA PushWhole ==
    ASSUME NEW S, NEW H \in Seq(S), NEW T, NEW M \in Seq(T), NEW B, NEW E,
           Whole(H, M, B, E)
    PROVE  /\ \A m : Whole(Append(H, m), M, B, E)
           /\ \A m : Whole(H, Append(M, m), B, E)
<1>1. ASSUME NEW m
      PROVE  Whole(Append(H, m), M, B, E)
  <2> DEFINE R == Append(H, m)
  <2>1. \A i \in 1 .. Len(H) : i \in 1 .. Len(R) /\ R[i] = H[i]
    BY PushFacts
  <2> HIDE DEF R
  <2>2. Known(R, M, B, E)
    BY <2>1 DEF Whole, Known
  <2>3. Answering(R, M, E)
    BY <2>1 DEF Whole, Answering
  <2>4. Leaving(R, M, B)
    BY <2>1 DEF Whole, Leaving
  <2> QED
    BY <2>2, <2>3, <2>4 DEF Whole, R
<1>2. ASSUME NEW m
      PROVE  Whole(H, Append(M, m), B, E)
  <2> DEFINE R == Append(M, m)
  <2>1. \A i \in 1 .. Len(M) : i \in 1 .. Len(R) /\ R[i] = M[i]
    BY PushFacts
  <2> HIDE DEF R
  <2>2. Known(H, R, B, E)
    BY <2>1 DEF Whole, Known
  <2>3. Answering(H, R, E)
    BY <2>1 DEF Whole, Answering
  <2>4. Leaving(H, R, B)
    BY <2>1 DEF Whole, Leaving
  <2> QED
    BY <2>2, <2>3, <2>4 DEF Whole, R
<1> QED
  BY <1>1, <1>2

(* The host sends an object on a session it has, a refusal, a response, or the
   only close request of a session that is closing.                         *)
LEMMA PushModuleSafe ==
    ASSUME NEW S, NEW M \in Seq(S), NEW H, NEW B, NEW E, NEW m,
           Safe(H, M, B, E),
           ~Grants(m),
           m.tag \in {"object", "close"} =>
              m.number \in DOMAIN E /\ m.opening = E[m.number].opening,
           m.tag = "close" =>
              /\ E[m.number].state = "Closing"
              /\ \A i \in 1 .. Len(M) :
                    ~(Current(M[i], "close", E) /\ M[i].number = m.number)
              /\ \A i \in 1 .. Len(H) :
                    ~(Current(H[i], "closed", E) /\ H[i].number = m.number)
    PROVE  Safe(H, Append(M, m), B, E)
<1> DEFINE R == Append(M, m)
           top == Len(M) + 1
<1>1. /\ \A i \in 1 .. Len(M) : i \in 1 .. Len(R) /\ R[i] = M[i]
      /\ top \in 1 .. Len(R) /\ R[top] = m
      /\ \A i \in 1 .. Len(R) : i \in 1 .. Len(M) \/ i = top
  BY PushFacts
<1> HIDE DEF R, top
<1>2. \A i \in 1 .. Len(R) : Grants(R[i]) => i \in 1 .. Len(M) /\ R[i] = M[i]
  BY <1>1
<1>3. Announced(H, R, B, E)
  <2> SUFFICES ASSUME NEW i \in 1 .. Len(M), Grants(M[i])
               PROVE  /\ M[i].number \in DOMAIN E
                      /\ E[M[i].number].opening = M[i].opening
                      /\ E[M[i].number].state = "Active"
                      /\ ~Joined(B, M[i].number)
                      /\ \A j \in 1 .. Len(M) :
                            Grants(M[j]) /\ M[j].number = M[i].number => j = i
                      /\ \A k \in 1 .. Len(H) : H[k].number = M[i].number =>
                            H[k].tag = "closed" /\ H[k].opening # M[i].opening
    BY <1>2 DEF Announced
  <2> QED
    BY DEF Safe, Announced
<1>4. Requested(H, R, B, E)
  <2> SUFFICES ASSUME NEW i \in 1 .. Len(R), R[i].tag \in {"object", "close"},
                      R[i].number \in DOMAIN E
               PROVE  Present(R[i], E) \/ Earlier(i, H, R, B, E)
    BY DEF Requested
  <2>1. CASE i = top
    BY <2>1, <1>1 DEF Present
  <2>2. CASE i \in 1 .. Len(M)
    <3>1. Present(M[i], E) \/ Earlier(i, H, M, B, E)
      BY <2>2, <1>1 DEF Safe, Requested
    <3> QED
      BY <3>1, <2>2, <1>1, <1>2 DEF Earlier
  <2> QED
    BY <2>1, <2>2, <1>1
<1>5. OneRequest(H, R, E)
  <2>1. /\ \A i, j \in 1 .. Len(M) :
              Current(M[i], "close", E) /\ Current(M[j], "close", E)
                /\ M[i].number = M[j].number => i = j
        /\ \A i, j \in 1 .. Len(H) :
              Current(H[i], "closed", E) /\ Current(H[j], "closed", E)
                /\ H[i].number = H[j].number => i = j
        /\ \A i \in 1 .. Len(M), j \in 1 .. Len(H) :
              ~(Current(M[i], "close", E) /\ Current(H[j], "closed", E)
                /\ M[i].number = H[j].number)
    BY DEF Safe, OneRequest
  <2>2. Current(m, "close", E) => m.tag = "close"
    BY DEF Current
  <2>3. ASSUME NEW i \in 1 .. Len(R), NEW j \in 1 .. Len(R),
               Current(R[i], "close", E), Current(R[j], "close", E),
               R[i].number = R[j].number
        PROVE  i = j
    BY <2>1, <2>2, <2>3, <1>1
  <2>4. ASSUME NEW i \in 1 .. Len(R), NEW j \in 1 .. Len(H)
        PROVE  ~(Current(R[i], "close", E) /\ Current(H[j], "closed", E)
                 /\ R[i].number = H[j].number)
    BY <2>1, <2>2, <1>1
  <2> QED
    BY <2>1, <2>3, <2>4 DEF OneRequest
<1> QED
  BY <1>3, <1>4, <1>5 DEF Safe, R

(* The module sends an open request, a stray message, an object of a session it
   works with, or, once it works with it no more, its close request.        *)
LEMMA PushHostSafe ==
    ASSUME NEW S, NEW H \in Seq(S), NEW M, NEW B, NEW E, NEW m,
           Safe(H, M, B, E), 0 \notin DOMAIN E, m.tag # "closed",
           \/ m.number = 0
           \/ /\ m.number \in DOMAIN E /\ E[m.number].opening = m.opening
              /\ \A k \in 1 .. Len(H) : ~Ends(H[k], m.number, m.opening)
              /\ \A i \in 1 .. Len(M) : Grants(M[i]) => M[i].number # m.number
              /\ \A i \in 1 .. Len(M) :
                    M[i].tag \in {"object", "close"} /\ M[i].number = m.number =>
                       M[i].opening = m.opening
              /\ m.tag = "close" => ~Joined(B, m.number)
    PROVE  Safe(Append(H, m), M, B, E)
<1> DEFINE R == Append(H, m)
           top == Len(H) + 1
<1>1. /\ \A i \in 1 .. Len(H) : /\ i \in 1 .. Len(R) /\ R[i] = H[i]
                                /\ i # top /\ ~(top < i)
      /\ top \in 1 .. Len(R) /\ R[top] = m /\ ~(top < top)
      /\ \A i \in 1 .. Len(R) : i \in 1 .. Len(H) \/ i = top
  BY PushFacts
<1> HIDE DEF R, top
<1>2. Announced(R, M, B, E)
  <2> SUFFICES ASSUME NEW i \in 1 .. Len(M), Grants(M[i]), NEW k \in 1 .. Len(R),
                      R[k].number = M[i].number
               PROVE  R[k].tag = "closed" /\ R[k].opening # M[i].opening
    BY DEF Safe, Announced
  <2>1. M[i].number \in DOMAIN E
    BY DEF Safe, Announced
  <2>2. k # top
    BY <2>1, <1>1
  <2>3. k \in 1 .. Len(H) /\ R[k] = H[k]
    BY <2>2, <1>1
  <2> QED
    BY <2>3 DEF Safe, Announced
<1>3. Joins(R, B, E)
  <2> SUFFICES ASSUME NEW e \in B, ~e.closing
               PROVE  /\ e.number \in DOMAIN E
                      /\ E[e.number].opening = e.opening
                      /\ \A k \in 1 .. Len(R) : ~Ends(R[k], e.number, e.opening)
    BY DEF Joins
  <2>1. /\ e.number \in DOMAIN E
        /\ E[e.number].opening = e.opening
        /\ \A k \in 1 .. Len(H) : ~Ends(H[k], e.number, e.opening)
    BY DEF Safe, Joins
  <2>2. Joined(B, e.number)
    BY DEF Joined
  <2>3. ~Ends(m, e.number, e.opening)
    BY <2>1, <2>2 DEF Ends
  <2> QED
    BY <2>1, <2>3, <1>1
<1>4. Working(R, E)
  <2> SUFFICES ASSUME NEW i \in 1 .. Len(R), R[i].tag \in {"object", "close"},
                      R[i].number # 0
               PROVE  /\ R[i].number \in DOMAIN E
                      /\ E[R[i].number].opening = R[i].opening
                      /\ \A k \in 1 .. Len(R) : k < i =>
                            ~Ends(R[k], R[i].number, R[i].opening)
                      /\ \A k \in 1 .. Len(R) :
                            i < k /\ R[k].tag = "closed" /\ R[k].number = R[i].number
                              => R[k].opening = R[i].opening
    BY DEF Working
  <2>1. CASE i = top
    <3>1. \A k \in 1 .. Len(R) : k # i => k \in 1 .. Len(H) /\ R[k] = H[k]
      BY <2>1, <1>1
    <3>2. \A k \in 1 .. Len(R) : (k < i => k # i) /\ ~(i < k)
      BY <2>1, <1>1
    <3> QED
      BY <3>1, <3>2, <2>1, <1>1
  <2>2. CASE i \in 1 .. Len(H)
    <3>1. /\ H[i].number \in DOMAIN E
          /\ E[H[i].number].opening = H[i].opening
          /\ \A k \in 1 .. Len(H) : k < i => ~Ends(H[k], H[i].number, H[i].opening)
          /\ \A k \in 1 .. Len(H) :
                i < k /\ H[k].tag = "closed" /\ H[k].number = H[i].number
                  => H[k].opening = H[i].opening
      BY <2>2, <1>1 DEF Safe, Working
    <3> QED
      BY <3>1, <2>2, <1>1
  <2> QED
    BY <2>1, <2>2, <1>1
<1>5. Responding(R, E)
  BY <1>1 DEF Safe, Responding
<1>6. OneRequest(R, M, E)
  <2>1. ~Current(m, "closed", E)
    BY DEF Current
  <2>2. \A i \in 1 .. Len(R) : Current(R[i], "closed", E) => i \in 1 .. Len(H) /\ R[i] = H[i]
    BY <2>1, <1>1
  <2> QED
    BY <2>2 DEF Safe, OneRequest
<1>7. Requested(R, M, B, E)
  <2> SUFFICES ASSUME NEW i \in 1 .. Len(M), M[i].tag \in {"object", "close"},
                      M[i].number \in DOMAIN E, Earlier(i, H, M, B, E)
               PROVE  Earlier(i, R, M, B, E)
    BY DEF Safe, Requested
  <2>1. m.number # M[i].number
    BY DEF Earlier
  <2>2. Unheard(R, B, E, M[i].number)
    BY <2>1, <1>1 DEF Earlier, Unheard
  <2> QED
    BY <2>2 DEF Earlier
<1> QED
  BY <1>2, <1>3, <1>4, <1>5, <1>6, <1>7 DEF Safe, R

(* A session is freed that nothing speaks of any more.                      *)
LEMMA ForgetSafe ==
    ASSUME NEW H, NEW M, NEW B, NEW E, NEW F, NEW n,
           Safe(H, M, B, E),
           DOMAIN F = DOMAIN E \ {n}, \A m \in DOMAIN F : F[m] = E[m],
           ~Joined(B, n),
           \A i \in 1 .. Len(M) : Grants(M[i]) => M[i].number # n,
           \A i \in 1 .. Len(H) : H[i].number = n => H[i].tag \notin {"object", "close"}
    PROVE  Safe(H, M, B, F)
<1>1. Announced(H, M, B, F)
  BY DEF Safe, Announced
<1>2. Joins(H, B, F)
  BY DEF Safe, Joins, Joined
<1>3. Working(H, F)
  BY DEF Safe, Working
<1>4. Responding(H, F)
  BY DEF Safe, Responding
<1>5. Requested(H, M, B, F)
  BY DEF Safe, Requested, Earlier, Unheard, Present
<1>6. \A m, tag : Current(m, tag, F) => Current(m, tag, E)
  BY DEF Current
<1>7. OneRequest(H, M, F)
  BY <1>6 DEF Safe, OneRequest
<1> QED
  BY <1>1, <1>2, <1>3, <1>4, <1>5, <1>7 DEF Safe

(* A session that is announced to nobody begins to close, or is active again. *)
LEMMA SetStateSafe ==
    ASSUME NEW H, NEW M, NEW B, NEW E, NEW F, NEW n,
           Safe(H, M, B, E),
           DOMAIN F = DOMAIN E, \A m \in DOMAIN E \ {n} : F[m] = E[m],
           n \in DOMAIN E => F[n].opening = E[n].opening,
           \A i \in 1 .. Len(M) : Grants(M[i]) => M[i].number # n,
           \A i \in 1 .. Len(M) : M[i].tag = "close" /\ M[i].number = n =>
              M[i].opening # E[n].opening \/ F[n].state = "Closing",
           \A i \in 1 .. Len(M) : M[i].tag \in {"object", "close"} /\ M[i].number = n =>
              M[i].opening = E[n].opening \/ F[n].state = "Active",
           \A i \in 1 .. Len(H) : H[i].tag = "closed" /\ H[i].number = n =>
              (E[n].opening = H[i].opening <=> F[n].state = "Closing")
    PROVE  Safe(H, M, B, F)
<1>1. \A m \in DOMAIN E : F[m].opening = E[m].opening
  OBVIOUS
<1>2. Announced(H, M, B, F)
  BY <1>1 DEF Safe, Announced
<1>3. Joins(H, B, F)
  BY <1>1 DEF Safe, Joins
<1>4. Working(H, F)
  BY <1>1 DEF Safe, Working
<1>5. Responding(H, F)
  BY <1>1 DEF Safe, Responding
<1>6. Requested(H, M, B, F)
  BY <1>1 DEF Safe, Requested, Earlier, Unheard, Present
<1>7. \A m, tag : Current(m, tag, F) <=> Current(m, tag, E)
  BY <1>1 DEF Current
<1>8. OneRequest(H, M, F)
  BY <1>7 DEF Safe, OneRequest
<1> QED
  BY <1>2, <1>3, <1>4, <1>5, <1>6, <1>8 DEF Safe

(* A session is opened under a number the slot does not use, and announced;
   its opening is newer than everything on its way.                         *)
LEMMA GrantSafe ==
    ASSUME NEW H, NEW S, NEW M \in Seq(S), NEW B, NEW E, NEW F, NEW m,
           Safe(H, M, B, E),
           Grants(m), m.number \notin DOMAIN E, m.number # 0,
           DOMAIN F = DOMAIN E \cup {m.number}, \A n \in DOMAIN E : F[n] = E[n],
           F[m.number].opening = m.opening, F[m.number].state = "Active",
           \A i \in 1 .. Len(H) : H[i].number = m.number => H[i].opening # m.opening,
           \A i \in 1 .. Len(H) : H[i].tag \in {"open", "object", "close", "closed"},
           \A i \in 1 .. Len(H) : H[i].tag = "open" => H[i].number = 0,
           \A i \in 1 .. Len(M) : M[i].number = m.number => M[i].opening # m.opening
    PROVE  Safe(H, Append(M, m), B, F)
<1> DEFINE R == Append(M, m)
           top == Len(M) + 1
<1>1. /\ \A i \in 1 .. Len(M) : /\ i \in 1 .. Len(R) /\ R[i] = M[i]
                                /\ i < top
      /\ top \in 1 .. Len(R) /\ R[top] = m
      /\ \A i \in 1 .. Len(R) : i \in 1 .. Len(M) \/ i = top
  BY PushFacts
<1> HIDE DEF R, top
<1>2. \A i \in 1 .. Len(M) : Grants(M[i]) => M[i].number # m.number
  BY DEF Safe, Announced
<1>3. ~Joined(B, m.number)
  BY DEF Safe, Joins, Joined
<1>4. \A i \in 1 .. Len(H) : H[i].number = m.number => H[i].tag = "closed"
  BY DEF Safe, Working
<1>5. m.tag = "opened"
  BY DEF Grants
<1>6. Announced(H, R, B, F)
  <2> SUFFICES ASSUME NEW i \in 1 .. Len(R), Grants(R[i])
               PROVE  /\ R[i].number \in DOMAIN F
                      /\ F[R[i].number].opening = R[i].opening
                      /\ F[R[i].number].state = "Active"
                      /\ ~Joined(B, R[i].number)
                      /\ \A j \in 1 .. Len(R) :
                            Grants(R[j]) /\ R[j].number = R[i].number => j = i
                      /\ \A k \in 1 .. Len(H) : H[k].number = R[i].number =>
                            H[k].tag = "closed" /\ H[k].opening # R[i].opening
    BY DEF Announced
  <2>1. CASE i = top
    BY <2>1, <1>1, <1>2, <1>3, <1>4
  <2>2. CASE i \in 1 .. Len(M)
    <3>1. /\ M[i].number \in DOMAIN E
          /\ E[M[i].number].opening = M[i].opening
          /\ E[M[i].number].state = "Active"
          /\ ~Joined(B, M[i].number)
          /\ \A j \in 1 .. Len(M) :
                Grants(M[j]) /\ M[j].number = M[i].number => j = i
          /\ \A k \in 1 .. Len(H) : H[k].number = M[i].number =>
                H[k].tag = "closed" /\ H[k].opening # M[i].opening
      BY <2>2, <1>1 DEF Safe, Announced
    <3> QED
      BY <3>1, <2>2, <1>1, <1>2
  <2> QED
    BY <2>1, <2>2, <1>1
<1>7. Joins(H, B, F)
  BY DEF Safe, Joins
<1>8. Working(H, F)
  <2> SUFFICES ASSUME NEW i \in 1 .. Len(H), H[i].tag \in {"object", "close"},
                      H[i].number # 0
               PROVE  H[i].number \in DOMAIN F /\ F[H[i].number].opening = H[i].opening
    BY DEF Safe, Working
  <2> QED
    BY DEF Safe, Working
<1>9. Responding(H, F)
  <2> SUFFICES ASSUME NEW i \in 1 .. Len(H), H[i].tag = "closed",
                      H[i].number \in DOMAIN F
               PROVE  F[H[i].number].opening = H[i].opening
                        <=> F[H[i].number].state = "Closing"
    BY DEF Responding
  <2>1. CASE H[i].number = m.number
    BY <2>1
  <2>2. CASE H[i].number \in DOMAIN E
    BY <2>2 DEF Safe, Responding
  <2> QED
    BY <2>1, <2>2
<1>10. Requested(H, R, B, F)
  <2> SUFFICES ASSUME NEW i \in 1 .. Len(R), R[i].tag \in {"object", "close"},
                      R[i].number \in DOMAIN F
               PROVE  Present(R[i], F) \/ Earlier(i, H, R, B, F)
    BY DEF Requested
  <2>1. i \in 1 .. Len(M) /\ R[i] = M[i] /\ i < top
    BY <1>1, <1>5
  <2>2. CASE R[i].number = m.number
    <3>1. Unheard(H, B, F, m.number)
      BY <1>3, <1>4 DEF Unheard
    <3>2. \A j \in 1 .. Len(R) : Grants(R[j]) /\ R[j].number = m.number => j = top
      BY <1>1, <1>2
    <3> QED
      BY <2>1, <2>2, <3>1, <3>2 DEF Earlier
  <2>3. CASE R[i].number \in DOMAIN E
    <3>1. Present(M[i], E) \/ Earlier(i, H, M, B, E)
      BY <2>1, <2>3 DEF Safe, Requested
    <3>2. R[i].number # m.number
      BY <2>3
    <3>3. Unheard(H, B, E, M[i].number) => Unheard(H, B, F, M[i].number)
      BY <2>1, <2>3 DEF Unheard
    <3>4. Present(M[i], E) => Present(R[i], F)
      BY <2>1, <2>3 DEF Present
    <3> QED
      BY <3>1, <3>2, <3>3, <3>4, <2>1, <2>3, <1>1 DEF Earlier
  <2> QED
    BY <2>2, <2>3
<1>11. OneRequest(H, R, F)
  <2>1. \A i \in 1 .. Len(R) : Current(R[i], "close", F) =>
           i \in 1 .. Len(M) /\ R[i] = M[i] /\ Current(M[i], "close", E)
    <3> SUFFICES ASSUME NEW i \in 1 .. Len(R), Current(R[i], "close", F)
                 PROVE  i \in 1 .. Len(M) /\ R[i] = M[i] /\ Current(M[i], "close", E)
      OBVIOUS
    <3>1. i \in 1 .. Len(M) /\ R[i] = M[i]
      BY <1>1, <1>5 DEF Current
    <3>2. M[i].number # m.number
      BY <3>1 DEF Current
    <3> QED
      BY <3>1, <3>2 DEF Current
  <2>2. \A i \in 1 .. Len(H) : Current(H[i], "closed", F) => Current(H[i], "closed", E)
    BY DEF Current
  <2> QED
    BY <2>1, <2>2 DEF Safe, OneRequest
<1> QED
  BY <1>6, <1>7, <1>8, <1>9, <1>10, <1>11 DEF Safe, R

(* The module works with less.                                              *)
LEMMA FewerSafe ==
    ASSUME NEW H, NEW M, NEW B, NEW C, NEW E,
           Safe(H, M, B, E), \A e \in C : ~e.closing => e \in B
    PROVE  Safe(H, M, C, E)
<1>1. \A n : Joined(C, n) => Joined(B, n)
  BY DEF Joined
<1>2. Announced(H, M, C, E)
  BY <1>1 DEF Safe, Announced
<1>3. Joins(H, C, E)
  BY DEF Safe, Joins
<1>4. Requested(H, M, C, E)
  BY <1>1 DEF Safe, Requested, Earlier, Unheard
<1> QED
  BY <1>2, <1>3, <1>4 DEF Safe

(* The module reads a message: it joins the session it is told of, and does
   not change its mind otherwise.                                           *)
LEMMA PopModuleSafe ==
    ASSUME NEW S, NEW M \in Seq(S), M # << >>, NEW H, NEW B, NEW C, NEW E,
           Safe(H, M, B, E),
           \A e \in C : ~e.closing =>
              \/ e \in B
              \/ /\ Grants(Head(M))
                 /\ e.number = Head(M).number /\ e.opening = Head(M).opening
    PROVE  Safe(H, Tail(M), C, E)
<1> DEFINE h == Head(M)
           R == Tail(M)
<1>1. /\ 1 \in 1 .. Len(M) /\ M[1] = h
      /\ \A i \in 1 .. Len(R) : i + 1 \in 1 .. Len(M) /\ i + 1 # 1 /\ R[i] = M[i + 1]
      /\ \A i \in 1 .. Len(M) : i # 1 => i - 1 \in 1 .. Len(R) /\ R[i - 1] = M[i]
      /\ \A i, j \in 1 .. Len(R) : (i < j <=> i + 1 < j + 1) /\ (i = j <=> i + 1 = j + 1)
      /\ \A i, j \in 1 .. Len(M) : i # 1 /\ j # 1 => (i < j <=> i - 1 < j - 1)
  BY PopFacts
<1> HIDE DEF h, R
<1>2. \A n : Joined(C, n) => Joined(B, n) \/ (Grants(h) /\ n = h.number)
  <2> SUFFICES ASSUME NEW n, Joined(C, n), ~Joined(B, n)
               PROVE  Grants(h) /\ n = h.number
    OBVIOUS
  <2>1. PICK e \in C : e.number = n /\ ~e.closing
    BY DEF Joined
  <2>2. e \notin B
    BY <2>1 DEF Joined
  <2> QED
    BY <2>1, <2>2 DEF h
<1>3. Announced(H, R, C, E)
  <2> SUFFICES ASSUME NEW i \in 1 .. Len(R), Grants(R[i])
               PROVE  /\ R[i].number \in DOMAIN E
                      /\ E[R[i].number].opening = R[i].opening
                      /\ E[R[i].number].state = "Active"
                      /\ ~Joined(C, R[i].number)
                      /\ \A j \in 1 .. Len(R) :
                            Grants(R[j]) /\ R[j].number = R[i].number => j = i
                      /\ \A k \in 1 .. Len(H) : H[k].number = R[i].number =>
                            H[k].tag = "closed" /\ H[k].opening # R[i].opening
    BY DEF Announced
  <2>1. i + 1 \in 1 .. Len(M) /\ R[i] = M[i + 1] /\ i + 1 # 1
    BY <1>1
  <2>2. /\ M[i + 1].number \in DOMAIN E
        /\ E[M[i + 1].number].opening = M[i + 1].opening
        /\ E[M[i + 1].number].state = "Active"
        /\ ~Joined(B, M[i + 1].number)
        /\ \A j \in 1 .. Len(M) :
              Grants(M[j]) /\ M[j].number = M[i + 1].number => j = i + 1
        /\ \A k \in 1 .. Len(H) : H[k].number = M[i + 1].number =>
              H[k].tag = "closed" /\ H[k].opening # M[i + 1].opening
    BY <2>1 DEF Safe, Announced
  <2>3. ~Joined(C, R[i].number)
    <3>1. ~(Grants(h) /\ h.number = R[i].number)
      BY <2>1, <2>2, <1>1
    <3>2. ~Joined(B, R[i].number)
      BY <2>1, <2>2
    <3> QED
      BY <3>1, <3>2, <1>2
  <2>4. ASSUME NEW j \in 1 .. Len(R), Grants(R[j]), R[j].number = R[i].number
        PROVE  j = i
    <3>1. j + 1 \in 1 .. Len(M) /\ R[j] = M[j + 1]
      BY <1>1
    <3>2. j + 1 = i + 1
      BY <3>1, <2>1, <2>2, <2>4
    <3> QED
      BY <3>2
  <2> QED
    BY <2>1, <2>2, <2>3, <2>4
<1>4. Joins(H, C, E)
  <2> SUFFICES ASSUME NEW e \in C, ~e.closing, e \notin B
               PROVE  /\ e.number \in DOMAIN E
                      /\ E[e.number].opening = e.opening
                      /\ \A k \in 1 .. Len(H) : ~Ends(H[k], e.number, e.opening)
    BY DEF Safe, Joins
  <2>1. Grants(M[1]) /\ e.number = M[1].number /\ e.opening = M[1].opening
    BY <1>1 DEF h
  <2>2. /\ M[1].number \in DOMAIN E
        /\ E[M[1].number].opening = M[1].opening
        /\ \A k \in 1 .. Len(H) : H[k].number = M[1].number =>
              H[k].tag = "closed" /\ H[k].opening # M[1].opening
    BY <2>1, <1>1 DEF Safe, Announced
  <2> QED
    BY <2>1, <2>2 DEF Ends
<1>5. Requested(H, R, C, E)
  <2> SUFFICES ASSUME NEW i \in 1 .. Len(R), R[i].tag \in {"object", "close"},
                      R[i].number \in DOMAIN E
               PROVE  Present(R[i], E) \/ Earlier(i, H, R, C, E)
    BY DEF Requested
  <2>1. i + 1 \in 1 .. Len(M) /\ R[i] = M[i + 1] /\ i + 1 # 1
    BY <1>1
  <2>2. Present(M[i + 1], E) \/ Earlier(i + 1, H, M, B, E)
    BY <2>1 DEF Safe, Requested
  <2>3. ASSUME Earlier(i + 1, H, M, B, E)
        PROVE  Earlier(i, H, R, C, E)
    <3>1. /\ M[i + 1].opening # E[M[i + 1].number].opening
          /\ Unheard(H, B, E, M[i + 1].number)
          /\ \A j \in 1 .. Len(M) :
                Grants(M[j]) /\ M[j].number = M[i + 1].number => i + 1 < j
      BY <2>3 DEF Earlier
    <3>2. ~(i + 1 < 1)
      OBVIOUS
    <3>3. ~(Grants(h) /\ h.number = M[i + 1].number)
      BY <3>1, <3>2, <1>1
    <3>4. ~Joined(C, M[i + 1].number)
      BY <3>1, <3>3, <1>2 DEF Unheard
    <3>5. Unheard(H, C, E, R[i].number)
      BY <2>1, <3>1, <3>4 DEF Unheard
    <3>6. ASSUME NEW j \in 1 .. Len(R), Grants(R[j]), R[j].number = R[i].number
          PROVE  i < j
      <4>1. j + 1 \in 1 .. Len(M) /\ R[j] = M[j + 1]
        BY <1>1
      <4>2. i + 1 < j + 1
        BY <2>1, <3>1, <3>6, <4>1
      <4> QED
        BY <4>2
    <3> QED
      BY <2>1, <3>1, <3>5, <3>6 DEF Earlier
  <2> QED
    BY <2>1, <2>2, <2>3
<1>6. OneRequest(H, R, E)
  <2>1. /\ \A i, j \in 1 .. Len(M) :
              Current(M[i], "close", E) /\ Current(M[j], "close", E)
                /\ M[i].number = M[j].number => i = j
        /\ \A i, j \in 1 .. Len(H) :
              Current(H[i], "closed", E) /\ Current(H[j], "closed", E)
                /\ H[i].number = H[j].number => i = j
        /\ \A i \in 1 .. Len(M), j \in 1 .. Len(H) :
              ~(Current(M[i], "close", E) /\ Current(H[j], "closed", E)
                /\ M[i].number = H[j].number)
    BY DEF Safe, OneRequest
  <2>2. ASSUME NEW i \in 1 .. Len(R), NEW j \in 1 .. Len(R),
               Current(R[i], "close", E), Current(R[j], "close", E),
               R[i].number = R[j].number
        PROVE  i = j
    <3>1. i + 1 \in 1 .. Len(M) /\ j + 1 \in 1 .. Len(M) /\ R[i] = M[i + 1] /\ R[j] = M[j + 1]
      BY <1>1
    <3>2. i + 1 = j + 1
      BY <3>1, <2>1, <2>2
    <3> QED
      BY <3>2
  <2>3. \A i \in 1 .. Len(R), j \in 1 .. Len(H) :
           ~(Current(R[i], "close", E) /\ Current(H[j], "closed", E)
             /\ R[i].number = H[j].number)
    BY <2>1, <1>1
  <2> QED
    BY <2>1, <2>2, <2>3 DEF OneRequest
<1> QED
  BY <1>3, <1>4, <1>5, <1>6 DEF Safe, R

(* The module answers the close request it reads.                           *)
LEMMA AnswerSafe ==
    ASSUME NEW S, NEW H \in Seq(S), NEW T, NEW M \in Seq(T), M # << >>,
           NEW B, NEW C, NEW E, NEW m,
           Safe(H, M, B, E),
           \A e \in C : e \in B,
           Head(M).tag = "close",
           m.tag = "closed", m.number = Head(M).number, m.opening = Head(M).opening,
           m.what # "Denied" => ~Joined(C, m.number)
    PROVE  Safe(Append(H, m), Tail(M), C, E)
<1> DEFINE R == Append(H, m)
           top == Len(H) + 1
           L == Tail(M)
           n == m.number
<1>1. /\ \A i \in 1 .. Len(H) : i \in 1 .. Len(R) /\ R[i] = H[i]
      /\ top \in 1 .. Len(R) /\ R[top] = m
      /\ \A i \in 1 .. Len(R) : i \in 1 .. Len(H) \/ i = top
  BY PushFacts
<1>2. /\ 1 \in 1 .. Len(M) /\ M[1].tag = "close" /\ M[1].number = n /\ M[1].opening = m.opening
      /\ \A i \in 1 .. Len(L) : i + 1 \in 1 .. Len(M) /\ i + 1 # 1 /\ L[i] = M[i + 1]
  BY PopFacts
<1>3. Safe(H, L, C, E)
  BY PopModuleSafe
<1> HIDE DEF R, top, L, n
<1>4. n \in DOMAIN E =>
         \/ /\ m.opening = E[n].opening
            /\ E[n].state = "Closing"
            /\ \A i \in 1 .. Len(L) : Grants(L[i]) => L[i].number # n
            /\ \A i \in 1 .. Len(L) : ~(Current(L[i], "close", E) /\ L[i].number = n)
            /\ \A k \in 1 .. Len(H) : ~(Current(H[k], "closed", E) /\ H[k].number = n)
         \/ /\ m.opening # E[n].opening
            /\ E[n].state # "Closing"
            /\ \A k \in 1 .. Len(H) : H[k].number = n => H[k].tag = "closed"
  <2> SUFFICES ASSUME n \in DOMAIN E
               PROVE  \/ /\ m.opening = E[n].opening
                         /\ E[n].state = "Closing"
                         /\ \A i \in 1 .. Len(L) : Grants(L[i]) => L[i].number # n
                         /\ \A i \in 1 .. Len(L) :
                               ~(Current(L[i], "close", E) /\ L[i].number = n)
                         /\ \A k \in 1 .. Len(H) :
                               ~(Current(H[k], "closed", E) /\ H[k].number = n)
                      \/ /\ m.opening # E[n].opening
                         /\ E[n].state # "Closing"
                         /\ \A k \in 1 .. Len(H) : H[k].number = n => H[k].tag = "closed"
    OBVIOUS
  <2>1. \/ m.opening = E[n].opening /\ E[n].state = "Closing"
        \/ m.opening # E[n].opening /\ Unheard(H, B, E, n)
    BY <1>2 DEF Safe, Requested, Present, Earlier
  <2>2. ASSUME NEW j \in 1 .. Len(M), Grants(M[j]), M[j].number = n
        PROVE  E[n].state = "Active"
    BY <2>2 DEF Safe, Announced
  <2>3. CASE m.opening = E[n].opening /\ E[n].state = "Closing"
    <3>1. Current(M[1], "close", E)
      BY <2>3, <1>2 DEF Current
    <3>2. /\ \A i, j \in 1 .. Len(M) :
                Current(M[i], "close", E) /\ Current(M[j], "close", E)
                  /\ M[i].number = M[j].number => i = j
          /\ \A i \in 1 .. Len(M), j \in 1 .. Len(H) :
                ~(Current(M[i], "close", E) /\ Current(H[j], "closed", E)
                  /\ M[i].number = H[j].number)
      BY DEF Safe, OneRequest
    <3>3. \A i \in 1 .. Len(L) : Grants(L[i]) => L[i].number # n
      BY <2>2, <2>3, <1>2
    <3>4. \A i \in 1 .. Len(L) : ~(Current(L[i], "close", E) /\ L[i].number = n)
      BY <3>1, <3>2, <1>2
    <3>5. \A k \in 1 .. Len(H) : ~(Current(H[k], "closed", E) /\ H[k].number = n)
      BY <3>1, <3>2, <1>2
    <3> QED
      BY <2>3, <3>3, <3>4, <3>5
  <2>4. CASE m.opening # E[n].opening /\ Unheard(H, B, E, n)
    BY <2>4 DEF Unheard
  <2> QED
    BY <2>1, <2>3, <2>4
<1>5. Announced(R, L, C, E)
  <2> SUFFICES ASSUME NEW i \in 1 .. Len(L), Grants(L[i]), NEW k \in 1 .. Len(R),
                      R[k].number = L[i].number
               PROVE  R[k].tag = "closed" /\ R[k].opening # L[i].opening
    BY <1>3 DEF Safe, Announced
  <2>1. /\ L[i].number \in DOMAIN E
        /\ E[L[i].number].opening = L[i].opening
        /\ \A j \in 1 .. Len(H) : H[j].number = L[i].number =>
              H[j].tag = "closed" /\ H[j].opening # L[i].opening
    BY <1>3 DEF Safe, Announced
  <2>2. CASE k = top
    BY <2>1, <2>2, <1>1, <1>4 DEF n
  <2>3. CASE k \in 1 .. Len(H)
    BY <2>1, <2>3, <1>1
  <2> QED
    BY <2>2, <2>3, <1>1
<1>6. Joins(R, C, E)
  <2> SUFFICES ASSUME NEW e \in C, ~e.closing
               PROVE  /\ e.number \in DOMAIN E
                      /\ E[e.number].opening = e.opening
                      /\ \A k \in 1 .. Len(R) : ~Ends(R[k], e.number, e.opening)
    BY DEF Joins
  <2>1. /\ e.number \in DOMAIN E
        /\ E[e.number].opening = e.opening
        /\ \A k \in 1 .. Len(H) : ~Ends(H[k], e.number, e.opening)
    BY <1>3 DEF Safe, Joins
  <2>2. Joined(C, e.number)
    BY DEF Joined
  <2>3. ~Ends(m, e.number, e.opening)
    BY <2>2 DEF Ends
  <2> QED
    BY <2>1, <2>3, <1>1
<1>7. Working(R, E)
  <2> SUFFICES ASSUME NEW i \in 1 .. Len(R), R[i].tag \in {"object", "close"},
                      R[i].number # 0
               PROVE  /\ R[i].number \in DOMAIN E
                      /\ E[R[i].number].opening = R[i].opening
                      /\ \A k \in 1 .. Len(R) : k < i =>
                            ~Ends(R[k], R[i].number, R[i].opening)
                      /\ \A k \in 1 .. Len(R) :
                            i < k /\ R[k].tag = "closed" /\ R[k].number = R[i].number
                              => R[k].opening = R[i].opening
    BY DEF Working
  <2>1. i \in 1 .. Len(H) /\ R[i] = H[i]
    BY <1>1
  <2>2. /\ H[i].number \in DOMAIN E
        /\ E[H[i].number].opening = H[i].opening
        /\ \A k \in 1 .. Len(H) : k < i => ~Ends(H[k], H[i].number, H[i].opening)
        /\ \A k \in 1 .. Len(H) :
              i < k /\ H[k].tag = "closed" /\ H[k].number = H[i].number
                => H[k].opening = H[i].opening
    BY <2>1, <1>3 DEF Safe, Working
  <2>3. m.number = H[i].number => m.opening = H[i].opening
    BY <2>1, <2>2, <1>4 DEF n
  <2>4. \A k \in 1 .. Len(R) : k < i => k \in 1 .. Len(H)
    BY <2>1
  <2> QED
    BY <2>1, <2>2, <2>3, <2>4, <1>1
<1>8. Responding(R, E)
  <2> SUFFICES ASSUME NEW i \in 1 .. Len(R), R[i].tag = "closed",
                      R[i].number \in DOMAIN E
               PROVE  E[R[i].number].opening = R[i].opening
                        <=> E[R[i].number].state = "Closing"
    BY DEF Responding
  <2>1. CASE i = top
    BY <2>1, <1>1, <1>4 DEF n
  <2>2. CASE i \in 1 .. Len(H)
    BY <2>2, <1>1, <1>3 DEF Safe, Responding
  <2> QED
    BY <2>1, <2>2, <1>1
<1>9. OneRequest(R, L, E)
  <2>1. /\ \A i, j \in 1 .. Len(L) :
              Current(L[i], "close", E) /\ Current(L[j], "close", E)
                /\ L[i].number = L[j].number => i = j
        /\ \A i, j \in 1 .. Len(H) :
              Current(H[i], "closed", E) /\ Current(H[j], "closed", E)
                /\ H[i].number = H[j].number => i = j
        /\ \A i \in 1 .. Len(L), j \in 1 .. Len(H) :
              ~(Current(L[i], "close", E) /\ Current(H[j], "closed", E)
                /\ L[i].number = H[j].number)
    BY <1>3 DEF Safe, OneRequest
  <2>2. Current(m, "closed", E) =>
           /\ \A i \in 1 .. Len(L) : ~(Current(L[i], "close", E) /\ L[i].number = n)
           /\ \A k \in 1 .. Len(H) : ~(Current(H[k], "closed", E) /\ H[k].number = n)
    BY <1>4 DEF Current, n
  <2>3. ASSUME NEW i \in 1 .. Len(R), NEW j \in 1 .. Len(R),
               Current(R[i], "closed", E), Current(R[j], "closed", E),
               R[i].number = R[j].number
        PROVE  i = j
    BY <2>1, <2>2, <2>3, <1>1 DEF n
  <2>4. ASSUME NEW i \in 1 .. Len(L), NEW j \in 1 .. Len(R)
        PROVE  ~(Current(L[i], "close", E) /\ Current(R[j], "closed", E)
                 /\ L[i].number = R[j].number)
    BY <2>1, <2>2, <1>1 DEF n
  <2> QED
    BY <2>1, <2>3, <2>4 DEF OneRequest
<1>10. Requested(R, L, C, E)
  <2> SUFFICES ASSUME NEW i \in 1 .. Len(L), L[i].tag \in {"object", "close"},
                      L[i].number \in DOMAIN E, Earlier(i, H, L, C, E)
               PROVE  Earlier(i, R, L, C, E)
    BY <1>3 DEF Safe, Requested
  <2>1. m.number = L[i].number => m.opening # E[L[i].number].opening
    BY <1>4 DEF Earlier, Unheard, n
  <2>2. Unheard(R, C, E, L[i].number)
    BY <2>1, <1>1 DEF Earlier, Unheard
  <2> QED
    BY <2>2 DEF Earlier
<1> QED
  BY <1>5, <1>6, <1>7, <1>8, <1>9, <1>10 DEF Safe, R, L

(* Positions before and after a message in the midst was dropped.           *)
LEMMA WithoutFacts ==
    ASSUME NEW S, NEW q \in Seq(S), NEW d \in 1 .. Len(q)
    PROVE  \E from \in [1 .. Len(Without(q, d)) -> 1 .. Len(q)] :
              /\ \A i \in 1 .. Len(Without(q, d)) : Without(q, d)[i] = q[from[i]]
              /\ \A i, j \in 1 .. Len(Without(q, d)) :
                    (from[i] = from[j] => i = j) /\ (from[i] < from[j] => i < j)
<1> DEFINE k == Len(q) - 1
           R == Without(q, d)
           from == [i \in 1 .. k |-> IF i < d THEN i ELSE i + 1]
<1>1. k \in Nat /\ R = [i \in 1 .. k |-> IF i < d THEN q[i] ELSE q[i + 1]]
  BY DEF Without
<1>2. R \in Seq(S)
  BY WithoutType
<1> HIDE DEF R
<1>3. Len(R) = k
  BY <1>1, <1>2
<1>4. from \in [1 .. k -> 1 .. Len(q)]
  OBVIOUS
<1>5. \A i \in 1 .. k : R[i] = q[from[i]]
  BY <1>1
<1>6. \A i, j \in 1 .. k : (from[i] = from[j] => i = j) /\ (from[i] < from[j] => i < j)
  OBVIOUS
<1> HIDE DEF from, k
<1> QED
  BY <1>3, <1>4, <1>5, <1>6 DEF R

(* A message to the module is dropped.                                      *)
LEMMA DropSafe ==
    ASSUME NEW S, NEW M \in Seq(S), NEW d \in 1 .. Len(M), NEW H, NEW B, NEW E,
           Safe(H, M, B, E)
    PROVE  Safe(H, Without(M, d), B, E)
<1> DEFINE R == Without(M, d)
<1>1. PICK from \in [1 .. Len(R) -> 1 .. Len(M)] :
         /\ \A i \in 1 .. Len(R) : R[i] = M[from[i]]
         /\ \A i, j \in 1 .. Len(R) :
               (from[i] = from[j] => i = j) /\ (from[i] < from[j] => i < j)
  BY WithoutFacts
<1> HIDE DEF R
<1>2. \A i \in 1 .. Len(R) : from[i] \in 1 .. Len(M)
  BY <1>1
<1>3. Announced(H, R, B, E)
  <2> SUFFICES ASSUME NEW i \in 1 .. Len(R), Grants(R[i])
               PROVE  /\ R[i].number \in DOMAIN E
                      /\ E[R[i].number].opening = R[i].opening
                      /\ E[R[i].number].state = "Active"
                      /\ ~Joined(B, R[i].number)
                      /\ \A j \in 1 .. Len(R) :
                            Grants(R[j]) /\ R[j].number = R[i].number => j = i
                      /\ \A k \in 1 .. Len(H) : H[k].number = R[i].number =>
                            H[k].tag = "closed" /\ H[k].opening # R[i].opening
    BY DEF Announced
  <2>1. from[i] \in 1 .. Len(M) /\ R[i] = M[from[i]]
    BY <1>1, <1>2
  <2>2. /\ M[from[i]].number \in DOMAIN E
        /\ E[M[from[i]].number].opening = M[from[i]].opening
        /\ E[M[from[i]].number].state = "Active"
        /\ ~Joined(B, M[from[i]].number)
        /\ \A j \in 1 .. Len(M) :
              Grants(M[j]) /\ M[j].number = M[from[i]].number => j = from[i]
        /\ \A k \in 1 .. Len(H) : H[k].number = M[from[i]].number =>
              H[k].tag = "closed" /\ H[k].opening # M[from[i]].opening
    BY <2>1 DEF Safe, Announced
  <2> QED
    BY <2>1, <2>2, <1>1, <1>2
<1>4. Requested(H, R, B, E)
  <2> SUFFICES ASSUME NEW i \in 1 .. Len(R), R[i].tag \in {"object", "close"},
                      R[i].number \in DOMAIN E
               PROVE  Present(R[i], E) \/ Earlier(i, H, R, B, E)
    BY DEF Requested
  <2>1. from[i] \in 1 .. Len(M) /\ R[i] = M[from[i]]
    BY <1>1, <1>2
  <2>2. Present(M[from[i]], E) \/ Earlier(from[i], H, M, B, E)
    BY <2>1 DEF Safe, Requested
  <2>3. ASSUME Earlier(from[i], H, M, B, E), NEW j \in 1 .. Len(R),
               Grants(R[j]), R[j].number = R[i].number
        PROVE  i < j
    <3>1. from[j] \in 1 .. Len(M) /\ R[j] = M[from[j]]
      BY <1>1, <1>2
    <3>2. \A k \in 1 .. Len(M) :
             Grants(M[k]) /\ M[k].number = M[from[i]].number => from[i] < k
      BY <2>3 DEF Earlier
    <3>3. from[i] < from[j]
      BY <2>1, <2>3, <3>1, <3>2
    <3> QED
      BY <3>3, <1>1
  <2> QED
    BY <2>1, <2>2, <2>3 DEF Earlier
<1>5. OneRequest(H, R, E)
  <2>1. /\ \A i, j \in 1 .. Len(M) :
              Current(M[i], "close", E) /\ Current(M[j], "close", E)
                /\ M[i].number = M[j].number => i = j
        /\ \A i, j \in 1 .. Len(H) :
              Current(H[i], "closed", E) /\ Current(H[j], "closed", E)
                /\ H[i].number = H[j].number => i = j
        /\ \A i \in 1 .. Len(M), j \in 1 .. Len(H) :
              ~(Current(M[i], "close", E) /\ Current(H[j], "closed", E)
                /\ M[i].number = H[j].number)
    BY DEF Safe, OneRequest
  <2>2. ASSUME NEW i \in 1 .. Len(R), NEW j \in 1 .. Len(R),
               Current(R[i], "close", E), Current(R[j], "close", E),
               R[i].number = R[j].number
        PROVE  i = j
    <3>1. from[i] = from[j]
      BY <2>1, <2>2, <1>1, <1>2
    <3> QED
      BY <3>1, <1>1
  <2>3. \A i \in 1 .. Len(R), j \in 1 .. Len(H) :
           ~(Current(R[i], "close", E) /\ Current(H[j], "closed", E)
             /\ R[i].number = H[j].number)
    BY <2>1, <1>1, <1>2
  <2> QED
    BY <2>1, <2>2, <2>3 DEF OneRequest
<1> QED
  BY <1>3, <1>4, <1>5 DEF Safe, R

(* What the module reads it has taken notice of, and answered if it had to. *)
LEMMA PopModuleWhole ==
    ASSUME NEW S, NEW M \in Seq(S), M # << >>, NEW H, NEW G, NEW B, NEW C, NEW E,
           Whole(H, M, B, E),
           \A k \in 1 .. Len(H) : \E i \in 1 .. Len(G) : G[i] = H[k],
           Grants(Head(M)) => Joined(C, Head(M).number),
           \A n \in DOMAIN E : Joined(B, n) =>
              Joined(C, n) \/ \E k \in 1 .. Len(G) : Ends(G[k], n, E[n].opening),
           Current(Head(M), "close", E) =>
              \E k \in 1 .. Len(G) :
                 /\ Current(G[k], "closed", E) \/ G[k].tag = "close"
                 /\ G[k].number = Head(M).number,
           \A e \in C : e.closing =>
              e \in B /\ (Head(M).tag = "closed" => e.number # Head(M).number)
    PROVE  Whole(G, Tail(M), C, E)
<1> DEFINE h == Head(M)
           R == Tail(M)
<1>1. /\ M[1] = h
      /\ \A i \in 1 .. Len(M) : i # 1 => i - 1 \in 1 .. Len(R) /\ R[i - 1] = M[i]
  BY PopFacts
<1>2. /\ Grants(h) => Joined(C, h.number)
      /\ Current(h, "close", E) =>
            \E k \in 1 .. Len(G) :
               /\ Current(G[k], "closed", E) \/ G[k].tag = "close"
               /\ G[k].number = h.number
      /\ \A e \in C : e.closing => e \in B /\ (h.tag = "closed" => e.number # h.number)
  OBVIOUS
<1> HIDE DEF h, R
<1>3. Known(G, R, C, E)
  <2> SUFFICES ASSUME NEW n \in DOMAIN E
               PROVE  \/ \E i \in 1 .. Len(R) : Grants(R[i]) /\ R[i].number = n
                      \/ Joined(C, n)
                      \/ \E k \in 1 .. Len(G) : Ends(G[k], n, E[n].opening)
    BY DEF Known
  <2>1. \/ \E i \in 1 .. Len(M) : Grants(M[i]) /\ M[i].number = n
        \/ Joined(B, n)
        \/ \E k \in 1 .. Len(H) : Ends(H[k], n, E[n].opening)
    BY DEF Whole, Known
  <2>2. ASSUME NEW i \in 1 .. Len(M), Grants(M[i]), M[i].number = n
        PROVE  Joined(C, n) \/ \E j \in 1 .. Len(R) : Grants(R[j]) /\ R[j].number = n
    <3>1. CASE i = 1
      BY <3>1, <2>2, <1>1, <1>2
    <3>2. CASE i # 1
      BY <3>2, <2>2, <1>1
    <3> QED
      BY <3>1, <3>2
  <2>3. ASSUME NEW k \in 1 .. Len(H), Ends(H[k], n, E[n].opening)
        PROVE  \E i \in 1 .. Len(G) : Ends(G[i], n, E[n].opening)
    BY <2>3
  <2> QED
    BY <2>1, <2>2, <2>3
<1>4. Answering(G, R, E)
  <2> SUFFICES ASSUME NEW n \in DOMAIN E, E[n].state = "Closing"
               PROVE  \/ \E i \in 1 .. Len(R) : Current(R[i], "close", E) /\ R[i].number = n
                      \/ \E k \in 1 .. Len(G) : Current(G[k], "closed", E) /\ G[k].number = n
                      \/ \E k \in 1 .. Len(G) : G[k].tag = "close" /\ G[k].number = n
    BY DEF Answering
  <2>1. \/ \E i \in 1 .. Len(M) : Current(M[i], "close", E) /\ M[i].number = n
        \/ \E k \in 1 .. Len(H) : Current(H[k], "closed", E) /\ H[k].number = n
        \/ \E k \in 1 .. Len(H) : H[k].tag = "close" /\ H[k].number = n
    BY DEF Whole, Answering
  <2>2. ASSUME NEW i \in 1 .. Len(M), Current(M[i], "close", E), M[i].number = n
        PROVE  \/ \E j \in 1 .. Len(R) : Current(R[j], "close", E) /\ R[j].number = n
               \/ \E k \in 1 .. Len(G) : Current(G[k], "closed", E) /\ G[k].number = n
               \/ \E k \in 1 .. Len(G) : G[k].tag = "close" /\ G[k].number = n
    <3>1. CASE i = 1
      BY <3>1, <2>2, <1>1, <1>2
    <3>2. CASE i # 1
      BY <3>2, <2>2, <1>1
    <3> QED
      BY <3>1, <3>2
  <2> QED
    BY <2>1, <2>2
<1>5. Leaving(G, R, C)
  <2> SUFFICES ASSUME NEW e \in C, e.closing
               PROVE  \/ \E k \in 1 .. Len(G) : G[k].tag = "close" /\ G[k].number = e.number
                      \/ \E i \in 1 .. Len(R) : R[i].tag = "closed" /\ R[i].number = e.number
    BY DEF Leaving
  <2>1. \/ \E k \in 1 .. Len(H) : H[k].tag = "close" /\ H[k].number = e.number
        \/ \E i \in 1 .. Len(M) : M[i].tag = "closed" /\ M[i].number = e.number
    BY <1>2 DEF Whole, Leaving
  <2>2. ASSUME NEW i \in 1 .. Len(M), M[i].tag = "closed", M[i].number = e.number
        PROVE  \E j \in 1 .. Len(R) : R[j].tag = "closed" /\ R[j].number = e.number
    <3>1. i # 1
      BY <2>2, <1>1, <1>2
    <3> QED
      BY <3>1, <2>2, <1>1
  <2> QED
    BY <2>1, <2>2
<1> QED
  BY <1>3, <1>4, <1>5 DEF Whole, R

(* The host begins to close a session it has asked the module to close.     *)
LEMMA CloserWhole ==
    ASSUME NEW H, NEW M, NEW B, NEW E, NEW F, NEW n, NEW j \in 1 .. Len(M),
           Whole(H, M, B, E),
           DOMAIN F = DOMAIN E, \A x \in DOMAIN E : F[x].opening = E[x].opening,
           \A x \in DOMAIN E : x # n /\ F[x].state = "Closing" => E[x].state = "Closing",
           Current(M[j], "close", E), M[j].number = n
    PROVE  Whole(H, M, B, F)
<1>1. \A m, tag : Current(m, tag, F) <=> Current(m, tag, E)
  BY DEF Current
<1>2. Known(H, M, B, F)
  BY DEF Whole, Known
<1>3. Answering(H, M, F)
  BY <1>1 DEF Whole, Answering
<1> QED
  BY <1>2, <1>3 DEF Whole

(* The host opens a session it has announced to the module.                 *)
LEMMA ExtendWhole ==
    ASSUME NEW H, NEW M, NEW B, NEW E, NEW F, NEW n, NEW j \in 1 .. Len(M),
           Whole(H, M, B, E),
           DOMAIN F = DOMAIN E \cup {n}, \A x \in DOMAIN E : F[x] = E[x],
           F[n].state = "Active", Grants(M[j]), M[j].number = n
    PROVE  Whole(H, M, B, F)
<1>1. \A m, tag : Current(m, tag, E) => Current(m, tag, F)
  BY DEF Current
<1>2. Known(H, M, B, F)
  BY DEF Whole, Known
<1>3. Answering(H, M, F)
  <2> SUFFICES ASSUME NEW x \in DOMAIN F, F[x].state = "Closing"
               PROVE  \/ \E i \in 1 .. Len(M) : Current(M[i], "close", F) /\ M[i].number = x
                      \/ \E k \in 1 .. Len(H) : Current(H[k], "closed", F) /\ H[k].number = x
                      \/ \E k \in 1 .. Len(H) : H[k].tag = "close" /\ H[k].number = x
    BY DEF Answering
  <2>1. x \in DOMAIN E /\ E[x].state = "Closing"
    OBVIOUS
  <2> QED
    BY <2>1, <1>1 DEF Whole, Answering
<1> QED
  BY <1>2, <1>3 DEF Whole

(* The module works no more with a session it has asked the host to close.  *)
LEMMA LeaveWhole ==
    ASSUME NEW H, NEW M, NEW B, NEW C, NEW E, NEW n, NEW j \in 1 .. Len(H),
           Whole(H, M, B, E),
           H[j].tag = "close", H[j].number = n,
           \A x \in DOMAIN E : x # n /\ Joined(B, x) => Joined(C, x),
           \A e \in C : e.closing => e \in B \/ e.number = n
    PROVE  Whole(H, M, C, E)
<1>1. Ends(H[j], n, E[n].opening)
  BY DEF Ends
<1>2. Known(H, M, C, E)
  <2> SUFFICES ASSUME NEW x \in DOMAIN E, Joined(B, x)
               PROVE  Joined(C, x) \/ \E k \in 1 .. Len(H) : Ends(H[k], x, E[x].opening)
    BY DEF Whole, Known
  <2> QED
    BY <1>1
<1>3. Answering(H, M, E)
  BY DEF Whole
<1>4. Leaving(H, M, C)
  BY DEF Whole, Leaving
<1> QED
  BY <1>2, <1>3, <1>4 DEF Whole

(* Everything on its way, and every session, was opened before.             *)
Old(H, M, E, top) ==
    /\ \A i \in 1 .. Len(H) : H[i].opening <= top
    /\ \A i \in 1 .. Len(M) : M[i].opening <= top
    /\ \A n \in DOMAIN E : E[n].opening <= top

Fit(H, M, B, E, top, missing) ==
    /\ Safe(H, M, B, E)
    /\ missing = 0 => Whole(H, M, B, E)
    /\ Old(H, M, E, top)

LEMMA PopOld ==
    ASSUME NEW S, NEW q \in Seq(S), q # << >>, NEW top, \A i \in 1 .. Len(q) : q[i].opening <= top
    PROVE  \A i \in 1 .. Len(Tail(q)) : Tail(q)[i].opening <= top
BY PopFacts

LEMMA PushOld ==
    ASSUME NEW S, NEW q \in Seq(S), NEW top, \A i \in 1 .. Len(q) : q[i].opening <= top,
           NEW m, m.opening <= top
    PROVE  \A i \in 1 .. Len(Append(q, m)) : Append(q, m)[i].opening <= top
<1> DEFINE r == Append(q, m)
<1>1. /\ \A i \in 1 .. Len(q) : r[i] = q[i]
      /\ r[Len(q) + 1] = m
      /\ \A i \in 1 .. Len(r) : i \in 1 .. Len(q) \/ i = Len(q) + 1
  BY PushFacts
<1> HIDE DEF r
<1>2. \A i \in 1 .. Len(r) : r[i].opening <= top
  BY <1>1
<1> QED
  BY <1>2 DEF r

(* The first message on the way to the host, and what Safe says of it.      *)
LEMMA HeadFacts ==
    ASSUME NEW S, NEW H \in Seq(S), H # << >>, NEW M, NEW B, NEW E, Safe(H, M, B, E)
    PROVE  /\ Head(H).tag \in {"object", "close"} /\ Head(H).number # 0 =>
                 /\ Head(H).number \in DOMAIN E
                 /\ E[Head(H).number].opening = Head(H).opening
                 /\ \A i \in 1 .. Len(M) : Grants(M[i]) => M[i].number # Head(H).number
                 /\ \A k \in 1 .. Len(H) :
                       H[k].tag = "closed" /\ H[k].number = Head(H).number =>
                          H[k].opening = Head(H).opening
           /\ Head(H).tag = "closed" /\ Head(H).number \in DOMAIN E =>
                 /\ E[Head(H).number].opening = Head(H).opening
                       <=> E[Head(H).number].state = "Closing"
                 /\ Current(Head(H), "closed", E) => 
                       \A i \in 1 .. Len(M) : Grants(M[i]) => M[i].number # Head(H).number
<1>1. 1 \in 1 .. Len(H) /\ H[1] = Head(H) /\ \A i \in 1 .. Len(H) : i # 1 => 1 < i
  BY PopFacts
<1>2. \A i \in 1 .. Len(M) : Grants(M[i]) /\ M[i].number = H[1].number =>
         H[1].tag = "closed" /\ H[1].opening # E[H[1].number].opening
  BY <1>1 DEF Safe, Announced
<1>3. ASSUME H[1].tag \in {"object", "close"}, H[1].number # 0
      PROVE  /\ H[1].number \in DOMAIN E
             /\ E[H[1].number].opening = H[1].opening
             /\ \A k \in 1 .. Len(H) :
                   H[k].tag = "closed" /\ H[k].number = H[1].number =>
                      H[k].opening = H[1].opening
  <2>1. /\ H[1].number \in DOMAIN E
        /\ E[H[1].number].opening = H[1].opening
        /\ \A k \in 1 .. Len(H) :
              1 < k /\ H[k].tag = "closed" /\ H[k].number = H[1].number =>
                 H[k].opening = H[1].opening
    BY <1>1, <1>3 DEF Safe, Working
  <2> QED
    BY <2>1, <1>1, <1>3
<1>4. H[1].tag = "closed" /\ H[1].number \in DOMAIN E =>
         (E[H[1].number].opening = H[1].opening <=> E[H[1].number].state = "Closing")
  BY <1>1 DEF Safe, Responding
<1> QED
  BY <1>1, <1>2, <1>3, <1>4 DEF Current

(* What the module works with the head does not end, and after an end nothing
   works.                                                                   *)
LEMMA EndFacts ==
    ASSUME NEW S, NEW H \in Seq(S), H # << >>, NEW M, NEW B, NEW E, Safe(H, M, B, E),
           NEW n \in DOMAIN E, n # 0, Ends(Head(H), n, E[n].opening)
    PROVE  /\ ~Joined(B, n)
           /\ \A i \in 1 .. Len(M) : Grants(M[i]) => M[i].number # n
           /\ \A k \in 1 .. Len(Tail(H)) :
                 Tail(H)[k].number = n => Tail(H)[k].tag \notin {"object", "close"}
<1>1. /\ 1 \in 1 .. Len(H) /\ H[1] = Head(H)
      /\ \A i \in 1 .. Len(Tail(H)) :
            i + 1 \in 1 .. Len(H) /\ i + 1 # 1 /\ Tail(H)[i] = H[i + 1]
      /\ \A i \in 1 .. Len(H) : i # 1 => 1 < i
  BY PopFacts
<1>2. ~Joined(B, n)
  BY <1>1 DEF Safe, Joins, Joined
<1>3. \A i \in 1 .. Len(M) : Grants(M[i]) => M[i].number # n
  BY <1>1 DEF Safe, Announced, Ends
<1>4. ASSUME NEW k \in 1 .. Len(H), k # 1, H[k].number = n
      PROVE  H[k].tag \notin {"object", "close"}
  <2> SUFFICES ASSUME H[k].tag \in {"object", "close"}
               PROVE  FALSE
    OBVIOUS
  <2>1. /\ E[n].opening = H[k].opening
        /\ \A j \in 1 .. Len(H) : j < k => ~Ends(H[j], n, H[k].opening)
    BY <1>4 DEF Safe, Working
  <2> QED
    BY <2>1, <1>1, <1>4
<1> QED
  BY <1>1, <1>2, <1>3, <1>4

(* The host reads a message that neither ends nor answers anything.         *)
LEMMA FitRead ==
    ASSUME NEW S, NEW H \in Seq(S), H # << >>, NEW M, NEW B, NEW E, NEW top, NEW missing,
           Fit(H, M, B, E, top, missing),
           Head(H).tag = "close" =>
              /\ Head(H).number \notin DOMAIN E
              /\ \E i \in 1 .. Len(M) :
                    M[i].tag = "closed" /\ M[i].number = Head(H).number,
           Head(H).tag = "closed" /\ Head(H).number \in DOMAIN E =>
              E[Head(H).number].state # "Closing"
    PROVE  Fit(Tail(H), M, B, E, top, missing)
<1>1. Safe(H, M, B, E)
  BY DEF Fit
<1>2. Safe(Tail(H), M, B, E)
  BY <1>1, PopHostSafe
<1>3. ~Current(Head(H), "closed", E)
  BY <1>1, HeadFacts DEF Current
<1>4. \A n \in DOMAIN E : ~Ends(Head(H), n, E[n].opening)
  BY <1>3 DEF Current, Ends
<1>5. missing = 0 => Whole(Tail(H), M, B, E)
  BY <1>3, <1>4, PopHostWhole DEF Fit
<1>6. Old(Tail(H), M, E, top)
  BY PopOld DEF Fit, Old
<1> QED
  BY <1>2, <1>5, <1>6 DEF Fit

(* A message is lost to the host: that one is missing explains the rest.    *)
LEMMA FitLose ==
    ASSUME NEW S, NEW H \in Seq(S), H # << >>, NEW M, NEW B, NEW E, NEW top,
           NEW missing \in Nat,
           Fit(H, M, B, E, top, missing)
    PROVE  Fit(Tail(H), M, B, E, top, missing + 1)
<1>1. Safe(Tail(H), M, B, E)
  BY PopHostSafe DEF Fit
<1>2. Old(Tail(H), M, E, top)
  BY PopOld DEF Fit, Old
<1> QED
  BY <1>1, <1>2 DEF Fit

(* A message to the module is dropped, and missing from now on.             *)
LEMMA FitDrop ==
    ASSUME NEW S, NEW M \in Seq(S), NEW d \in 1 .. Len(M), NEW H, NEW B, NEW E, NEW top,
           NEW missing \in Nat,
           Fit(H, M, B, E, top, missing)
    PROVE  Fit(H, Without(M, d), B, E, top, missing + 1)
<1>1. Safe(H, Without(M, d), B, E)
  BY DropSafe DEF Fit
<1>2. Old(H, Without(M, d), E, top)
  <2> DEFINE R == Without(M, d)
  <2>1. PICK from \in [1 .. Len(R) -> 1 .. Len(M)] : \A i \in 1 .. Len(R) : R[i] = M[from[i]]
    BY WithoutFacts
  <2> HIDE DEF R
  <2>2. \A i \in 1 .. Len(R) : R[i].opening <= top
    BY <2>1 DEF Fit, Old
  <2> QED
    BY <2>2 DEF Fit, Old, R
<1>3. missing + 1 # 0
  OBVIOUS
<1> QED
  BY <1>1, <1>2, <1>3 DEF Fit

(* The host sends something else than an announcement or a request.         *)
LEMMA FitSay ==
    ASSUME NEW S, NEW M \in Seq(S), NEW T, NEW H \in Seq(T), NEW B, NEW E, NEW top,
           NEW missing, NEW m,
           Fit(H, M, B, E, top, missing),
           ~Grants(m), m.tag # "close", m.opening <= top,
           m.tag = "object" => m.number \in DOMAIN E /\ m.opening = E[m.number].opening
    PROVE  Fit(H, Append(M, m), B, E, top, missing)
<1>1. Safe(H, Append(M, m), B, E)
  BY PushModuleSafe DEF Fit
<1>2. missing = 0 => Whole(H, Append(M, m), B, E)
  BY PushWhole DEF Fit
<1>3. Old(H, Append(M, m), E, top)
  BY PushOld DEF Fit, Old
<1> QED
  BY <1>1, <1>2, <1>3 DEF Fit

(* The host opens a session and announces it.                               *)
LEMMA FitGrant ==
    ASSUME NEW H \in Seq(HostMessage), NEW M \in Seq(ModuleMessage), NEW B,
           NEW E, NEW F, NEW top \in Nat, NEW missing, NEW m,
           Fit(H, M, B, E, top, missing), \A n \in DOMAIN E : E[n].opening \in Nat,
           Grants(m), m.number \notin DOMAIN E, m.number # 0, m.opening = top + 1,
           DOMAIN F = DOMAIN E \cup {m.number}, \A n \in DOMAIN E : F[n] = E[n],
           F[m.number].opening = m.opening, F[m.number].state = "Active"
    PROVE  Fit(H, Append(M, m), B, F, top + 1, missing)
<1> DEFINE R == Append(M, m)
<1>1. \A i \in 1 .. Len(H) :
         /\ H[i].tag \in {"open", "object", "close", "closed"}
         /\ H[i].tag = "open" => H[i].number = 0
         /\ H[i].opening \in Nat /\ H[i].opening <= top
  <2> SUFFICES ASSUME NEW i \in 1 .. Len(H)
               PROVE  /\ H[i].tag \in {"open", "object", "close", "closed"}
                      /\ H[i].tag = "open" => H[i].number = 0
                      /\ H[i].opening \in Nat /\ H[i].opening <= top
    OBVIOUS
  <2>1. H[i] \in HostMessage
    OBVIOUS
  <2>2. H[i].opening <= top
    BY DEF Fit, Old
  <2> QED
    BY <2>1, <2>2 DEF HostMessage, Open, Object, Close, Closed
<1>2. \A i \in 1 .. Len(M) : M[i].opening \in Nat /\ M[i].opening <= top
  <2> SUFFICES ASSUME NEW i \in 1 .. Len(M)
               PROVE  M[i].opening \in Nat /\ M[i].opening <= top
    OBVIOUS
  <2>1. M[i] \in ModuleMessage
    OBVIOUS
  <2>2. M[i].opening <= top
    BY DEF Fit, Old
  <2> QED
    BY <2>1, <2>2 DEF ModuleMessage, Opened, Object, Close, Closed
<1>3. Safe(H, R, B, F)
  <2>1. /\ \A i \in 1 .. Len(H) : H[i].opening # m.opening
        /\ \A i \in 1 .. Len(M) : M[i].opening # m.opening
    BY <1>1, <1>2
  <2> QED
    BY <2>1, <1>1, GrantSafe DEF Fit
<1>4. missing = 0 => Whole(H, R, B, F)
  <2>1. Len(M) + 1 \in 1 .. Len(R) /\ R[Len(M) + 1] = m
    BY PushFacts
  <2>2. missing = 0 => Whole(H, R, B, E)
    BY PushWhole DEF Fit
  <2> HIDE DEF R
  <2> QED
    BY <2>1, <2>2, ExtendWhole
<1>5. Old(H, R, F, top + 1)
  <2>1. \A i \in 1 .. Len(H) : H[i].opening <= top + 1
    BY <1>1
  <2>2. \A i \in 1 .. Len(M) : M[i].opening <= top + 1
    BY <1>2
  <2>3. m.opening <= top + 1
    OBVIOUS
  <2>4. \A i \in 1 .. Len(R) : R[i].opening <= top + 1
    BY <2>2, <2>3, PushOld
  <2>5. \A n \in DOMAIN F : F[n].opening <= top + 1
    <3>1. \A n \in DOMAIN E : F[n].opening \in Nat /\ F[n].opening <= top
      BY DEF Fit, Old
    <3>2. \A n \in DOMAIN E : F[n].opening <= top + 1
      BY <3>1
    <3> QED
      BY <3>2
  <2> QED
    BY <2>1, <2>4, <2>5 DEF Old
<1> QED
  BY <1>3, <1>4, <1>5 DEF Fit

(* The host reads the end of a session and frees it.                        *)
LEMMA FitFree ==
    ASSUME NEW S, NEW H \in Seq(S), H # << >>, NEW M, NEW B, NEW E, NEW F, NEW top,
           NEW missing, NEW n \in DOMAIN E,
           Fit(H, M, B, E, top, missing),
           n # 0, Ends(Head(H), n, E[n].opening),
           Head(H).tag = "close" =>
              \E i \in 1 .. Len(M) : M[i].tag = "closed" /\ M[i].number = n,
           DOMAIN F = DOMAIN E \ {n}, \A x \in DOMAIN F : F[x] = E[x]
    PROVE  Fit(Tail(H), M, B, F, top, missing)
<1>1. Safe(Tail(H), M, B, F)
  <2>1. Safe(H, M, B, E)
    BY DEF Fit
  <2>2. Safe(Tail(H), M, B, E)
    BY <2>1, PopHostSafe
  <2>3. /\ ~Joined(B, n)
        /\ \A i \in 1 .. Len(M) : Grants(M[i]) => M[i].number # n
        /\ \A k \in 1 .. Len(Tail(H)) :
              Tail(H)[k].number = n => Tail(H)[k].tag \notin {"object", "close"}
    BY <2>1, EndFacts
  <2> QED
    BY <2>2, <2>3, ForgetSafe
<1>2. missing = 0 => Whole(Tail(H), M, B, F)
  <2>1. Head(H).number = n
    BY DEF Ends
  <2>2. \A x \in DOMAIN F :
           /\ x \in DOMAIN E
           /\ F[x].opening = E[x].opening
           /\ F[x].state = "Closing" => E[x].state = "Closing"
           /\ ~Ends(Head(H), x, F[x].opening)
           /\ F[x].state = "Closing" =>
                 ~(Current(Head(H), "closed", F) /\ Head(H).number = x)
    BY <2>1 DEF Ends
  <2> QED
    BY <2>1, <2>2, PopHostWhole DEF Fit
<1>3. Old(Tail(H), M, F, top)
  BY PopOld DEF Fit, Old
<1> QED
  BY <1>1, <1>2, <1>3 DEF Fit

(* The host reads that the module denied the close it asked for.            *)
LEMMA FitDenied ==
    ASSUME NEW S, NEW H \in Seq(S), H # << >>, NEW M, NEW B, NEW E, NEW F, NEW top,
           NEW missing, NEW n \in DOMAIN E,
           Fit(H, M, B, E, top, missing),
           Head(H).tag = "closed", Head(H).what = "Denied", Head(H).number = n,
           E[n].state = "Closing",
           DOMAIN F = DOMAIN E, \A x \in DOMAIN E \ {n} : F[x] = E[x],
           F[n].opening = E[n].opening, F[n].state = "Active"
    PROVE  Fit(Tail(H), M, B, F, top, missing)
<1>1. Safe(H, M, B, E)
  BY DEF Fit
<1>2. Current(Head(H), "closed", E)
  BY <1>1, HeadFacts DEF Current
<1>3. Safe(Tail(H), M, B, F)
  <2>1. /\ 1 \in 1 .. Len(H) /\ H[1] = Head(H)
        /\ \A i \in 1 .. Len(Tail(H)) :
              i + 1 \in 1 .. Len(H) /\ i + 1 # 1 /\ Tail(H)[i] = H[i + 1]
    BY PopFacts
  <2>2. /\ \A i, j \in 1 .. Len(H) :
              Current(H[i], "closed", E) /\ Current(H[j], "closed", E)
                /\ H[i].number = H[j].number => i = j
        /\ \A i \in 1 .. Len(M), j \in 1 .. Len(H) :
              ~(Current(M[i], "close", E) /\ Current(H[j], "closed", E)
                /\ M[i].number = H[j].number)
    BY <1>1 DEF Safe, OneRequest
  <2>3. \A i \in 1 .. Len(M) : M[i].tag = "close" /\ M[i].number = n =>
           M[i].opening # E[n].opening
    BY <2>1, <2>2, <1>2 DEF Current
  <2>4. \A i \in 1 .. Len(H) :
           i # 1 /\ H[i].tag = "closed" /\ H[i].number = n => E[n].opening # H[i].opening
    BY <2>1, <2>2, <1>2 DEF Current
  <2>5. \A i \in 1 .. Len(Tail(H)) :
           Tail(H)[i].tag = "closed" /\ Tail(H)[i].number = n =>
              E[n].opening # Tail(H)[i].opening
    BY <2>1, <2>4
  <2>6. \A i \in 1 .. Len(M) : Grants(M[i]) => M[i].number # n
    BY <1>1, <1>2, HeadFacts
  <2>7. Safe(Tail(H), M, B, E)
    BY <1>1, PopHostSafe
  <2> QED
    BY <2>3, <2>5, <2>6, <2>7, SetStateSafe
<1>4. missing = 0 => Whole(Tail(H), M, B, F)
  <2>1. \A x \in DOMAIN F :
           /\ x \in DOMAIN E
           /\ F[x].opening = E[x].opening
           /\ F[x].state = "Closing" => E[x].state = "Closing"
           /\ ~Ends(Head(H), x, F[x].opening)
           /\ F[x].state = "Closing" =>
                 ~(Current(Head(H), "closed", F) /\ Head(H).number = x)
    BY DEF Ends
  <2> QED
    BY <2>1, PopHostWhole DEF Fit
<1>5. Old(Tail(H), M, F, top)
  BY PopOld DEF Fit, Old
<1> QED
  BY <1>3, <1>4, <1>5 DEF Fit

(* The host reads an object that makes it close the session it came on.     *)
LEMMA FitRequest ==
    ASSUME NEW S, NEW H \in Seq(S), H # << >>, NEW T, NEW M \in Seq(T), NEW B, NEW E,
           NEW F, NEW top, NEW missing, NEW n \in DOMAIN E, NEW m,
           Fit(H, M, B, E, top, missing),
           n # 0, Head(H).tag = "object", Head(H).number = n,
           E[n].state = "Active",
           DOMAIN F = DOMAIN E, \A x \in DOMAIN E \ {n} : F[x] = E[x],
           F[n].opening = E[n].opening, F[n].state = "Closing",
           m.tag = "close", m.number = n, m.opening = E[n].opening
    PROVE  Fit(Tail(H), Append(M, m), B, F, top, missing)
<1> DEFINE R == Tail(H)
<1>1. Safe(H, M, B, E)
  BY DEF Fit
<1>2. Fit(R, M, B, E, top, missing)
  BY FitRead
<1>3. \A i \in 1 .. Len(M) : Grants(M[i]) => M[i].number # n
  BY <1>1, HeadFacts
<1>4. \A k \in 1 .. Len(R) : ~(R[k].tag = "closed" /\ R[k].number = n)
  <2>1. ASSUME NEW k \in 1 .. Len(H), H[k].tag = "closed", H[k].number = n
        PROVE  FALSE
    <3>1. E[n].opening = H[k].opening
      BY <1>1, <2>1, HeadFacts
    <3>2. E[n].opening = H[k].opening <=> E[n].state = "Closing"
      BY <1>1, <2>1 DEF Safe, Responding
    <3> QED
      BY <3>1, <3>2
  <2>2. \A k \in 1 .. Len(R) : k + 1 \in 1 .. Len(H) /\ R[k] = H[k + 1]
    BY PopFacts
  <2> QED
    BY <2>1, <2>2
<1>5. R \in Seq(S)
  OBVIOUS
<1> HIDE DEF R
<1>6. \A i \in 1 .. Len(M) : M[i].tag = "close" /\ M[i].number = n =>
         M[i].opening # E[n].opening
  <2> SUFFICES ASSUME NEW i \in 1 .. Len(M), M[i].tag = "close", M[i].number = n
               PROVE  M[i].opening # E[n].opening
    OBVIOUS
  <2> QED
    BY <1>1 DEF Safe, Requested, Earlier, Present
<1>11. \A i \in 1 .. Len(M) : M[i].tag \in {"object", "close"} /\ M[i].number = n =>
          M[i].opening = E[n].opening
  <2>1. 1 \in 1 .. Len(H) /\ H[1] = Head(H)
    BY PopFacts
  <2>2. ~Unheard(H, B, E, n)
    BY <2>1 DEF Unheard
  <2> QED
    BY <2>2, <1>1 DEF Safe, Requested, Earlier, Present
<1>7. Safe(R, M, B, F)
  BY <1>2, <1>3, <1>4, <1>11, SetStateSafe DEF Fit
<1>8. Safe(R, Append(M, m), B, F)
  <2>1. \A i \in 1 .. Len(M) : ~(Current(M[i], "close", F) /\ M[i].number = m.number)
    BY <1>6 DEF Current
  <2>2. \A i \in 1 .. Len(R) : ~(Current(R[i], "closed", F) /\ R[i].number = m.number)
    BY <1>4 DEF Current
  <2>3. ~Grants(m)
    BY DEF Grants
  <2> QED
    BY <2>1, <2>2, <2>3, <1>7, PushModuleSafe
<1>9. missing = 0 => Whole(R, Append(M, m), B, F)
  <2> DEFINE L == Append(M, m)
  <2>1. Len(M) + 1 \in 1 .. Len(L) /\ L[Len(M) + 1] = m
    BY PushFacts
  <2>2. missing = 0 => Whole(R, L, B, E)
    BY <1>2, <1>5, PushWhole DEF Fit
  <2>3. Current(m, "close", E)
    BY DEF Current
  <2> HIDE DEF L
  <2>4. /\ \A x \in DOMAIN E : F[x].opening = E[x].opening
        /\ \A x \in DOMAIN E : x # n /\ F[x].state = "Closing" => E[x].state = "Closing"
    OBVIOUS
  <2>5. missing = 0 => Whole(R, L, B, F)
    BY <2>1, <2>2, <2>3, <2>4, CloserWhole
  <2> QED
    BY <2>5 DEF L
<1>10. Old(R, Append(M, m), F, top)
  <2>1. m.opening <= top
    BY DEF Fit, Old
  <2> QED
    BY <2>1, <1>2, PushOld DEF Fit, Old
<1> QED
  BY <1>8, <1>9, <1>10 DEF Fit, R

(* The module asks for a session, sends an object, or names no session.     *)
LEMMA FitTell ==
    ASSUME NEW S, NEW H \in Seq(S), NEW T, NEW M \in Seq(T), NEW B, NEW E, NEW top,
           NEW missing, NEW m,
           Fit(H, M, B, E, top, missing), 0 \notin DOMAIN E, m.opening <= top,
           \/ m.number = 0 /\ m.tag # "closed"
           \/ /\ m.tag = "object"
              /\ \E e \in B : ~e.closing /\ m.number = e.number /\ m.opening = e.opening
    PROVE  Fit(Append(H, m), M, B, E, top, missing)
<1>1. Safe(H, M, B, E)
  BY DEF Fit
<1>2. CASE m.number = 0 /\ m.tag # "closed"
  <2>1. Safe(Append(H, m), M, B, E)
    BY <1>1, <1>2, PushHostSafe
  <2> QED
    BY <2>1, PushWhole, PushOld DEF Fit, Old
<1>3. ASSUME m.tag = "object",
             NEW e \in B, ~e.closing, m.number = e.number, m.opening = e.opening
      PROVE  Fit(Append(H, m), M, B, E, top, missing)
  <2>1. /\ e.number \in DOMAIN E
        /\ E[e.number].opening = e.opening
        /\ \A k \in 1 .. Len(H) : ~Ends(H[k], e.number, e.opening)
    BY <1>1, <1>3 DEF Safe, Joins
  <2>2. Joined(B, e.number)
    BY <1>3 DEF Joined
  <2>3. \A i \in 1 .. Len(M) : Grants(M[i]) => M[i].number # e.number
    BY <1>1, <2>2 DEF Safe, Announced
  <2>5. \A i \in 1 .. Len(M) : M[i].tag \in {"object", "close"} /\ M[i].number = e.number =>
           M[i].opening = e.opening
    BY <1>1, <2>1, <2>2 DEF Safe, Requested, Earlier, Unheard, Present
  <2>4. Safe(Append(H, m), M, B, E)
    BY <1>1, <1>3, <2>1, <2>3, <2>5, PushHostSafe
  <2> QED
    BY <2>4, PushWhole, PushOld DEF Fit, Old
<1> QED
  BY <1>2, <1>3

(* The module asks the host to close a session it works with.               *)
LEMMA FitLeave ==
    ASSUME NEW S, NEW H \in Seq(S), NEW T, NEW M \in Seq(T), NEW B \in SUBSET Belief,
           NEW E, NEW top, NEW missing, NEW m, NEW e \in B,
           Fit(H, M, B, E, top, missing), 0 \notin DOMAIN E,
           ~e.closing,
           m.tag = "close", m.number = e.number, m.opening = e.opening
    PROVE  Fit(Append(H, m), M, (B \ {e}) \cup {[e EXCEPT !.closing = TRUE]}, E, top, missing)
<1> DEFINE gone == [e EXCEPT !.closing = TRUE]
           C == (B \ {e}) \cup {gone}
           R == Append(H, m)
<1>1. Safe(H, M, B, E)
  BY DEF Fit
<1>2. gone.closing /\ gone.number = e.number
  BY DEF Belief
<1>3. \A b \in B : ~b.closing =>
         /\ b.number \in DOMAIN E
         /\ E[b.number].opening = b.opening
         /\ \A k \in 1 .. Len(H) : ~Ends(H[k], b.number, b.opening)
  BY <1>1 DEF Safe, Joins
<1>4. \A b \in B : ~b.closing /\ b.number = e.number => b = e
  BY <1>3 DEF Belief
<1>5. Joined(B, e.number)
  BY DEF Joined
<1>6. \A i \in 1 .. Len(M) : Grants(M[i]) => M[i].number # e.number
  BY <1>1, <1>5 DEF Safe, Announced
<1>14. \A i \in 1 .. Len(M) : M[i].tag \in {"object", "close"} /\ M[i].number = e.number =>
          M[i].opening = e.opening
  BY <1>1, <1>3, <1>5 DEF Safe, Requested, Earlier, Unheard, Present
<1> HIDE DEF gone
<1>7. ~Joined(C, e.number)
  BY <1>2, <1>4 DEF Joined
<1>8. \A x : x # e.number /\ Joined(B, x) => Joined(C, x)
  BY DEF Joined
<1>9. \A b \in C : ~b.closing => b \in B
  BY <1>2
<1>10. \A b \in C : b.closing => b \in B \/ b.number = e.number
  BY <1>2
<1> HIDE DEF C
<1>11. Safe(R, M, C, E)
  <2>1. Safe(H, M, C, E)
    BY <1>1, <1>9, FewerSafe
  <2> QED
    BY <2>1, <1>3, <1>6, <1>7, <1>14, PushHostSafe
<1>12. missing = 0 => Whole(R, M, C, E)
  <2>1. Len(H) + 1 \in 1 .. Len(R) /\ R[Len(H) + 1] = m
    BY PushFacts
  <2>2. missing = 0 => Whole(R, M, B, E)
    BY PushWhole DEF Fit
  <2> HIDE DEF R
  <2> QED
    BY <2>1, <2>2, <1>8, <1>10, LeaveWhole
<1>13. Old(R, M, E, top)
  <2>1. m.opening <= top
    BY <1>3 DEF Fit, Old
  <2> QED
    BY <2>1, PushOld DEF Fit, Old
<1> QED
  BY <1>11, <1>12, <1>13 DEF Fit, C, R, gone

(* The module reads what it need not answer, and joins or forgets.          *)
LEMMA FitTake ==
    ASSUME NEW S, NEW M \in Seq(S), M # << >>, NEW H, NEW B, NEW C, NEW E, NEW top,
           NEW missing,
           Fit(H, M, B, E, top, missing),
           Head(M).tag # "close",
           \A e \in C : ~e.closing =>
              \/ e \in B
              \/ /\ Grants(Head(M))
                 /\ e.number = Head(M).number /\ e.opening = Head(M).opening,
           Grants(Head(M)) => Joined(C, Head(M).number),
           \A n : Joined(B, n) => Joined(C, n),
           \A e \in C : e.closing =>
              e \in B /\ (Head(M).tag = "closed" => e.number # Head(M).number)
    PROVE  Fit(H, Tail(M), C, E, top, missing)
<1>1. Safe(H, Tail(M), C, E)
  BY PopModuleSafe DEF Fit
<1>2. ~Current(Head(M), "close", E)
  BY DEF Current
<1>3. missing = 0 => Whole(H, Tail(M), C, E)
  <2>1. \A k \in 1 .. Len(H) : \E i \in 1 .. Len(H) : H[i] = H[k]
    OBVIOUS
  <2> QED
    BY <2>1, <1>2, PopModuleWhole DEF Fit
<1>4. Old(H, Tail(M), E, top)
  BY PopOld DEF Fit, Old
<1> QED
  BY <1>1, <1>3, <1>4 DEF Fit

(* The first message on the way to the module, if it is a close request.    *)
LEMMA RequestFacts ==
    ASSUME NEW S, NEW M \in Seq(S), M # << >>, NEW H, NEW B, NEW E, Safe(H, M, B, E),
           Head(M).tag = "close", Head(M).number \in DOMAIN E
    PROVE  /\ Current(Head(M), "close", E) =>
                 /\ E[Head(M).number].state = "Closing"
                 /\ \A i \in 1 .. Len(M) : Grants(M[i]) => M[i].number # Head(M).number
           /\ Joined(B, Head(M).number) => Current(Head(M), "close", E)
<1>1. 1 \in 1 .. Len(M) /\ M[1] = Head(M)
  BY PopFacts
<1>2. \/ /\ M[1].opening = E[M[1].number].opening
         /\ E[M[1].number].state = "Closing"
      \/ /\ M[1].opening # E[M[1].number].opening
         /\ ~Joined(B, M[1].number)
  BY <1>1 DEF Safe, Requested, Earlier, Present, Unheard
<1>3. \A j \in 1 .. Len(M) : Grants(M[j]) =>
         E[M[j].number].state = "Active" /\ ~Joined(B, M[j].number)
  BY DEF Safe, Announced
<1> QED
  BY <1>1, <1>2, <1>3 DEF Current

(* The module answers the host's close request, and agrees if it does not
   deny: whatever it worked with under the number is gone.                  *)
LEMMA FitAnswer ==
    ASSUME NEW S, NEW H \in Seq(S), NEW T, NEW M \in Seq(T), M # << >>,
           NEW B, NEW C, NEW E, NEW top, NEW missing, NEW m,
           Fit(H, M, B, E, top, missing),
           Head(M).tag = "close",
           \A e \in C : e \in B,
           \A n : n # Head(M).number /\ Joined(B, n) => Joined(C, n),
           m.tag = "closed", m.number = Head(M).number, m.opening = Head(M).opening,
           \/ m.what = "Denied" /\ C = B
           \/ m.what # "Denied" /\ ~Joined(C, m.number)
    PROVE  Fit(Append(H, m), Tail(M), C, E, top, missing)
<1> DEFINE R == Append(H, m)
<1>1. Safe(H, M, B, E)
  BY DEF Fit
<1>2. Safe(R, Tail(M), C, E)
  BY <1>1, AnswerSafe
<1>3. missing = 0 => Whole(R, Tail(M), C, E)
  <2>1. /\ \A i \in 1 .. Len(H) : i \in 1 .. Len(R) /\ R[i] = H[i]
        /\ Len(H) + 1 \in 1 .. Len(R) /\ R[Len(H) + 1] = m
    BY PushFacts
  <2> HIDE DEF R
  <2>2. \A k \in 1 .. Len(H) : \E i \in 1 .. Len(R) : R[i] = H[k]
    BY <2>1
  <2>3. ~Grants(Head(M))
    BY DEF Grants
  <2>4. ASSUME NEW n \in DOMAIN E, Joined(B, n), ~Joined(C, n)
        PROVE  \E k \in 1 .. Len(R) : Ends(R[k], n, E[n].opening)
    <3>1. n = Head(M).number /\ m.what # "Denied"
      BY <2>4
    <3>2. Current(Head(M), "close", E)
      BY <1>1, <2>4, <3>1, RequestFacts
    <3>3. Ends(m, n, E[n].opening)
      BY <3>1, <3>2 DEF Ends, Current
    <3> QED
      BY <3>3, <2>1
  <2>5. Current(Head(M), "close", E) => Current(m, "closed", E)
    BY DEF Current
  <2>6. Current(Head(M), "close", E) =>
           \E k \in 1 .. Len(R) :
              /\ Current(R[k], "closed", E) \/ R[k].tag = "close"
              /\ R[k].number = Head(M).number
    BY <2>1, <2>5
  <2> QED
    BY <2>2, <2>3, <2>4, <2>6, PopModuleWhole DEF Fit
<1>4. Old(R, Tail(M), E, top)
  <2>1. m.opening <= top
    <3>1. 1 \in 1 .. Len(M) /\ M[1] = Head(M)
      BY PopFacts
    <3> QED
      BY <3>1 DEF Fit, Old
  <2> QED
    BY <2>1, PopOld, PushOld DEF Fit, Old
<1> QED
  BY <1>2, <1>3, <1>4 DEF Fit, R

(* The module has nothing to close, and says nothing: its own close request, or
   its answer to an earlier one, is still on its way.                       *)
LEMMA FitIgnore ==
    ASSUME NEW S, NEW M \in Seq(S), M # << >>, NEW H, NEW B, NEW E, NEW top, NEW missing,
           Fit(H, M, B, E, top, missing),
           Head(M).tag = "close", ~Joined(B, Head(M).number)
    PROVE  Fit(H, Tail(M), B, E, top, missing)
<1>1. Safe(H, M, B, E)
  BY DEF Fit
<1>2. Safe(H, Tail(M), B, E)
  BY <1>1, PopModuleSafe
<1>3. missing = 0 => Whole(H, Tail(M), B, E)
  <2> SUFFICES ASSUME Whole(H, M, B, E)
               PROVE  Whole(H, Tail(M), B, E)
    BY DEF Fit
  <2>1. \A k \in 1 .. Len(H) : \E i \in 1 .. Len(H) : H[i] = H[k]
    OBVIOUS
  <2>2. ASSUME Current(Head(M), "close", E)
        PROVE  \E k \in 1 .. Len(H) :
                  /\ Current(H[k], "closed", E) \/ H[k].tag = "close"
                  /\ H[k].number = Head(M).number
    <3> DEFINE n == Head(M).number
    <3>1. n \in DOMAIN E
      BY <2>2 DEF Current
    <3>2. \A i \in 1 .. Len(M) : Grants(M[i]) => M[i].number # n
      BY <1>1, <2>2, <3>1, RequestFacts
    <3>3. PICK k \in 1 .. Len(H) : Ends(H[k], n, E[n].opening)
      BY <3>1, <3>2 DEF Whole, Known
    <3> QED
      BY <3>1, <3>3 DEF Ends, Current
  <2>3. ~Grants(Head(M)) /\ Head(M).tag # "closed"
    BY DEF Grants
  <2> QED
    BY <2>1, <2>2, <2>3, PopModuleWhole
<1>4. Old(H, Tail(M), E, top)
  BY PopOld DEF Fit, Old
<1> QED
  BY <1>2, <1>3, <1>4 DEF Fit

(* A slot that starts afresh.                                               *)
LEMMA FitEmpty ==
    ASSUME NEW E, DOMAIN E = {}, NEW top, NEW missing
    PROVE  Fit(<< >>, << >>, {}, E, top, missing)
BY DEF Fit, Safe, Announced, Joins, Working, Responding, Requested, OneRequest, Whole,
       Known, Answering, Leaving, Old

(***************************************************************************)
(* The slots of the model.                                                  *)
(***************************************************************************)
Table(s) == [n \in InUse(s) |-> sessions[n]]
SlotFits(s) == Fit(toHost[s], toModule[s], modules[s], Table(s), openings, lost)
AllFit == \A s \in Slots : SlotFits(s)

(* What is old stays so, and what is missing stays missing.                 *)
LEMMA FitLater ==
    ASSUME NEW H \in Seq(HostMessage), NEW M \in Seq(ModuleMessage), NEW B, NEW E,
           \A n \in DOMAIN E : E[n].opening \in Nat,
           NEW top \in Nat, NEW later \in Nat, top <= later,
           NEW missing, NEW more, more = 0 => missing = 0,
           Fit(H, M, B, E, top, missing)
    PROVE  Fit(H, M, B, E, later, more)
<1>1. ASSUME NEW i \in 1 .. Len(H)
      PROVE  H[i].opening <= later
  <2>1. H[i] \in HostMessage /\ H[i].opening <= top
    BY DEF Fit, Old
  <2>2. H[i].opening \in Nat
    BY <2>1 DEF HostMessage, Open, Object, Close, Closed
  <2> QED
    BY <2>1, <2>2
<1>2. ASSUME NEW i \in 1 .. Len(M)
      PROVE  M[i].opening <= later
  <2>1. M[i] \in ModuleMessage /\ M[i].opening <= top
    BY DEF Fit, Old
  <2>2. M[i].opening \in Nat
    BY <2>1 DEF ModuleMessage, Opened, Object, Close, Closed
  <2> QED
    BY <2>1, <2>2
<1>3. ASSUME NEW n \in DOMAIN E
      PROVE  E[n].opening <= later
  <2>1. E[n].opening <= top
    BY DEF Fit, Old
  <2> QED
    BY <2>1
<1>4. Old(H, M, E, later)
  BY <1>1, <1>2, <1>3 DEF Old
<1> QED
  BY <1>4 DEF Fit

LEMMA TableType ==
    ASSUME HostType, NEW s \in Slots
    PROVE  /\ DOMAIN Table(s) = InUse(s)
           /\ 0 \notin DOMAIN Table(s)
           /\ \A n \in DOMAIN Table(s) :
                 /\ Table(s)[n] = sessions[n]
                 /\ Table(s)[n].opening \in Nat
                 /\ Table(s)[n].state \in {"Active", "Closing"}
<1>1. DOMAIN Table(s) = InUse(s) /\ \A n \in InUse(s) : Table(s)[n] = sessions[n]
  BY DEF Table
<1>2. \A n \in InUse(s) : sessions[n] \in Session
  BY EntryOf
<1>3. 0 \notin InUse(s)
  BY DEF HostType, InUse, Live
<1> QED
  BY <1>1, <1>2, <1>3 DEF Session

LEMMA SetStateTable ==
    ASSUME HostType, NEW s \in Slots, NEW n \in InUse(s), NEW state \in {"Active", "Closing"},
           SetState(n, state)
    PROVE  /\ \A u \in Slots \ {s} : Table(u)' = Table(u)
           /\ DOMAIN Table(s)' = DOMAIN Table(s)
           /\ \A x \in DOMAIN Table(s) \ {n} : Table(s)'[x] = Table(s)[x]
           /\ Table(s)'[n].opening = Table(s)[n].opening
           /\ Table(s)'[n].state = state
           /\ \A m \in Live : m \in Live' /\ sessions'[m].opening = sessions[m].opening
<1>1. n \in Live /\ sessions[n] \in Session /\ sessions[n].slot = s
  BY EntryOf DEF InUse
<1>2. /\ DOMAIN sessions' = DOMAIN sessions
      /\ \A m \in DOMAIN sessions :
            /\ sessions'[m] = None <=> sessions[m] = None
            /\ sessions[m] # None => sessions'[m].slot = sessions[m].slot
  BY <1>1, SetStateType
<1>3. Live' = Live
  BY <1>2 DEF Live
<1>4. \A u \in Slots : InUse(u)' = InUse(u)
  BY <1>2, <1>3 DEF InUse, Live
<1>5. n \in DOMAIN sessions /\ sessions' = [sessions EXCEPT ![n] = [sessions[n] EXCEPT !.state = state]]
  BY <1>1 DEF SetState, Live
<1>6. /\ \A m \in DOMAIN sessions \ {n} : sessions'[m] = sessions[m]
      /\ sessions'[n] = [sessions[n] EXCEPT !.state = state]
  BY <1>5
<1>7. sessions'[n].opening = sessions[n].opening /\ sessions'[n].state = state
  BY <1>1, <1>6 DEF Session
<1>8. \A u \in Slots \ {s} : n \notin InUse(u)
  BY <1>1 DEF InUse
<1>9. \A u \in Slots : InUse(u) \subseteq DOMAIN sessions
  BY DEF InUse, Live
<1>10. \A u \in Slots \ {s} : Table(u)' = Table(u)
  BY <1>4, <1>6, <1>8, <1>9 DEF Table
<1>11. /\ DOMAIN Table(s)' = DOMAIN Table(s)
       /\ \A x \in DOMAIN Table(s) \ {n} : Table(s)'[x] = Table(s)[x]
       /\ Table(s)'[n] = sessions'[n] /\ Table(s)[n] = sessions[n]
  BY <1>4, <1>6, <1>9 DEF Table
<1>12. \A m \in Live : m \in Live' /\ sessions'[m].opening = sessions[m].opening
  BY <1>3, <1>6, <1>7 DEF Live
<1> QED
  BY <1>7, <1>10, <1>11, <1>12

LEMMA FreedTable ==
    ASSUME HostType, NEW s \in Slots, NEW n \in InUse(s), Freed({n})
    PROVE  /\ \A u \in Slots \ {s} : Table(u)' = Table(u)
           /\ DOMAIN Table(s)' = DOMAIN Table(s) \ {n}
           /\ \A x \in DOMAIN Table(s)' : Table(s)'[x] = Table(s)[x]
<1>1. Live' = Live \ {n} /\ \A m \in Live' : sessions'[m] = sessions[m]
  BY FreedType
<1>2. \A u \in Slots : InUse(u)' = InUse(u) \ {n}
  BY <1>1 DEF InUse
<1>3. \A u \in Slots \ {s} : n \notin InUse(u)
  BY DEF InUse
<1>4. \A u \in Slots : \A x \in InUse(u) \ {n} : sessions'[x] = sessions[x]
  BY <1>1 DEF InUse
<1> QED
  BY <1>2, <1>3, <1>4 DEF Table

LEMMA GrantedTable ==
    ASSUME HostType, NEW s \in Slots, NEW entry \in Session, entry.slot = s,
           sessions' = Allocated(NextNumber, entry)
    PROVE  /\ \A u \in Slots \ {s} : Table(u)' = Table(u)
           /\ NextNumber \notin DOMAIN Table(s) /\ NextNumber # 0
           /\ DOMAIN Table(s)' = DOMAIN Table(s) \cup {NextNumber}
           /\ \A x \in DOMAIN Table(s) : Table(s)'[x] = Table(s)[x]
           /\ Table(s)'[NextNumber] = entry
<1> DEFINE n == NextNumber
<1>1. n \in 1 .. Len(sessions) + 1 /\ n \notin Live
  BY NextIsVacant DEF HostType
<1>2. /\ Live' = Live \cup {n}
      /\ sessions'[n] = entry
      /\ \A m \in Live : sessions'[m] = sessions[m]
  BY GrantedType
<1> HIDE DEF n
<1>3. n # 0
  BY <1>1
<1>4. InUse(s)' = InUse(s) \cup {n} /\ \A u \in Slots \ {s} : InUse(u)' = InUse(u)
  BY <1>1, <1>2 DEF InUse
<1>5. \A u \in Slots : n \notin InUse(u) /\ InUse(u) \subseteq Live
  BY <1>1 DEF InUse
<1>6. /\ \A u \in Slots \ {s} : Table(u)' = Table(u)
      /\ DOMAIN Table(s)' = DOMAIN Table(s) \cup {n}
      /\ \A x \in DOMAIN Table(s) : Table(s)'[x] = Table(s)[x]
      /\ Table(s)'[n] = entry /\ n \notin DOMAIN Table(s)
  BY <1>2, <1>4, <1>5 DEF Table
<1> QED
  BY <1>3, <1>6 DEF n

(* A step of one slot: the others notice nothing.                           *)
LEMMA OthersFit ==
    ASSUME Inv, Inv', AllFit, NEW s \in Slots,
           Fit(toHost'[s], toModule'[s], modules'[s], Table(s)', openings', lost'),
           \A u \in Slots \ {s} :
              /\ toHost'[u] = toHost[u] /\ toModule'[u] = toModule[u]
              /\ modules'[u] = modules[u] /\ Table(u)' = Table(u),
           openings <= openings', lost' = 0 => lost = 0
    PROVE  AllFit'
<1>1. ASSUME NEW u \in Slots \ {s}
      PROVE  Fit(toHost'[u], toModule'[u], modules'[u], Table(u)', openings', lost')
  <2>1. Fit(toHost[u], toModule[u], modules[u], Table(u), openings, lost)
    BY DEF AllFit, SlotFits
  <2>2. toHost[u] \in Seq(HostMessage) /\ toModule[u] \in Seq(ModuleMessage)
    BY DEF Inv, WireType
  <2>3. openings \in Nat /\ openings' \in Nat
    BY DEF Inv, WireType
  <2>4. \A n \in DOMAIN Table(u) : Table(u)[n].opening \in Nat
    BY TableType DEF Inv
  <2>5. Fit(toHost[u], toModule[u], modules[u], Table(u), openings', lost')
    BY <2>1, <2>2, <2>3, <2>4, FitLater
  <2> QED
    BY <2>5
<1>2. \A u \in Slots : Fit(toHost'[u], toModule'[u], modules'[u], Table(u)', openings', lost')
  BY <1>1
<1> QED
  BY <1>2 DEF AllFit, SlotFits

LEMMA StepFits ==
    ASSUME Inv, Inv', AllFit, NEW s \in Slots, UNCHANGED <<openings, lost>>,
           NEW H, NEW M, NEW B, NEW E,
           toHost'[s] = H, toModule'[s] = M, modules'[s] = B, Table(s)' = E,
           Fit(H, M, B, E, openings, lost),
           \A u \in Slots \ {s} : toHost'[u] = toHost[u],
           \A u \in Slots \ {s} : toModule'[u] = toModule[u],
           \A u \in Slots \ {s} : modules'[u] = modules[u],
           \A u \in Slots \ {s} : Table(u)' = Table(u)
    PROVE  AllFit'
<1>1. openings <= openings'
  BY DEF Inv, WireType
<1> QED
  BY <1>1, OthersFit

LEMMA TableKept ==
    ASSUME UNCHANGED sessions
    PROVE  \A u \in Slots : Table(u)' = Table(u)
BY DEF Table, InUse, Live

LEMMA ReadFacts ==
    ASSUME WireType, NEW s \in Slots, NEW tag, Read(s, tag)
    PROVE  /\ toHost[s] \in Seq(HostMessage) /\ toHost[s] # << >>
           /\ Arrived(s) = Head(toHost[s]) /\ Arrived(s).tag = tag
           /\ Arrived(s) \in HostMessage
           /\ toHost'[s] = Tail(toHost[s])
           /\ \A u \in Slots \ {s} : toHost'[u] = toHost[u]
<1>1. Arrived(s) \in HostMessage
  BY ReadType DEF WireType
<1> QED
  BY <1>1 DEF WireType, Read, Arrived

LEMMA SendFacts ==
    ASSUME WireType, NEW s \in Slots, NEW m \in ModuleMessage, Send(s, m)
    PROVE  /\ toModule[s] \in Seq(ModuleMessage)
           /\ toModule'[s] = Append(toModule[s], m)
           /\ \A u \in Slots \ {s} : toModule'[u] = toModule[u]
BY DEF WireType, Send

(* What a callback sends, all of it or with one message of the slot dropped. *)
LEMMA AnswersFacts ==
    ASSUME WireType, NEW s \in Slots, NEW q \in Seq(ModuleMessage),
           NEW r \in Seq(ModuleMessage), Answers(s, q, r),
           NEW H, NEW B, NEW E, NEW top, Fit(H, q \o r, B, E, top, lost)
    PROVE  /\ Fit(H, toModule'[s], B, E, top, lost')
           /\ \A u \in Slots \ {s} : toModule'[u] = toModule[u]
           /\ lost' = 0 => lost = 0
<1> DEFINE all == q \o r
<1>1. all \in Seq(ModuleMessage)
  BY ConcatType
<1>2. Fit(H, all, B, E, top, lost)
  OBVIOUS
<1>3. lost \in Nat
  BY SessionsAssumption DEF WireType
<1> HIDE DEF all
<1>4. CASE toModule' = [toModule EXCEPT ![s] = all] /\ UNCHANGED lost
  BY <1>2, <1>4 DEF WireType
<1>5. CASE Swallows(s, all)
  <2>1. PICK i \in 1 .. Len(all) : toModule' = [toModule EXCEPT ![s] = Without(all, i)]
    BY <1>5 DEF Swallows
  <2>2. lost' = lost + 1
    BY <1>5 DEF Swallows
  <2>3. Fit(H, Without(all, i), B, E, top, lost + 1)
    BY <1>1, <1>2, <1>3, FitDrop
  <2>4. /\ toModule'[s] = Without(all, i)
        /\ \A u \in Slots \ {s} : toModule'[u] = toModule[u]
    BY <2>1 DEF WireType
  <2>5. lost' # 0
    BY <1>3, <2>2
  <2> QED
    BY <2>2, <2>3, <2>4, <2>5
<1> QED
  BY <1>4, <1>5 DEF Answers, all

LEMMA DeliverFacts ==
    ASSUME WireType, NEW s \in Slots, NEW m, Deliver(s, m)
    PROVE  /\ toHost[s] \in Seq(HostMessage)
           /\ toHost'[s] = Append(toHost[s], m)
           /\ \A u \in Slots \ {s} : toHost'[u] = toHost[u]
BY DEF WireType, Deliver

(* The chains of the MMI resource stay those of the sessions they began in.  *)
LEMMA ChainsKept ==
    ASSUME ChainsBelong,
           \A f \in fragments' : f \in fragments,
           \A f \in fragments' : f.number \in Live =>
              f.number \in Live' /\ sessions'[f.number].opening = sessions[f.number].opening
    PROVE  ChainsBelong'
BY DEF ChainsBelong

LEMMA FreedChains ==
    ASSUME HostType, ChainsBelong, NEW numbers, Freed(numbers)
    PROVE  ChainsBelong'
<1>1. Live' = Live \ numbers /\ \A m \in Live' : sessions'[m] = sessions[m]
  BY FreedType
<1>2. fragments' = {f \in fragments : f.number \notin numbers}
  BY DEF Freed
<1> QED
  BY <1>1, <1>2, ChainsKept

(* The host reads a message.                                                *)
LEMMA HandleFits ==
    ASSUME Inv, Inv', AllFit, ChainsBelong, NEW s \in Slots, Handle(s)
    PROVE  AllFit' /\ ChainsBelong'
<1> DEFINE H == toHost[s]
           M == toModule[s]
           B == modules[s]
           E == Table(s)
           h == Arrived(s)
<1>1. HostType /\ WireType
  BY DEF Inv
<1>2. Fit(H, M, B, E, openings, lost)
  BY DEF AllFit, SlotFits
<1>3. /\ DOMAIN E = InUse(s) /\ 0 \notin DOMAIN E
      /\ \A n \in DOMAIN E : /\ E[n] = sessions[n] /\ E[n].opening \in Nat
                             /\ E[n].state \in {"Active", "Closing"}
      /\ \A n \in DOMAIN E : E[n].opening <= openings
  BY <1>1, <1>2, TableType DEF Fit, Old
<1>4. ASSUME NEW tag, Read(s, tag)
      PROVE  /\ H \in Seq(HostMessage) /\ H # << >>
             /\ h = Head(H) /\ h.tag = tag /\ h \in HostMessage
             /\ toHost'[s] = Tail(H)
             /\ \A u \in Slots \ {s} : toHost'[u] = toHost[u]
  BY <1>1, <1>4, ReadFacts
<1>5. M \in Seq(ModuleMessage) /\ openings \in Nat /\ lost \in Nat
  BY <1>1, SessionsAssumption DEF WireType
<1>6. h.tag = "object" /\ h = Head(H) /\ H \in Seq(HostMessage) /\ H # << >> =>
         Fit(Tail(H), M, B, E, openings, lost)
  BY <1>2, FitRead
<1>7. CASE OpenGranted(s)
  <2> DEFINE r == h.what
             n == NextNumber
             g == openings + 1
             entry == [slot |-> s, resource |-> r, state |-> "Active", opening |-> g]
             m == Spdu("opened", n, g, "Ok")
             F == Table(s)'
  <2>1. /\ Read(s, "open")
        /\ r # "Unknown"
        /\ sessions' = Allocated(NextNumber, entry)
        /\ openings' = g
        /\ UNCHANGED <<fragments, modules>>
    BY <1>7 DEF OpenGranted
  <2>2. r \in Resource \ {"Unknown"} /\ g \in Nat /\ openings <= g
    BY <1>4, <1>5, <2>1 DEF HostMessage, Open, Object, Close, Closed
  <2>3. entry \in Session /\ entry.slot = s /\ entry.opening = g /\ entry.state = "Active"
    BY <2>2 DEF Session
  <2>4. /\ \A u \in Slots \ {s} : Table(u)' = Table(u)
        /\ n \notin DOMAIN E /\ n # 0
        /\ DOMAIN F = DOMAIN E \cup {n}
        /\ \A x \in DOMAIN E : F[x] = E[x]
        /\ F[n] = entry
    BY <1>1, <2>1, <2>3, GrantedTable
  <2>5. Fit(Tail(H), M, B, E, openings, lost)
    BY <1>2, <1>4, <2>1, FitRead
  <2>6. Tail(H) \in Seq(HostMessage)
    BY <1>4, <2>1, HeadTailType
  <2>7. Grants(m) /\ m.number = n /\ m.opening = g
    BY DEF Grants, Spdu
  <2> HIDE DEF m, F, E, n, entry
  <2>8. Fit(Tail(H), Append(M, m), B, F, g, lost)
    <3>1. /\ m.number \notin DOMAIN E /\ m.number # 0 /\ m.opening = openings + 1
          /\ DOMAIN F = DOMAIN E \cup {m.number}
          /\ \A x \in DOMAIN E : F[x] = E[x]
          /\ F[m.number].opening = m.opening /\ F[m.number].state = "Active"
      BY <2>3, <2>4, <2>7
    <3>2. \A x \in DOMAIN E : E[x].opening \in Nat
      BY <1>3
    <3>3. Fit(Tail(H), Append(M, m), B, F, openings + 1, lost)
      BY <1>5, <2>5, <2>6, <2>7, <3>1, <3>2, FitGrant
    <3> QED
      BY <3>3
  <2>9. n \in Nat
    BY <1>1, <2>1, <2>3, GrantedType DEF n
  <2>10. m \in ModuleMessage
    BY <2>2, <2>9 DEF m, Spdu, ModuleMessage, Opened
  <2>11. Append(M, m) \in Seq(ModuleMessage)
    BY <1>5, <2>10
  <2>12. PICK first \in Welcome(r, n, g) : Answers(s, Append(M, m), first)
    BY <1>7 DEF OpenGranted, m, n
  <2>13. first \in Seq(ModuleMessage) /\ Fit(Tail(H), Append(M, m) \o first, B, F, g, lost)
    <3>1. CASE first = << >>
      <4>1. Append(M, m) \o << >> = Append(M, m)
        BY <2>11
      <4> QED
        BY <2>8, <3>1, <4>1
    <3>2. CASE first # << >>
      <4> DEFINE o == Spdu("object", n, g, "Object")
      <4>1. first = <<o>>
        BY <2>12, <3>2 DEF Welcome, MayAnswer
      <4>2. o \in ModuleMessage
        BY <2>2, <2>9 DEF Spdu, ModuleMessage, Object
      <4>3. /\ ~Grants(o) /\ o.tag = "object" /\ o.tag # "close"
            /\ o.opening = g /\ o.number = n
        BY DEF Grants, Spdu
      <4> HIDE DEF o
      <4>4. Append(M, m) \o first = Append(Append(M, m), o) /\ first \in Seq(ModuleMessage)
        BY <2>11, <4>1, <4>2
      <4>5. n \in DOMAIN F /\ F[n].opening = g /\ g <= g
        BY <2>2, <2>3, <2>4
      <4>6. Fit(Tail(H), Append(Append(M, m), o), B, F, g, lost)
        BY <2>6, <2>8, <2>11, <4>3, <4>5, FitSay
      <4> QED
        BY <4>4, <4>6
    <3> QED
      BY <3>1, <3>2
  <2>14. /\ Fit(Tail(H), toModule'[s], B, F, g, lost')
         /\ \A u \in Slots \ {s} : toModule'[u] = toModule[u]
         /\ lost' = 0 => lost = 0
    BY <1>1, <2>11, <2>12, <2>13, AnswersFacts
  <2>15. AllFit'
    <3>1. Fit(toHost'[s], toModule'[s], modules'[s], Table(s)', openings', lost')
      BY <1>4, <2>1, <2>14 DEF F
    <3> QED
      BY <1>4, <2>1, <2>2, <2>4, <2>14, <3>1, OthersFit
  <2>16. ChainsBelong'
    <3>1. Live' = Live \cup {n} /\ \A x \in Live : sessions'[x] = sessions[x]
      BY <1>1, <2>1, <2>3, GrantedType DEF n
    <3> QED
      BY <2>1, <3>1, ChainsKept
  <2> QED
    BY <2>15, <2>16
<1>8. CASE OpenRefused(s)
  <2> DEFINE m == Spdu("opened", 0, 0, "Refused")
  <2>1. Read(s, "open") /\ Send(s, m) /\ UNCHANGED <<hostVars, modules, openings, lost>>
    BY <1>8 DEF OpenRefused
  <2>2. /\ m \in ModuleMessage
        /\ ~Grants(m) /\ m.tag = "opened" /\ m.opening = 0
    BY DEF Spdu, ModuleMessage, Opened, Grants
  <2> HIDE DEF m
  <2>3. Fit(Tail(H), M, B, E, openings, lost)
    BY <1>2, <1>4, <2>1, FitRead
  <2>4. Fit(Tail(H), Append(M, m), B, E, openings, lost)
    <3>1. Tail(H) \in Seq(HostMessage) /\ m.opening <= openings
      BY <1>4, <1>5, <2>1, <2>2, HeadTailType
    <3> QED
      BY <1>5, <2>2, <2>3, <3>1, FitSay
  <2>5. /\ toModule'[s] = Append(M, m)
        /\ \A u \in Slots \ {s} : toModule'[u] = toModule[u]
    BY <1>1, <2>1, <2>2, SendFacts
  <2>6. \A u \in Slots : Table(u)' = Table(u)
    BY <2>1, TableKept DEF hostVars
  <2>7. AllFit'
    BY <1>4, <2>1, <2>4, <2>5, <2>6, StepFits
  <2> QED
    BY <2>1, <2>7 DEF ChainsBelong, hostVars, Live
<1>9. ASSUME ObjectUnknown(s) \/ CloseUnexpected(s) \/ MmiTaken(s)
      PROVE  AllFit' /\ ChainsBelong'
  <2>1. /\ Read(s, "object") \/ (Read(s, "closed") /\ ~IsClosing(s, h.number))
        /\ UNCHANGED <<sessions, toModule, modules, openings, lost>>
        /\ \A f \in fragments' : f \in fragments
    BY <1>9 DEF ObjectUnknown, CloseUnexpected, MmiTaken, ObjectKnown, hostVars
  <2>2. Fit(Tail(H), M, B, E, openings, lost)
    <3>1. CASE Read(s, "object")
      BY <1>4, <1>6, <3>1
    <3>2. CASE Read(s, "closed") /\ ~IsClosing(s, h.number)
      <4>1. h.number \in DOMAIN E => E[h.number].state # "Closing"
        BY <1>3, <3>2 DEF IsClosing
      <4> QED
        BY <1>2, <1>4, <3>2, <4>1, FitRead
    <3> QED
      BY <2>1, <3>1, <3>2
  <2>3. \A u \in Slots : Table(u)' = Table(u)
    BY <2>1, TableKept
  <2>4. AllFit'
    BY <1>4, <2>1, <2>2, <2>3, StepFits
  <2> QED
    BY <2>1, <2>4, ChainsKept DEF Live
<1>10. CASE ObjectAnswered(s)
  <2> DEFINE n == h.number
             g == sessions[n].opening
             o == Spdu("object", n, g, "Object")
  <2>1. /\ Read(s, "object")
        /\ n \in InUse(s)
        /\ UNCHANGED <<sessions, fragments, events, modules, openings>>
    BY <1>10 DEF ObjectAnswered, ObjectKnown
  <2>2. Fit(Tail(H), M, B, E, openings, lost)
    BY <1>4, <1>6, <2>1
  <2>3. \A u \in Slots : Table(u)' = Table(u)
    BY <2>1, TableKept
  <2>4. PICK answer \in MayAnswer(n, g) : Answers(s, M, answer)
    BY <1>10 DEF ObjectAnswered
  <2>5. answer \in Seq(ModuleMessage) /\ Fit(Tail(H), M \o answer, B, E, openings, lost)
    <3>1. CASE answer = << >>
      <4>1. M \o << >> = M
        BY <1>5
      <4> QED
        BY <2>2, <3>1, <4>1
    <3>2. CASE answer # << >>
      <4>1. answer = <<o>>
        BY <2>4, <3>2 DEF MayAnswer
      <4>2. n \in Nat /\ g \in Nat
        BY <1>1, <2>1, EntryOf DEF Session
      <4>3. o \in ModuleMessage
        BY <4>2 DEF Spdu, ModuleMessage, Object
      <4>4. /\ ~Grants(o) /\ o.tag = "object" /\ o.tag # "close"
            /\ o.opening = g /\ o.number = n
        BY DEF Grants, Spdu
      <4> HIDE DEF o
      <4>5. M \o answer = Append(M, o) /\ answer \in Seq(ModuleMessage)
        BY <1>5, <4>1, <4>3
      <4>6. n \in DOMAIN E /\ E[n].opening = g /\ g <= openings
        BY <1>3, <2>1
      <4>7. Tail(H) \in Seq(HostMessage)
        BY <1>4, <2>1, HeadTailType
      <4>8. Fit(Tail(H), Append(M, o), B, E, openings, lost)
        BY <1>5, <2>2, <4>4, <4>6, <4>7, FitSay
      <4> QED
        BY <4>5, <4>8
    <3> QED
      BY <3>1, <3>2
  <2>6. /\ Fit(Tail(H), toModule'[s], B, E, openings, lost')
        /\ \A u \in Slots \ {s} : toModule'[u] = toModule[u]
        /\ lost' = 0 => lost = 0
    BY <1>1, <1>5, <2>4, <2>5, AnswersFacts
  <2>7. AllFit'
    <3>1. Fit(toHost'[s], toModule'[s], modules'[s], Table(s)', openings', lost')
      BY <1>4, <2>1, <2>3, <2>6
    <3>2. openings <= openings'
      BY <1>5, <2>1
    <3> QED
      BY <1>4, <2>1, <2>3, <2>6, <3>1, <3>2, OthersFit
  <2> QED
    BY <2>1, <2>7 DEF ChainsBelong, Live
<1>11. CASE MmiMore(s)
  <2>1. /\ Read(s, "object")
        /\ h.number \in InUse(s)
        /\ UNCHANGED <<sessions, events, toModule, modules, openings, lost>>
        /\ fragments' = fragments \cup {[number |-> h.number, opening |-> h.opening]}
    BY <1>11 DEF MmiMore, ObjectKnown
  <2>2. Fit(Tail(H), M, B, E, openings, lost)
    BY <1>4, <1>6, <2>1
  <2>3. \A u \in Slots : Table(u)' = Table(u)
    BY <2>1, TableKept
  <2>4. AllFit'
    BY <1>4, <2>1, <2>2, <2>3, StepFits
  <2>5. Safe(H, M, B, E)
    BY <1>2 DEF Fit
  <2>6. h.number \in Live /\ h.number # 0
    BY <1>3, <2>1 DEF InUse
  <2>7. E[h.number].opening = h.opening
    BY <1>4, <2>1, <2>5, <2>6, HeadFacts
  <2>8. sessions[h.number].opening = h.opening
    BY <1>3, <2>1, <2>7
  <2> QED
    BY <2>1, <2>4, <2>6, <2>8 DEF ChainsBelong, Live
<1>12. CASE MmiClose(s)
  <2> DEFINE n == h.number
             m == Spdu("close", n, sessions[n].opening, "Ok")
             F == Table(s)'
  <2>1. /\ Read(s, "object")
        /\ n \in InUse(s)
        /\ UNCHANGED <<fragments, events, modules, openings, lost>>
    BY <1>12 DEF MmiClose, ObjectKnown
  <2>2. CASE sessions[n].state = "Active"
    <3>1. SetState(n, "Closing") /\ Send(s, m)
      BY <1>12, <2>2 DEF MmiClose
    <3>2. n \in Nat /\ sessions[n].opening \in Nat
      BY <1>1, <2>1, EntryOf DEF Session
    <3>3. /\ m \in ModuleMessage /\ m.tag = "close" /\ m.number = n
          /\ m.opening = sessions[n].opening
      BY <3>2 DEF Spdu, ModuleMessage, Close
    <3>4. /\ \A u \in Slots \ {s} : Table(u)' = Table(u)
          /\ DOMAIN F = DOMAIN E
          /\ \A x \in DOMAIN E \ {n} : F[x] = E[x]
          /\ F[n].opening = E[n].opening
          /\ F[n].state = "Closing"
          /\ \A x \in Live : x \in Live' /\ sessions'[x].opening = sessions[x].opening
      BY <1>1, <2>1, <3>1, SetStateTable
    <3> HIDE DEF m, F, E
    <3>5. /\ toModule'[s] = Append(M, m)
          /\ \A u \in Slots \ {s} : toModule'[u] = toModule[u]
      BY <1>1, <3>1, <3>3, SendFacts
    <3>6. n \in DOMAIN E /\ n # 0 /\ E[n].state = "Active" /\ E[n].opening = sessions[n].opening
      BY <1>3, <2>1, <2>2
    <3>7. /\ H \in Seq(HostMessage) /\ H # << >> /\ Head(H).tag = "object" /\ Head(H).number = n
          /\ toHost'[s] = Tail(H)
          /\ \A u \in Slots \ {s} : toHost'[u] = toHost[u]
      BY <1>4, <2>1
    <3>8. Fit(Tail(H), Append(M, m), B, F, openings, lost)
      BY <1>2, <1>5, <3>3, <3>4, <3>6, <3>7, FitRequest
    <3>9. AllFit'
      BY <2>1, <3>4, <3>5, <3>7, <3>8, StepFits DEF F
    <3> QED
      BY <2>1, <3>4, <3>9, ChainsKept
  <2>3. CASE sessions[n].state # "Active"
    <3>1. UNCHANGED <<sessions, toModule>>
      BY <1>12, <2>3 DEF MmiClose
    <3>2. Fit(Tail(H), M, B, E, openings, lost)
      BY <1>4, <1>6, <2>1
    <3>3. \A u \in Slots : Table(u)' = Table(u)
      BY <3>1, TableKept
    <3>4. AllFit'
      BY <1>4, <2>1, <3>1, <3>2, <3>3, StepFits
    <3> QED
      BY <2>1, <3>1, <3>4 DEF ChainsBelong, Live
  <2> QED
    BY <2>2, <2>3
<1>13. CASE CloseKnown(s)
  <2> DEFINE n == h.number
             m == Spdu("closed", n, h.opening, "Ok")
             F == Table(s)'
             L == Append(M, m)
  <2>1. /\ Read(s, "close") /\ n \in InUse(s)
        /\ Send(s, m) /\ Freed({n})
        /\ UNCHANGED <<modules, openings, lost>>
    BY <1>13 DEF CloseKnown
  <2>2. /\ m \in ModuleMessage /\ m.tag = "closed" /\ m.number = n /\ m.opening = h.opening
        /\ ~Grants(m)
    BY <1>4, <2>1 DEF Spdu, HostMessage, ModuleMessage, Open, Object, Close, Closed, Grants
  <2>3. /\ \A u \in Slots \ {s} : Table(u)' = Table(u)
        /\ DOMAIN F = DOMAIN E \ {n}
        /\ \A x \in DOMAIN F : F[x] = E[x]
    BY <1>1, <2>1, FreedTable
  <2> HIDE DEF m, F, E
  <2>4. L \in Seq(ModuleMessage) /\ \E i \in 1 .. Len(L) : L[i] = m
    <3>1. Len(M) + 1 \in 1 .. Len(L) /\ L[Len(M) + 1] = m
      BY <1>5, PushFacts
    <3>2. L \in Seq(ModuleMessage)
      BY <1>5, <2>2
    <3> QED
      BY <3>1, <3>2
  <2>5. n \in DOMAIN E /\ n # 0
    BY <1>3, <2>1
  <2>6. h.opening = E[n].opening /\ h.opening <= openings
    <3>1. Safe(H, M, B, E)
      BY <1>2 DEF Fit
    <3>2. E[n].opening = h.opening
      BY <1>4, <2>1, <2>5, <3>1, HeadFacts
    <3> QED
      BY <1>3, <2>5, <3>2
  <2>7. Fit(H, L, B, E, openings, lost)
    BY <1>2, <1>4, <1>5, <2>1, <2>2, <2>6, FitSay
  <2>8. Ends(Head(H), n, E[n].opening)
    BY <1>4, <2>1 DEF Ends
  <2> HIDE DEF L
  <2>9. Fit(Tail(H), L, B, F, openings, lost)
    BY <1>4, <2>1, <2>2, <2>3, <2>4, <2>5, <2>7, <2>8, FitFree
  <2>10. /\ toModule'[s] = L
         /\ \A u \in Slots \ {s} : toModule'[u] = toModule[u]
    BY <1>1, <2>1, <2>2, SendFacts DEF L
  <2>11. AllFit'
    BY <1>4, <2>1, <2>3, <2>9, <2>10, StepFits DEF F
  <2> QED
    BY <1>1, <2>1, <2>11, FreedChains
<1>14. CASE CloseUnknown(s)
  <2> DEFINE n == h.number
             m == Spdu("closed", n, h.opening, "NotAllocated")
             L == Append(M, m)
  <2>1. /\ Read(s, "close") /\ n \notin InUse(s)
        /\ Send(s, m)
        /\ UNCHANGED <<hostVars, modules, openings, lost>>
    BY <1>14 DEF CloseUnknown
  <2>2. /\ m \in ModuleMessage /\ m.tag = "closed" /\ m.number = n /\ m.opening = h.opening
        /\ ~Grants(m)
    BY <1>4, <2>1 DEF Spdu, HostMessage, ModuleMessage, Open, Object, Close, Closed, Grants
  <2> HIDE DEF m
  <2>3. h.opening <= openings
    <3>1. 1 \in 1 .. Len(H) /\ H[1] = h
      BY <1>4, <2>1, PopFacts
    <3> QED
      BY <1>2, <3>1 DEF Fit, Old
  <2>4. Fit(H, L, B, E, openings, lost)
    BY <1>2, <1>4, <1>5, <2>1, <2>2, <2>3, FitSay
  <2>5. L \in Seq(ModuleMessage) /\ \E i \in 1 .. Len(L) : L[i] = m
    <3>1. Len(M) + 1 \in 1 .. Len(L) /\ L[Len(M) + 1] = m
      BY <1>5, PushFacts
    <3>2. L \in Seq(ModuleMessage)
      BY <1>5, <2>2
    <3> QED
      BY <3>1, <3>2
  <2> HIDE DEF L
  <2>6. Fit(Tail(H), L, B, E, openings, lost)
    BY <1>3, <1>4, <2>1, <2>2, <2>4, <2>5, FitRead
  <2>7. /\ toModule'[s] = L
        /\ \A u \in Slots \ {s} : toModule'[u] = toModule[u]
    BY <1>1, <2>1, <2>2, SendFacts DEF L
  <2>8. \A u \in Slots : Table(u)' = Table(u)
    BY <2>1, TableKept DEF hostVars
  <2>9. AllFit'
    BY <1>4, <2>1, <2>6, <2>7, <2>8, StepFits
  <2> QED
    BY <2>1, <2>9 DEF ChainsBelong, hostVars, Live
<1>15. CASE CloseComplete(s)
  <2> DEFINE n == h.number
             F == Table(s)'
  <2>1. /\ Read(s, "closed") /\ IsClosing(s, n) /\ h.what \in {"Ok", "NotAllocated"}
        /\ Freed({n})
        /\ UNCHANGED <<toModule, modules, openings, lost>>
    BY <1>15 DEF CloseComplete
  <2>2. n \in DOMAIN E /\ n # 0 /\ E[n].state = "Closing"
    BY <1>3, <2>1 DEF IsClosing
  <2>3. /\ \A u \in Slots \ {s} : Table(u)' = Table(u)
        /\ DOMAIN F = DOMAIN E \ {n}
        /\ \A x \in DOMAIN F : F[x] = E[x]
    BY <1>1, <2>1, FreedTable DEF IsClosing
  <2> HIDE DEF F, E
  <2>4. Ends(Head(H), n, E[n].opening)
    <3>1. Safe(H, M, B, E)
      BY <1>2 DEF Fit
    <3>2. E[n].opening = h.opening
      BY <1>4, <2>1, <2>2, <3>1, HeadFacts
    <3> QED
      BY <1>4, <2>1, <3>2 DEF Ends
  <2>5. Fit(Tail(H), M, B, F, openings, lost)
    BY <1>2, <1>4, <2>1, <2>2, <2>3, <2>4, FitFree
  <2>6. AllFit'
    BY <1>4, <2>1, <2>3, <2>5, StepFits DEF F
  <2> QED
    BY <1>1, <2>1, <2>6, FreedChains
<1>16. CASE CloseDenied(s)
  <2> DEFINE n == h.number
             F == Table(s)'
  <2>1. /\ Read(s, "closed") /\ IsClosing(s, n) /\ h.what = "Denied"
        /\ SetState(n, "Active")
        /\ UNCHANGED <<fragments, toModule, modules, openings, lost>>
    BY <1>16 DEF CloseDenied
  <2>2. n \in DOMAIN E /\ n # 0 /\ E[n].state = "Closing"
    BY <1>3, <2>1 DEF IsClosing
  <2>3. /\ \A u \in Slots \ {s} : Table(u)' = Table(u)
        /\ DOMAIN F = DOMAIN E
        /\ \A x \in DOMAIN E \ {n} : F[x] = E[x]
        /\ F[n].opening = E[n].opening
        /\ F[n].state = "Active"
        /\ \A x \in Live : x \in Live' /\ sessions'[x].opening = sessions[x].opening
    BY <1>1, <2>1, SetStateTable DEF IsClosing
  <2> HIDE DEF F, E
  <2>4. Fit(Tail(H), M, B, F, openings, lost)
    BY <1>2, <1>4, <2>1, <2>2, <2>3, FitDenied
  <2>5. AllFit'
    BY <1>4, <2>1, <2>3, <2>4, StepFits DEF F
  <2> QED
    BY <2>1, <2>3, <2>5, ChainsKept
<1> QED
  BY <1>7, <1>8, <1>9, <1>10, <1>11, <1>12, <1>13, <1>14, <1>15, <1>16 DEF Handle

(* Slots are dropped, on both sides at once.                                *)
LEMMA DroppedFits ==
    ASSUME Inv, Inv', AllFit, ChainsBelong, NEW gone \in SUBSET Slots, Dropped(gone)
    PROVE  AllFit' /\ ChainsBelong'
<1> DEFINE numbers == UNION {InUse(s) : s \in gone}
<1>1. HostType /\ Freed(numbers)
  BY DEF Inv, Dropped
<1>2. Live' = Live \ numbers /\ \A m \in Live' : sessions'[m] = sessions[m]
  BY <1>1, FreedType
<1>3. \A u \in Slots : InUse(u)' = InUse(u) \ numbers
  BY <1>2 DEF InUse
<1>4. \A u \in Slots \ gone : \A n \in InUse(u) : n \notin numbers
  BY DEF InUse
<1>5. ASSUME NEW u \in Slots
      PROVE  Fit(toHost'[u], toModule'[u], modules'[u], Table(u)', openings', lost')
  <2>1. CASE u \in gone
    <3>1. toHost'[u] = << >> /\ toModule'[u] = << >> /\ modules'[u] = {}
      BY <2>1 DEF Dropped
    <3>2. InUse(u)' = {}
      BY <1>3, <2>1
    <3>3. DOMAIN Table(u)' = {}
      BY <3>2 DEF Table
    <3> QED
      BY <3>1, <3>3, FitEmpty
  <2>2. CASE u \notin gone
    <3>1. /\ toHost'[u] = toHost[u] /\ toModule'[u] = toModule[u] /\ modules'[u] = modules[u]
          /\ openings' = openings /\ lost' = lost
      BY <2>2 DEF Dropped
    <3>2. InUse(u)' = InUse(u)
      BY <1>3, <1>4, <2>2
    <3>3. \A n \in InUse(u) : sessions'[n] = sessions[n]
      BY <1>2, <3>2 DEF InUse
    <3>4. Table(u)' = Table(u)
      BY <3>2, <3>3 DEF Table
    <3> QED
      BY <3>1, <3>4 DEF AllFit, SlotFits
  <2> QED
    BY <2>1, <2>2
<1>6. AllFit'
  BY <1>5 DEF AllFit, SlotFits
<1> QED
  BY <1>1, <1>6, FreedChains

(* The module reads a message.                                              *)
LEMMA ModuleFits ==
    ASSUME Inv, Inv', AllFit, NEW s \in Slots, ModuleTakes(s)
    PROVE  AllFit'
<1> DEFINE H == toHost[s]
           M == toModule[s]
           B == modules[s]
           E == Table(s)
           h == Told(s)
           Response(status) == Spdu("closed", h.number, h.opening, status)
<1>1. WireType
  BY DEF Inv
<1>2. Fit(H, M, B, E, openings, lost)
  BY DEF AllFit, SlotFits
<1>3. /\ H \in Seq(HostMessage) /\ M \in Seq(ModuleMessage) /\ M # << >> /\ h = Head(M)
      /\ B \in SUBSET Belief
      /\ toModule'[s] = Tail(M)
      /\ \A u \in Slots \ {s} : toModule'[u] = toModule[u]
      /\ UNCHANGED <<sessions, openings, lost>>
  BY <1>1 DEF ModuleTakes, TakesOpened, TakesClosed, TakesObject, AgreesToClose, DeniesClose,
              HasNothingToClose, ModuleReads, Told, hostVars, WireType
<1>4. \A u \in Slots : Table(u)' = Table(u)
  BY <1>3, TableKept
<1>5. ASSUME NEW G, toHost'[s] = G, \A u \in Slots \ {s} : toHost'[u] = toHost[u],
             NEW C, modules'[s] = C, \A u \in Slots \ {s} : modules'[u] = modules[u],
             Fit(G, Tail(M), C, E, openings, lost)
      PROVE  AllFit'
  BY <1>3, <1>4, <1>5, StepFits
<1>6. ASSUME NEW status, Reply(s, status)
      PROVE  /\ toHost'[s] = Append(H, Response(status))
             /\ \A u \in Slots \ {s} : toHost'[u] = toHost[u]
             /\ Response(status).tag = "closed" /\ Response(status).number = h.number
             /\ Response(status).opening = h.opening /\ Response(status).what = status
  BY <1>1, <1>6, DeliverFacts DEF Reply, Spdu
<1>7. CASE TakesOpened(s)
  <2> DEFINE new == [number |-> h.number, opening |-> h.opening, closing |-> FALSE]
             C == {e \in B : e.number # h.number} \cup {new}
  <2>1. h.tag = "opened" /\ UNCHANGED toHost
    BY <1>7 DEF TakesOpened, ModuleReads
  <2>2. CASE h.what # "Ok"
    <3>1. UNCHANGED modules
      BY <1>7, <2>2 DEF TakesOpened
    <3>2. ~Grants(h)
      BY <2>2 DEF Grants
    <3>3. Fit(H, Tail(M), B, E, openings, lost)
      BY <1>2, <1>3, <2>1, <3>2, FitTake
    <3> QED
      BY <1>5, <2>1, <3>1, <3>3
  <2>3. CASE h.what = "Ok"
    <3>1. modules'[s] = C /\ \A u \in Slots \ {s} : modules'[u] = modules[u]
      BY <1>1, <1>7, <2>3 DEF TakesOpened, WireType
    <3>2. Grants(h)
      BY <2>1, <2>3 DEF Grants
    <3>3. /\ new.number = h.number /\ new.opening = h.opening /\ ~new.closing
          /\ \A e \in C : e \in B \/ e = new
          /\ \A e \in B : e.number # h.number => e \in C
          /\ new \in C
      OBVIOUS
    <3> HIDE DEF new, C
    <3>4. Joined(C, h.number)
      BY <3>3 DEF Joined
    <3>5. \A n : Joined(B, n) => Joined(C, n)
      BY <3>3, <3>4 DEF Joined
    <3>6. \A e \in C : /\ ~e.closing => e \in B \/ (e.number = h.number /\ e.opening = h.opening)
                       /\ e.closing => e \in B
      BY <3>3
    <3>7. Fit(H, Tail(M), C, E, openings, lost)
      BY <1>2, <1>3, <2>1, <3>2, <3>4, <3>5, <3>6, FitTake
    <3> QED
      BY <1>5, <2>1, <3>1, <3>7
  <2> QED
    BY <2>2, <2>3
<1>8. CASE TakesClosed(s)
  <2> DEFINE C == {e \in B : ~(e.closing /\ e.number = h.number)}
  <2>1. h.tag = "closed" /\ UNCHANGED toHost
    BY <1>8 DEF TakesClosed, ModuleReads
  <2>2. modules'[s] = C /\ \A u \in Slots \ {s} : modules'[u] = modules[u]
    BY <1>1, <1>8 DEF TakesClosed, WireType
  <2>3. \A e \in C : e \in B /\ (e.closing => e.number # h.number)
    OBVIOUS
  <2>4. \A n : Joined(B, n) => Joined(C, n)
    BY DEF Joined
  <2>5. ~Grants(h)
    BY <2>1 DEF Grants
  <2> HIDE DEF C
  <2>6. Fit(H, Tail(M), C, E, openings, lost)
    BY <1>2, <1>3, <2>1, <2>3, <2>4, <2>5, FitTake
  <2> QED
    BY <1>5, <2>1, <2>2, <2>6
<1>9. CASE TakesObject(s)
  <2>1. h.tag = "object" /\ UNCHANGED <<toHost, modules>>
    BY <1>9 DEF TakesObject, ModuleReads
  <2>2. ~Grants(h)
    BY <2>1 DEF Grants
  <2>3. Fit(H, Tail(M), B, E, openings, lost)
    BY <1>2, <1>3, <2>1, <2>2, FitTake
  <2> QED
    BY <1>5, <2>1, <2>3
<1>10. CASE AgreesToClose(s)
  <2> DEFINE C == B \ {e \in B : e.number = h.number /\ ~e.closing}
             m == Response("Ok")
  <2>1. h.tag = "close" /\ Reply(s, "Ok")
    BY <1>10 DEF AgreesToClose, ModuleReads
  <2>2. modules'[s] = C /\ \A u \in Slots \ {s} : modules'[u] = modules[u]
    BY <1>1, <1>10 DEF AgreesToClose, WireType
  <2>3. \A e \in C : e \in B
    OBVIOUS
  <2>4. ~Joined(C, h.number) /\ \A n : n # h.number /\ Joined(B, n) => Joined(C, n)
    BY DEF Joined
  <2>5. m.tag = "closed" /\ m.number = h.number /\ m.opening = h.opening /\ m.what # "Denied"
    BY <1>6, <2>1
  <2>6. toHost'[s] = Append(H, m) /\ \A u \in Slots \ {s} : toHost'[u] = toHost[u]
    BY <1>6, <2>1
  <2> HIDE DEF C, m
  <2>7. Fit(Append(H, m), Tail(M), C, E, openings, lost)
    BY <1>2, <1>3, <2>1, <2>3, <2>4, <2>5, FitAnswer
  <2> QED
    BY <1>5, <2>2, <2>6, <2>7
<1>11. CASE DeniesClose(s)
  <2> DEFINE m == Response("Denied")
  <2>1. h.tag = "close" /\ Reply(s, "Denied") /\ UNCHANGED modules
    BY <1>11 DEF DeniesClose, ModuleReads
  <2>2. m.tag = "closed" /\ m.number = h.number /\ m.opening = h.opening /\ m.what = "Denied"
    BY <1>6, <2>1
  <2>3. toHost'[s] = Append(H, m) /\ \A u \in Slots \ {s} : toHost'[u] = toHost[u]
    BY <1>6, <2>1
  <2> HIDE DEF m
  <2>4. Fit(Append(H, m), Tail(M), B, E, openings, lost)
    BY <1>2, <1>3, <2>1, <2>2, FitAnswer
  <2> QED
    BY <1>5, <2>1, <2>3, <2>4
<1>12. CASE HasNothingToClose(s)
  <2> DEFINE m == Response("NotAllocated")
  <2>1. /\ h.tag = "close" /\ UNCHANGED modules
        /\ Reply(s, "NotAllocated") \/ UNCHANGED toHost
        /\ \A e \in B : e.number = h.number => e.closing
    BY <1>12 DEF HasNothingToClose, ModuleReads
  <2>2. ~Joined(B, h.number)
    BY <2>1 DEF Joined
  <2>3. CASE Reply(s, "NotAllocated")
    <3>1. /\ m.tag = "closed" /\ m.number = h.number /\ m.opening = h.opening
          /\ m.what # "Denied"
      BY <1>6, <2>3
    <3>2. toHost'[s] = Append(H, m) /\ \A u \in Slots \ {s} : toHost'[u] = toHost[u]
      BY <1>6, <2>3
    <3> HIDE DEF m
    <3>3. Fit(Append(H, m), Tail(M), B, E, openings, lost)
      BY <1>2, <1>3, <2>1, <2>2, <3>1, FitAnswer
    <3> QED
      BY <1>5, <2>1, <3>2, <3>3
  <2>4. CASE UNCHANGED toHost
    <3>1. Fit(H, Tail(M), B, E, openings, lost)
      BY <1>2, <1>3, <2>1, <2>2, FitIgnore
    <3> QED
      BY <1>5, <2>1, <2>4, <3>1
  <2> QED
    BY <2>1, <2>3, <2>4
<1> QED
  BY <1>7, <1>8, <1>9, <1>10, <1>11, <1>12 DEF ModuleTakes

(* The other senders, and the line.                                         *)
LEMMA OutsideFits ==
    ASSUME Inv, Inv', AllFit, NEW s \in Slots,
           \/ Command(s)
           \/ \E r \in Resource : AskOpen(s, r)
           \/ \E what \in {"More", "Object", "CloseMmi"} : SendObject(s, what)
           \/ AskClose(s)
           \/ Stray(s)
           \/ Lose(s)
    PROVE  AllFit'
<1> DEFINE H == toHost[s]
           M == toModule[s]
           B == modules[s]
           E == Table(s)
<1>1. HostType /\ WireType
  BY DEF Inv
<1>2. Fit(H, M, B, E, openings, lost) /\ Safe(H, M, B, E)
  BY DEF AllFit, SlotFits, Fit
<1>3. /\ H \in Seq(HostMessage) /\ M \in Seq(ModuleMessage) /\ B \in SUBSET Belief
      /\ openings \in Nat /\ lost \in Nat
  BY <1>1, SessionsAssumption DEF WireType
<1>4. /\ DOMAIN E = InUse(s) /\ 0 \notin DOMAIN E
      /\ \A n \in DOMAIN E : E[n] = sessions[n] /\ E[n].opening <= openings
  BY <1>1, <1>2, TableType DEF Fit, Old
<1>5. UNCHANGED sessions
  BY DEF Command, AskOpen, SendObject, AskClose, Stray, Lose, hostVars
<1>6. \A u \in Slots : Table(u)' = Table(u)
  BY <1>5, TableKept
<1>7. CASE Command(s)
  <2>1. PICK n \in InUse(s) : Send(s, Spdu("object", n, sessions[n].opening, "Object"))
    BY <1>7 DEF Command
  <2> DEFINE m == Spdu("object", n, sessions[n].opening, "Object")
  <2>2. n \in Nat /\ sessions[n].opening \in Nat
    BY <1>1, <2>1, EntryOf DEF Session
  <2>3. /\ m \in ModuleMessage /\ m.tag = "object" /\ m.number = n
        /\ m.opening = sessions[n].opening /\ ~Grants(m)
    BY <2>2 DEF Spdu, ModuleMessage, Object, Grants
  <2>4. Send(s, m)
    BY <2>1
  <2> HIDE DEF m
  <2>5. Fit(H, Append(M, m), B, E, openings, lost)
    BY <1>2, <1>3, <1>4, <2>1, <2>3, FitSay
  <2>6. toModule'[s] = Append(M, m) /\ \A u \in Slots \ {s} : toModule'[u] = toModule[u]
    BY <1>1, <2>3, <2>4, SendFacts
  <2>7. UNCHANGED <<toHost, modules, openings, lost>>
    BY <1>7 DEF Command
  <2> QED
    BY <1>6, <2>5, <2>6, <2>7, StepFits
<1>8. ASSUME NEW m, Deliver(s, m), m.opening <= openings,
             UNCHANGED <<toModule, modules, openings, lost>>,
             \/ m.number = 0 /\ m.tag # "closed"
             \/ /\ m.tag = "object"
                /\ \E e \in B : ~e.closing /\ m.number = e.number /\ m.opening = e.opening
      PROVE  AllFit'
  <2>1. Fit(Append(H, m), M, B, E, openings, lost)
    BY <1>2, <1>3, <1>4, <1>8, FitTell
  <2>2. toHost'[s] = Append(H, m) /\ \A u \in Slots \ {s} : toHost'[u] = toHost[u]
    BY <1>1, <1>8, DeliverFacts
  <2> QED
    BY <1>6, <1>8, <2>1, <2>2, StepFits
<1>9. ASSUME NEW r \in Resource, AskOpen(s, r)
      PROVE  AllFit'
  <2> DEFINE m == Spdu("open", 0, 0, r)
  <2>1. m.number = 0 /\ m.tag # "closed" /\ m.opening <= openings
    BY <1>3 DEF Spdu
  <2>2. Deliver(s, m) /\ UNCHANGED <<toModule, modules, openings, lost>>
    BY <1>9 DEF AskOpen
  <2> HIDE DEF m
  <2> QED
    BY <1>8, <2>1, <2>2
<1>10. ASSUME NEW what \in {"More", "Object", "CloseMmi"}, SendObject(s, what)
      PROVE  AllFit'
  <2>1. PICK e \in B : ~e.closing /\ Deliver(s, Spdu("object", e.number, e.opening, what))
    BY <1>10 DEF SendObject
  <2> DEFINE m == Spdu("object", e.number, e.opening, what)
  <2>2. m.tag = "object" /\ m.number = e.number /\ m.opening = e.opening
    BY DEF Spdu
  <2>3. e.opening <= openings
    BY <1>2, <1>4, <2>1 DEF Safe, Joins
  <2>4. Deliver(s, m) /\ UNCHANGED <<toModule, modules, openings, lost>>
    BY <1>10, <2>1 DEF SendObject
  <2> HIDE DEF m
  <2> QED
    BY <1>8, <2>1, <2>2, <2>3, <2>4
<1>11. CASE AskClose(s)
  <2>1. PICK e \in B :
           /\ ~e.closing
           /\ modules' = [modules EXCEPT ![s] = (@ \ {e}) \cup {[e EXCEPT !.closing = TRUE]}]
           /\ Deliver(s, Spdu("close", e.number, e.opening, "Ok"))
    BY <1>11 DEF AskClose
  <2> DEFINE m == Spdu("close", e.number, e.opening, "Ok")
             C == (B \ {e}) \cup {[e EXCEPT !.closing = TRUE]}
  <2>2. m.tag = "close" /\ m.number = e.number /\ m.opening = e.opening
    BY DEF Spdu
  <2>3. modules'[s] = C /\ \A u \in Slots \ {s} : modules'[u] = modules[u]
    BY <1>1, <2>1 DEF WireType
  <2>4. Deliver(s, m)
    BY <2>1
  <2> HIDE DEF m
  <2>5. Fit(Append(H, m), M, C, E, openings, lost)
    BY <1>2, <1>3, <1>4, <2>1, <2>2, FitLeave
  <2>6. toHost'[s] = Append(H, m) /\ \A u \in Slots \ {s} : toHost'[u] = toHost[u]
    BY <1>1, <2>4, DeliverFacts
  <2>7. UNCHANGED <<toModule, openings, lost>>
    BY <1>11 DEF AskClose
  <2> HIDE DEF C
  <2> QED
    BY <1>6, <2>3, <2>5, <2>6, <2>7, StepFits
<1>12. CASE Stray(s)
  <2>1. PICK m \in NoSession : Deliver(s, m)
    BY <1>12 DEF Stray
  <2>2. m.number = 0 /\ m.tag # "closed" /\ m.opening <= openings
    BY <1>3, <2>1 DEF NoSession, Spdu
  <2>3. UNCHANGED <<toModule, modules, openings, lost>>
    BY <1>12 DEF Stray
  <2> QED
    BY <1>8, <2>1, <2>2, <2>3
<1>13. CASE Lose(s)
  <2>1. /\ H # << >> /\ toHost'[s] = Tail(H) /\ \A u \in Slots \ {s} : toHost'[u] = toHost[u]
        /\ lost' = lost + 1 /\ UNCHANGED <<toModule, modules, openings>>
    BY <1>1, <1>13 DEF Lose, WireType
  <2>2. Fit(Tail(H), M, B, E, openings, lost + 1)
    BY <1>2, <1>3, <2>1, FitLose
  <2>3. openings <= openings' /\ (lost' = 0 => lost = 0)
    BY <1>3, <2>1
  <2>4. Fit(toHost'[s], toModule'[s], modules'[s], Table(s)', openings', lost')
    BY <1>6, <2>1, <2>2
  <2> QED
    BY <1>6, <2>1, <2>3, <2>4, OthersFit
<1> QED
  BY <1>7, <1>9, <1>10, <1>11, <1>12, <1>13

LEMMA StepFit == Inv /\ Inv' /\ AllFit /\ ChainsBelong /\ [Next]_vars => AllFit' /\ ChainsBelong'
<1> SUFFICES ASSUME Inv, Inv', AllFit, ChainsBelong, [Next]_vars
             PROVE  AllFit' /\ ChainsBelong'
  OBVIOUS
<1>1. CASE RecoverAll
  BY <1>1, DroppedFits DEF RecoverAll
<1>2. ASSUME NEW s \in Slots, Handle(s)
      PROVE  AllFit' /\ ChainsBelong'
  BY <1>2, HandleFits
<1>3. ASSUME NEW s \in Slots, DropSlot(s)
      PROVE  AllFit' /\ ChainsBelong'
  <2>1. {s} \in SUBSET Slots
    OBVIOUS
  <2> QED
    BY <1>3, <2>1, DroppedFits DEF DropSlot
<1>4. ASSUME NEW s \in Slots,
             \/ Command(s)
             \/ \E r \in Resource : AskOpen(s, r)
             \/ \E what \in {"More", "Object", "CloseMmi"} : SendObject(s, what)
             \/ AskClose(s)
             \/ Stray(s)
             \/ Lose(s)
      PROVE  AllFit' /\ ChainsBelong'
  <2>1. UNCHANGED <<sessions, fragments>>
    BY <1>4 DEF Command, AskOpen, SendObject, AskClose, Stray, Lose, hostVars
  <2>2. AllFit'
    BY <1>4, OutsideFits
  <2> QED
    BY <2>1, <2>2 DEF ChainsBelong, Live
<1>5. ASSUME NEW s \in Slots, ModuleTakes(s)
      PROVE  AllFit' /\ ChainsBelong'
  <2>1. UNCHANGED <<sessions, fragments>>
    BY <1>5 DEF ModuleTakes, TakesOpened, TakesClosed, TakesObject, AgreesToClose, DeniesClose,
                HasNothingToClose, ModuleReads, hostVars
  <2>2. AllFit'
    BY <1>5, ModuleFits
  <2> QED
    BY <2>1, <2>2 DEF ChainsBelong, Live
<1>6. CASE UNCHANGED vars
  <2>1. \A u \in Slots : Table(u)' = Table(u)
    BY <1>6, TableKept DEF vars
  <2>2. \A u \in Slots : Fit(toHost'[u], toModule'[u], modules'[u], Table(u)', openings', lost')
    BY <1>6, <2>1 DEF vars, AllFit, SlotFits
  <2>3. AllFit'
    BY <2>2 DEF AllFit, SlotFits
  <2> QED
    BY <1>6, <2>3 DEF vars, ChainsBelong, Live
<1> QED
  BY <1>1, <1>2, <1>3, <1>4, <1>5, <1>6 DEF Next

LEMMA InitFit == Init => AllFit /\ ChainsBelong
<1> SUFFICES ASSUME Init
             PROVE  AllFit /\ ChainsBelong
  OBVIOUS
<1>1. \A s \in Slots : DOMAIN Table(s) = {}
  BY DEF Init, Table, InUse, Live
<1>2. AllFit
  BY <1>1, FitEmpty DEF Init, AllFit, SlotFits
<1> QED
  BY <1>2 DEF Init, ChainsBelong

LEMMA FitInvariant == Spec => [](Inv /\ AllFit /\ ChainsBelong)
<1>1. Inv /\ AllFit /\ ChainsBelong /\ [Next]_vars => (Inv /\ AllFit /\ ChainsBelong)'
  BY StepInv, StepFit
<1> QED
  BY InitInv, InitFit, <1>1, PTL DEF Spec

(* A number that is free is taken at once for the next session, and the SPDUs of
   the last one may still be on their way: none of them, and no chain of the MMI
   resource, ever counts for the successor (dispatch_apdu, free_session,
   close_session_complete), whatever is lost, denied, asked for by both sides at
   once or dropped.                                                         *)
THEOREM NumbersStayApart == Spec => []NumbersNeverCross
<1>1. Inv /\ AllFit /\ ChainsBelong => NumbersNeverCross
  <2> SUFFICES ASSUME Inv, AllFit, ChainsBelong
               PROVE  ObjectsReachTheirSession /\ ResponsesMatch
    BY DEF NumbersNeverCross
  <2> SUFFICES ASSUME NEW s \in Slots
               PROVE  /\ \A i \in DOMAIN toHost[s] :
                            toHost[s][i].tag = "object" /\ toHost[s][i].number \in InUse(s)
                              => toHost[s][i].opening = sessions[toHost[s][i].number].opening
                      /\ toModule[s] # << >> /\ Told(s).tag = "object" =>
                            \A e \in modules[s] :
                               e.number = Told(s).number /\ ~e.closing
                                 => e.opening = Told(s).opening
                      /\ toHost[s] # << >> /\ Arrived(s).tag = "closed"
                           /\ IsClosing(s, Arrived(s).number)
                         => sessions[Arrived(s).number].opening = Arrived(s).opening
    BY DEF ObjectsReachTheirSession, ResponsesMatch
  <2> DEFINE H == toHost[s]
             M == toModule[s]
             B == modules[s]
             E == Table(s)
  <2>1. /\ Safe(H, M, B, E)
        /\ H \in Seq(HostMessage) /\ M \in Seq(ModuleMessage)
        /\ DOMAIN E = InUse(s) /\ 0 \notin DOMAIN E
        /\ \A n \in DOMAIN E : E[n] = sessions[n]
    BY TableType DEF AllFit, SlotFits, Fit, Inv, WireType
  <2>2. \A i \in DOMAIN H : H[i].tag = "object" /\ H[i].number \in InUse(s)
           => H[i].opening = sessions[H[i].number].opening
    BY <2>1 DEF Safe, Working
  <2>3. ASSUME M # << >>, Head(M).tag = "object",
               NEW e \in B, e.number = Head(M).number, ~e.closing
        PROVE  e.opening = Head(M).opening
    <3>1. 1 \in 1 .. Len(M) /\ M[1] = Head(M)
      BY <2>1, <2>3, PopFacts
    <3>2. e.number \in DOMAIN E /\ E[e.number].opening = e.opening
      BY <2>1, <2>3 DEF Safe, Joins
    <3>3. Joined(B, e.number)
      BY <2>3 DEF Joined
    <3> QED
      BY <2>1, <2>3, <3>1, <3>2, <3>3 DEF Safe, Requested, Earlier, Unheard, Present
  <2>4. H # << >> /\ Head(H).tag = "closed" /\ IsClosing(s, Head(H).number)
           => sessions[Head(H).number].opening = Head(H).opening
    BY <2>1, HeadFacts DEF IsClosing
  <2> QED
    BY <2>2, <2>3, <2>4 DEF Told, Arrived
<1> QED
  BY <1>1, FitInvariant, PTL

(* What a module works with the host has, at every moment; and when nothing is on
   its way and nothing was lost, both have the same sessions and no close is left
   without its end (alloc_session, request_close, close_session).           *)
THEOREM BothSidesAgree == Spec => []SidesAgree
<1>1. Inv /\ AllFit => SidesAgree
  <2> SUFFICES ASSUME Inv, AllFit, NEW s \in Slots
               PROVE  /\ \A e \in modules[s] : ~e.closing =>
                            /\ e.number \in InUse(s)
                            /\ sessions[e.number].opening = e.opening
                      /\ (lost = 0 /\ toHost[s] = << >> /\ toModule[s] = << >>) =>
                            /\ modules[s] =
                                  {[number |-> n, opening |-> sessions[n].opening,
                                    closing |-> sessions[n].state = "Closing"] : n \in InUse(s)}
                            /\ \A n \in InUse(s) : sessions[n].state = "Active"
    BY DEF SidesAgree, SessionsExist, Agreement
  <2> DEFINE B == modules[s]
             E == Table(s)
  <2>1. /\ Fit(toHost[s], toModule[s], B, E, openings, lost)
        /\ B \in SUBSET Belief
    BY DEF AllFit, SlotFits, Inv, WireType
  <2>2. /\ DOMAIN E = InUse(s)
        /\ \A n \in DOMAIN E : E[n] = sessions[n] /\ E[n].state \in {"Active", "Closing"}
    BY TableType DEF Inv
  <2>3. \A e \in B : ~e.closing => e.number \in InUse(s) /\ sessions[e.number].opening = e.opening
    BY <2>1, <2>2 DEF Fit, Safe, Joins
  <2>4. ASSUME lost = 0, toHost[s] = << >>, toModule[s] = << >>
        PROVE  /\ B = {[number |-> n, opening |-> sessions[n].opening,
                        closing |-> sessions[n].state = "Closing"] : n \in InUse(s)}
               /\ \A n \in InUse(s) : sessions[n].state = "Active"
    <3>1. Whole(<< >>, << >>, B, E)
      BY <2>1, <2>4 DEF Fit
    <3>2. \A n \in InUse(s) : sessions[n].state = "Active"
      BY <2>2, <3>1 DEF Whole, Answering
    <3>3. \A e \in B : ~e.closing
      BY <3>1 DEF Whole, Leaving
    <3>4. \A n \in InUse(s) : \E e \in B : e.number = n
      BY <2>2, <3>1 DEF Whole, Known, Joined
    <3>5. ASSUME NEW e \in B
          PROVE  /\ e.number \in InUse(s)
                 /\ e = [number |-> e.number, opening |-> sessions[e.number].opening,
                         closing |-> sessions[e.number].state = "Closing"]
      <4>1. /\ e.number \in InUse(s) /\ sessions[e.number].opening = e.opening
            /\ e.closing = FALSE /\ (sessions[e.number].state = "Closing") = FALSE
        BY <2>1, <2>3, <3>2, <3>3 DEF Belief
      <4>2. e = [number |-> e.number, opening |-> e.opening, closing |-> e.closing]
        BY <2>1 DEF Belief
      <4> QED
        BY <4>1, <4>2
    <3> QED
      BY <3>2, <3>4, <3>5
  <2> QED
    BY <2>3, <2>4
<1> QED
  BY <1>1, FitInvariant, PTL
=============================================================================
