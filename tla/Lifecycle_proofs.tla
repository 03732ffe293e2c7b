--------------------------- MODULE Lifecycle_proofs ---------------------------
(***************************************************************************)
(* Proofs about Lifecycle, for any operations and closers.                 *)
(*                                                                         *)
(* The WaitGroup can be misused (an Add that races the drain of Close      *)
(* panics and leaves its count, a late release forgets counts), so its     *)
(* counter is not always the number of operations it should count.  What   *)
(* saves Close is that all of this can only start when nothing runs any    *)
(* more: DrainInv says that the counter is exact while the runtime is open *)
(* or an operation runs in it, and that whatever lets a closer go on comes *)
(* after the last of them.                                                 *)
(***************************************************************************)
EXTENDS Lifecycle, FiniteSetTheorems, TLAPS

\* Something that lets, or has let, the closer go on.
LettingGo ==
  \/ \E o \in Operations : pc[o] \in {"settle", "wake"}
  \/ tokens > 0
  \/ \E c \in Closers : cpc[c] \in {"awake", "clear"}
  \/ cleared

CountIsExact == counter = Cardinality(Counted)

ClosersClose ==
  /\ waiters # 0 => closed
  /\ \A c \in Closers : cpc[c] # "idle" => closed

DrainInv ==
  /\ TypeOK
  /\ ClosersClose
  /\ ~closed \/ Running # {} => CountIsExact
  /\ LettingGo => closed /\ Running = {}

-----------------------------------------------------------------------------
\* The operations that hold a count are finitely many, and those that run are
\* among them.
LEMMA CountedFinite ==
  /\ IsFiniteSet(Counted) /\ Cardinality(Counted) \in Nat
  /\ Running \subseteq Counted
  /\ Running # {} => Cardinality(Counted) # 0
<1>1. IsFiniteSet(Counted)
  BY LifecycleAssumption, FS_Subset DEF Counted
<1>2. Cardinality(Counted) \in Nat
  BY <1>1, FS_CardinalityType
<1>3. Running \subseteq Counted
  BY DEF Running, Counted
<1> QED BY <1>1, <1>2, <1>3, FS_EmptySet

\* An operation that comes into the count, or goes out of it.
LEMMA CountUp ==
  ASSUME NEW o \in Operations, o \notin Counted, Counted' = Counted \cup {o}
  PROVE  Cardinality(Counted') = Cardinality(Counted) + 1
BY CountedFinite, FS_AddElement

LEMMA CountDown ==
  ASSUME NEW o \in Operations, o \in Counted, Counted' = Counted \ {o}
  PROVE  Cardinality(Counted') = Cardinality(Counted) - 1
BY CountedFinite, FS_RemoveElement

-----------------------------------------------------------------------------
LEMMA InitDrain == Init => DrainInv
<1> SUFFICES ASSUME Init PROVE DrainInv
  OBVIOUS
<1>1. Counted = {} /\ Running = {}
  BY DEF Init, Counted, Running
<1>2. CountIsExact
  BY <1>1, FS_EmptySet DEF Init, GroupInit, CountIsExact
<1>3. TypeOK
  <2>1. counter \in Int /\ waiters \in Nat /\ tokens \in Nat
    BY DEF Init, GroupInit
  <2>2. closed \in BOOLEAN /\ cleared \in BOOLEAN /\ raced \in BOOLEAN
    BY DEF Init
  <2>3. pc \in [Operations -> OpSteps] /\ answer \in [Operations -> Answers]
    BY DEF Init, OpSteps, Answers
  <2>4. cpc \in [Closers -> CloserSteps] /\ closing \in [Closers -> {"none", "closed", "internal_error"}]
    BY DEF Init, CloserSteps
  <2> QED BY <2>1, <2>2, <2>3, <2>4 DEF TypeOK
<1>4. ClosersClose /\ ~LettingGo
  BY DEF Init, GroupInit, ClosersClose, LettingGo
<1> QED BY <1>2, <1>3, <1>4 DEF DrainInv

\* The steps of an operation.
LEMMA OperationKeepsDrain ==
  ASSUME DrainInv, NEW o \in Operations, Refuse(o) \/ Start(o) \/ OpStep(o)
  PROVE  DrainInv'
<1> USE DEF Goto, Say, groupVars, closerVars, opVars
<1>1. TypeOK
  BY DEF DrainInv
<1>2. ASSUME Refuse(o) \/ Start(o) PROVE DrainInv'
  <2>1. TypeOK' /\ ClosersClose' /\ (LettingGo' => LettingGo)
    BY <1>1, <1>2 DEF Refuse, Start, DrainInv, TypeOK, ClosersClose, LettingGo, OpSteps, Answers
  <2>2. Counted' = Counted /\ Running' = Running /\ counter' = counter /\ closed' = closed
    BY <1>1, <1>2 DEF Refuse, Start, TypeOK, Counted, Running
  <2> QED BY <2>1, <2>2 DEF DrainInv, CountIsExact
<1>3. ASSUME Enter(o) PROVE DrainInv'
  <2>1. TypeOK' /\ ClosersClose' /\ (LettingGo' => LettingGo)
    BY <1>1, <1>3 DEF Enter, AddOne, DrainInv, TypeOK, ClosersClose, LettingGo, OpSteps
  <2>2. o \notin Counted /\ Counted' = Counted \cup {o} /\ Running' = Running
    BY <1>1, <1>3 DEF Enter, TypeOK, Counted, Running
  <2>3. Cardinality(Counted') = Cardinality(Counted) + 1
    BY <2>2, CountUp
  <2> QED BY <1>3, <2>1, <2>2, <2>3 DEF Enter, AddOne, DrainInv, CountIsExact
<1>4. ASSUME EnterPanics(o) PROVE DrainInv'
  <2>1. TypeOK' /\ ClosersClose' /\ (LettingGo' => LettingGo)
    BY <1>1, <1>4 DEF EnterPanics, AddOnePanics, DrainInv, TypeOK, ClosersClose, LettingGo,
                      OpSteps, Answers
  <2>2. Counted' = Counted /\ Running' = Running
    BY <1>1, <1>4 DEF EnterPanics, TypeOK, Counted, Running
  <2>3. closed /\ Running = {}
    <3>1. counter < 0 \/ (waiters # 0 /\ counter = 0)
      BY <1>1, <1>4 DEF EnterPanics, AddOnePanics, Misused, TypeOK
    <3> QED BY <3>1, CountedFinite DEF DrainInv, CountIsExact, ClosersClose
  <2> QED BY <1>4, <2>1, <2>2, <2>3 DEF EnterPanics, DrainInv
<1>5. ASSUME Admit(o) PROVE DrainInv'
  <2>1. TypeOK' /\ ClosersClose' /\ (LettingGo' => LettingGo)
    BY <1>1, <1>5 DEF Admit, DrainInv, TypeOK, ClosersClose, LettingGo, OpSteps
  <2>2. Counted' = Counted /\ counter' = counter /\ ~closed
    BY <1>1, <1>5 DEF Admit, TypeOK, Counted
  <2> QED BY <2>1, <2>2 DEF DrainInv, CountIsExact
<1>6. ASSUME Decline(o) \/ Work(o) PROVE DrainInv'
  <2>1. TypeOK' /\ ClosersClose' /\ (LettingGo' => LettingGo)
    BY <1>1, <1>6 DEF Decline, Work, DrainInv, TypeOK, ClosersClose, LettingGo, OpSteps, Answers
  <2>2. Counted' = Counted /\ Running' = Running /\ counter' = counter /\ closed' = closed
    BY <1>1, <1>6 DEF Decline, Work, TypeOK, Counted, Running
  <2> QED BY <2>1, <2>2 DEF DrainInv, CountIsExact
<1>7. ASSUME Leave(o) \/ LeavePanics(o) \/ LeaveLast(o) PROVE DrainInv'
  <2>1. TypeOK' /\ ClosersClose'
    BY <1>1, <1>7 DEF Leave, LeavePanics, LeaveLast, DoneQuietly, DonePanics, DoneLast,
                      DrainInv, TypeOK, ClosersClose, OpSteps, Answers
  <2>2. /\ o \in Counted /\ Counted' = Counted \ {o}
        /\ Running' \subseteq Running
        /\ counter' = counter - 1 /\ closed' = closed
    BY <1>1, <1>7 DEF Leave, LeavePanics, LeaveLast, DoneQuietly, DonePanics, DoneLast,
                      TypeOK, Counted, Running
  <2>3. Cardinality(Counted') = Cardinality(Counted) - 1
    BY <2>2, CountDown
  <2>4. ~closed' \/ Running' # {} => CountIsExact'
    BY <2>2, <2>3 DEF DrainInv, CountIsExact
  <2>5. CASE LeaveLast(o)
    <3>1. closed /\ counter = 1
      BY <2>5 DEF LeaveLast, DoneLast, DrainInv, ClosersClose
    <3>2. Running' = {}
      <4>1. CASE Running = {}
        BY <4>1, <2>2
      <4>2. CASE Running # {}
        <5>1. Cardinality(Counted) = 1 /\ IsFiniteSet(Counted)
          BY <4>2, <3>1, CountedFinite DEF DrainInv, CountIsExact
        <5>2. Counted = {o}
          BY <5>1, <2>2, FS_Singleton
        <5> QED BY <5>2, <2>2, CountedFinite, <1>1, <2>5
                DEF LeaveLast, Running, Counted, TypeOK
      <4> QED BY <4>1, <4>2
    <3> QED BY <2>1, <2>2, <2>4, <3>1, <3>2 DEF DrainInv
  <2>6. CASE Leave(o) \/ LeavePanics(o)
    <3>1. LettingGo' => LettingGo
      BY <1>1, <2>6 DEF Leave, LeavePanics, DoneQuietly, DonePanics, LettingGo, TypeOK
    <3> QED BY <2>1, <2>2, <2>4, <3>1 DEF DrainInv
  <2> QED BY <1>7, <2>5, <2>6
<1>8. ASSUME Settle(o) \/ SettlePanics(o) \/ Wake(o) PROVE DrainInv'
  <2>1. TypeOK' /\ ClosersClose'
    BY <1>1, <1>8 DEF Settle, SettlePanics, Wake, Release, DrainInv, TypeOK, ClosersClose,
                      OpSteps, Answers
  <2>2. LettingGo /\ closed' = closed
    BY <1>8 DEF Settle, SettlePanics, Wake, LettingGo
  <2>3. Running' = Running
    BY <1>1, <1>8 DEF Settle, SettlePanics, Wake, TypeOK, Running
  <2> QED BY <2>1, <2>2, <2>3 DEF DrainInv
<1> QED BY <1>2, <1>3, <1>4, <1>5, <1>6, <1>7, <1>8 DEF OpStep

\* The steps of a closer.
LEMMA CloserKeepsDrain ==
  ASSUME DrainInv, NEW c \in Closers, CloseFirst(c) \/ CloseAgain(c) \/ CloseStep(c)
  PROVE  DrainInv'
<1> USE DEF CloserGoto, CloserSay, groupVars, closerVars, opVars
<1>1. TypeOK
  BY DEF DrainInv
<1>2. Counted' = Counted /\ Running' = Running
  BY DEF CloseFirst, CloseAgain, CloseStep, Drain, DrainSleeps, Awaken, Drained, DrainPanics,
         Clear, Counted, Running
<1>3. TypeOK' /\ ClosersClose' /\ counter' = counter
  <2>1. counter' = counter /\ waiters' \in Nat /\ tokens' \in Nat
    <3>1. CASE DrainSleeps(c) \/ Awaken(c)
      BY <1>1, <3>1 DEF DrainSleeps, Awaken, WaitSleeps, TakeToken, TypeOK
    <3>2. CASE UNCHANGED <<counter, waiters, tokens>>
      BY <1>1, <3>2 DEF TypeOK
    <3> QED BY <3>1, <3>2 DEF CloseFirst, CloseAgain, CloseStep, Drain, Drained, DrainPanics,
                              Clear, WaitPasses
  <2>2. closed' \in BOOLEAN /\ cleared' \in BOOLEAN
    BY <1>1 DEF CloseFirst, CloseAgain, CloseStep, Drain, DrainSleeps, Awaken, Drained,
                DrainPanics, Clear, TypeOK
  <2>3. raced' \in BOOLEAN
    BY <1>1, Zenon DEF CloseFirst, CloseAgain, CloseStep, Drain, DrainSleeps, Awaken, Drained,
                       DrainPanics, Clear, TypeOK
  <2>4. pc' = pc /\ answer' = answer
    BY DEF CloseFirst, CloseAgain, CloseStep, Drain, DrainSleeps, Awaken, Drained,
           DrainPanics, Clear
  <2>5. /\ cpc' \in [Closers -> CloserSteps]
        /\ closing' \in [Closers -> {"none", "closed", "internal_error"}]
    BY <1>1 DEF CloseFirst, CloseAgain, CloseStep, Drain, DrainSleeps, Awaken, Drained,
                DrainPanics, Clear, TypeOK, CloserSteps
  <2>6. TypeOK'
    BY <1>1, <2>1, <2>2, <2>3, <2>4, <2>5 DEF TypeOK
  <2>7. ClosersClose'
    BY <1>1 DEF CloseFirst, CloseAgain, CloseStep, Drain, DrainSleeps, Awaken, Drained,
                DrainPanics, Clear, WaitPasses, WaitSleeps, TakeToken, DrainInv, TypeOK,
                ClosersClose
  <2> QED BY <2>1, <2>6, <2>7
<1>4. closed => closed'
  BY DEF CloseFirst, CloseAgain, CloseStep, Drain, DrainSleeps, Awaken, Drained, DrainPanics, Clear
<1>5. ~closed' \/ Running' # {} => CountIsExact'
  BY <1>2, <1>3, <1>4 DEF DrainInv, CountIsExact
<1>6. CASE Drain(c)
  <2>1. closed /\ counter = 0
    BY <1>6 DEF Drain, WaitPasses, DrainInv, ClosersClose
  <2>2. Running = {}
    BY <2>1, CountedFinite DEF DrainInv, CountIsExact
  <2> QED BY <1>2, <1>3, <1>4, <1>5, <2>1, <2>2 DEF DrainInv
<1>7. CASE Awaken(c) \/ Drained(c) \/ DrainPanics(c) \/ Clear(c)
  <2>1. LettingGo
    BY <1>7 DEF Awaken, TakeToken, Drained, DrainPanics, Clear, LettingGo
  <2> QED BY <1>2, <1>3, <1>4, <1>5, <2>1 DEF DrainInv
<1>8. CASE CloseFirst(c) \/ CloseAgain(c) \/ DrainSleeps(c)
  <2>1. LettingGo' => LettingGo
    BY <1>1, <1>8 DEF CloseFirst, CloseAgain, DrainSleeps, WaitSleeps, LettingGo, TypeOK
  <2> QED BY <1>2, <1>3, <1>4, <1>5, <2>1 DEF DrainInv
<1> QED BY <1>6, <1>7, <1>8 DEF CloseStep

LEMMA DrainInvariant == Spec => []DrainInv
<1>1. DrainInv /\ [Next]_vars => DrainInv'
  <2> SUFFICES ASSUME DrainInv, [Next]_vars PROVE DrainInv'
    OBVIOUS
  <2>1. CASE UNCHANGED vars
    BY <2>1 DEF vars, DrainInv, TypeOK, ClosersClose, CountIsExact, LettingGo, Counted, Running
  <2>2. CASE Next
    BY <2>2, OperationKeepsDrain, CloserKeepsDrain DEF Next
  <2> QED BY <2>1, <2>2
<1> QED BY <1>1, InitDrain, PTL DEF Spec

-----------------------------------------------------------------------------
\* Every variable of the admission protocol keeps its type.
THEOREM TypeCorrect == Spec => []TypeOK
BY DrainInvariant, PTL DEF DrainInv

\* Close clears the prepared programs only after the last operation has left,
\* even in the runs where the WaitGroup panics.
THEOREM CloseDrains == Spec => []DrainedBeforeClear
<1>1. DrainInv => DrainedBeforeClear
  BY DEF DrainInv, LettingGo, DrainedBeforeClear
<1> QED BY <1>1, DrainInvariant, PTL

-----------------------------------------------------------------------------
\* Without the race the WaitGroup is used as documented: nobody is about to
\* add once the runtime is closed, the count is always exact, and the waiter is
\* released when there is nothing left to count.
NobodyCounted ==
  \/ \E o \in Operations : pc[o] \in {"settle", "wake"}
  \/ tokens > 0
  \/ \E c \in Closers : cpc[c] = "awake"

Released == tokens > 0 \/ \E c \in Closers : cpc[c] = "awake"

Orderly ==
  /\ CountIsExact
  /\ closed => \A o \in Operations : pc[o] # "enter"
  /\ NobodyCounted => Counted = {}
  /\ Released => waiters = 0
  /\ \A o \in Operations : answer[o] # "internal_error"
  /\ \A c \in Closers : closing[c] # "internal_error"

RaceInv ==
  /\ raced => closed
  /\ ~raced => Orderly

LEMMA InitRace == Init => RaceInv
<1> SUFFICES ASSUME Init PROVE Orderly /\ ~raced
  BY DEF RaceInv
<1>1. Counted = {} /\ CountIsExact
  BY FS_EmptySet DEF Init, GroupInit, Counted, CountIsExact
<1> QED BY <1>1 DEF Init, GroupInit, Orderly, NobodyCounted, Released

LEMMA OperationKeepsOrder ==
  ASSUME DrainInv, Orderly, NEW o \in Operations, Refuse(o) \/ Start(o) \/ OpStep(o)
  PROVE  Orderly'
<1> USE DEF Goto, Say, groupVars, closerVars, opVars
<1>1. TypeOK
  BY DEF DrainInv
<1>2. ASSUME Refuse(o) \/ Start(o) PROVE Orderly'
  <2>1. Counted' = Counted /\ counter' = counter /\ closed' = closed
    BY <1>1, <1>2 DEF Refuse, Start, TypeOK, Counted
  <2> QED BY <1>1, <1>2, <2>1
          DEF Refuse, Start, Orderly, TypeOK, CountIsExact, NobodyCounted, Released
<1>3. ASSUME Enter(o) PROVE Orderly'
  <2>1. ~closed
    BY <1>3 DEF Enter, Orderly
  <2>2. ~LettingGo /\ waiters = 0
    BY <2>1 DEF DrainInv, ClosersClose
  <2>3. ~NobodyCounted' /\ ~Released'
    BY <1>1, <1>3, <2>2 DEF Enter, AddOne, LettingGo, NobodyCounted, Released, TypeOK
  <2>4. o \notin Counted /\ Counted' = Counted \cup {o}
    BY <1>1, <1>3 DEF Enter, TypeOK, Counted
  <2>5. CountIsExact'
    BY <1>3, <2>4, CountUp DEF Enter, AddOne, Orderly, CountIsExact
  <2> QED BY <1>3, <2>1, <2>3, <2>5 DEF Enter, Orderly
<1>4. ~EnterPanics(o)
  <2>1. SUFFICES ASSUME EnterPanics(o) PROVE FALSE
    OBVIOUS
  <2>2. waiters = 0
    BY <2>1 DEF EnterPanics, Orderly, DrainInv, ClosersClose
  <2>3. counter < 0
    BY <1>1, <2>1, <2>2 DEF EnterPanics, AddOnePanics, Misused, TypeOK
  <2> QED BY <2>3, CountedFinite DEF Orderly, CountIsExact
<1>5. ASSUME Admit(o) \/ Decline(o) \/ Work(o) PROVE Orderly'
  <2>1. Counted' = Counted /\ counter' = counter /\ closed' = closed
    BY <1>1, <1>5 DEF Admit, Decline, Work, TypeOK, Counted
  <2> QED BY <1>1, <1>5, <2>1
          DEF Admit, Decline, Work, Orderly, TypeOK, CountIsExact, NobodyCounted, Released
<1>6. ASSUME Leave(o) \/ LeavePanics(o) \/ LeaveLast(o) PROVE Orderly'
  <2>1. /\ o \in Counted /\ Counted' = Counted \ {o}
        /\ counter' = counter - 1 /\ closed' = closed /\ closing' = closing
        /\ Released' = Released /\ waiters' = waiters
    BY <1>1, <1>6 DEF Leave, LeavePanics, LeaveLast, DoneQuietly, DonePanics, DoneLast,
                      TypeOK, Counted, Released
  <2>2. counter \in Nat \ {0}
    BY <2>1, CountedFinite, FS_EmptySet DEF Orderly, CountIsExact
  <2>3. ~LeavePanics(o)
    BY <2>2 DEF LeavePanics, DonePanics
  <2>4. CountIsExact'
    BY <2>1, CountDown DEF Orderly, CountIsExact
  <2>5. NobodyCounted' => Counted' = {}
    <3>1. CASE LeaveLast(o)
      <4>1. Cardinality(Counted) = 1 /\ IsFiniteSet(Counted)
        BY <3>1, CountedFinite DEF LeaveLast, DoneLast, Orderly, CountIsExact
      <4>2. Counted = {o}
        BY <2>1, <4>1, FS_Singleton
      <4> QED BY <2>1, <4>2
    <3>2. CASE Leave(o)
      BY <1>1, <2>1, <3>2 DEF Leave, DoneQuietly, Orderly, NobodyCounted, TypeOK
    <3> QED BY <1>6, <2>3, <3>1, <3>2
  <2>6. /\ closed' => \A p \in Operations : pc'[p] # "enter"
        /\ \A p \in Operations : answer'[p] # "internal_error"
    BY <1>1, <1>6, <2>1, <2>3 DEF Leave, LeaveLast, Orderly, TypeOK
  <2> QED BY <2>1, <2>4, <2>5, <2>6 DEF Orderly
<1>7. ASSUME Settle(o) \/ Wake(o) PROVE Orderly'
  <2>1. Counted' = Counted /\ Counted = {} /\ closed' = closed
    BY <1>1, <1>7 DEF Settle, Wake, TypeOK, Counted, Orderly, NobodyCounted
  <2>2. CountIsExact'
    BY <1>7, <2>1, FS_EmptySet DEF Settle, Wake, Release, StillSettled, Orderly, CountIsExact
  <2>3. Released' => waiters' = 0
    BY <1>1, <1>7 DEF Settle, Wake, Release, Orderly, Released, TypeOK
  <2>4. /\ closed' => \A p \in Operations : pc'[p] # "enter"
        /\ \A p \in Operations : answer'[p] # "internal_error"
        /\ closing' = closing
    BY <1>1, <1>7, <2>1 DEF Settle, Wake, Orderly, TypeOK
  <2> QED BY <2>1, <2>2, <2>3, <2>4 DEF Orderly
<1>8. ~SettlePanics(o)
  BY FS_EmptySet DEF SettlePanics, StillSettled, Orderly, NobodyCounted, CountIsExact
<1> QED BY <1>2, <1>3, <1>4, <1>5, <1>6, <1>7, <1>8 DEF OpStep

LEMMA CloserKeepsOrder ==
  ASSUME DrainInv, Orderly, NEW c \in Closers, CloseAgain(c) \/ CloseStep(c)
  PROVE  Orderly'
<1> USE DEF CloserGoto, CloserSay, groupVars, closerVars, opVars
<1>1. TypeOK
  BY DEF DrainInv
<1>2. /\ Counted' = Counted /\ counter' = counter /\ closed' = closed
      /\ pc' = pc /\ answer' = answer
  BY DEF CloseAgain, CloseStep, Drain, DrainSleeps, Awaken, Drained, DrainPanics, Clear,
         WaitPasses, WaitSleeps, TakeToken, Counted
<1>3. ~DrainPanics(c)
  <2>1. SUFFICES ASSUME DrainPanics(c) PROVE FALSE
    OBVIOUS
  <2>2. waiters = 0 /\ Counted = {}
    BY <2>1 DEF DrainPanics, Orderly, NobodyCounted, Released
  <2> QED BY <2>1, <2>2, FS_EmptySet DEF DrainPanics, Reused, Orderly, CountIsExact
<1>4. CountIsExact'
  BY <1>2 DEF Orderly, CountIsExact
<1>5. NobodyCounted' => NobodyCounted
  BY <1>1, <1>2, <1>3
     DEF CloseAgain, CloseStep, Drain, DrainSleeps, Awaken, Drained, Clear,
         WaitPasses, WaitSleeps, TakeToken, NobodyCounted, TypeOK
<1>6. Released' => waiters' = 0
  <2>1. CASE DrainSleeps(c)
    <3>1. Counted # {}
      BY <2>1, FS_EmptySet DEF DrainSleeps, WaitSleeps, Orderly, CountIsExact
    <3>2. ~Released
      BY <3>1 DEF Orderly, NobodyCounted, Released
    <3> QED BY <1>1, <2>1, <3>2 DEF DrainSleeps, WaitSleeps, Released, TypeOK
  <2>2. CASE CloseAgain(c) \/ Drain(c) \/ Awaken(c) \/ Drained(c) \/ Clear(c)
    BY <1>1, <2>2 DEF CloseAgain, Drain, Awaken, Drained, Clear, WaitPasses, TakeToken,
                      Orderly, Released, TypeOK
  <2> QED BY <1>3, <2>1, <2>2 DEF CloseStep
<1>7. \A d \in Closers : closing'[d] # "internal_error"
  BY <1>1, <1>3 DEF CloseAgain, CloseStep, Drain, DrainSleeps, Awaken, Drained, Clear,
                    Orderly, TypeOK
<1> QED BY <1>2, <1>4, <1>5, <1>6, <1>7 DEF Orderly

\* The first Close: what is still to be ordered is the operations between their
\* first check and their Add, and without them everything is in order.
LEMMA FirstCloseKeepsRace ==
  ASSUME DrainInv, RaceInv, NEW c \in Closers, CloseFirst(c)
  PROVE  RaceInv'
<1> USE DEF CloserGoto, CloserSay, groupVars, closerVars, opVars
<1>1. TypeOK /\ closed' /\ Orderly
  BY DEF DrainInv, RaceInv, CloseFirst
<1>2. Counted' = Counted /\ counter' = counter /\ waiters' = waiters
  BY DEF CloseFirst, Counted
<1>3. ASSUME ~raced' PROVE \A o \in Operations : pc'[o] # "enter"
  BY <1>3, Zenon DEF CloseFirst
<1>4. CountIsExact'
  BY <1>1, <1>2 DEF Orderly, CountIsExact
<1>5. (NobodyCounted' => NobodyCounted) /\ (Released' => Released)
  BY <1>1 DEF CloseFirst, NobodyCounted, Released, TypeOK
<1>6. /\ \A o \in Operations : answer'[o] # "internal_error"
      /\ \A d \in Closers : closing'[d] # "internal_error"
  BY <1>1 DEF CloseFirst, Orderly, TypeOK
<1> QED BY <1>1, <1>2, <1>3, <1>4, <1>5, <1>6 DEF RaceInv, Orderly

\* Operations and closers are answered internal_error only in the runs where an
\* operation was between its first check and its Add when Close began.
THEOREM MisuseNeedsTheRace == Spec => []MisuseOnlyWhenRaced
<1>1. RaceInv => MisuseOnlyWhenRaced
  BY DEF RaceInv, Orderly, MisuseOnlyWhenRaced
<1>2. DrainInv /\ RaceInv /\ [Next]_vars => RaceInv'
  <2> SUFFICES ASSUME DrainInv, RaceInv, [Next]_vars PROVE RaceInv'
    OBVIOUS
  <2>1. CASE UNCHANGED vars
    BY <2>1 DEF vars, RaceInv, Orderly, CountIsExact, NobodyCounted, Released, Counted
  <2>2. ASSUME NEW o \in Operations, Refuse(o) \/ Start(o) \/ OpStep(o) PROVE RaceInv'
    <3>1. raced' = raced /\ closed' = closed
      BY <2>2 DEF Refuse, Start, OpStep, Enter, EnterPanics, Admit, Decline, Work, Leave,
                  LeavePanics, LeaveLast, Settle, SettlePanics, Wake
    <3> QED BY <2>2, <3>1, OperationKeepsOrder DEF RaceInv
  <2>3. ASSUME NEW c \in Closers, CloseAgain(c) \/ CloseStep(c) PROVE RaceInv'
    <3>1. raced' = raced /\ closed' = closed
      BY <2>3 DEF CloseAgain, CloseStep, Drain, DrainSleeps, Awaken, Drained, DrainPanics, Clear
    <3> QED BY <2>3, <3>1, CloserKeepsOrder DEF RaceInv
  <2>4. ASSUME NEW c \in Closers, CloseFirst(c) PROVE RaceInv'
    BY <2>4, FirstCloseKeepsRace
  <2> QED BY <2>1, <2>2, <2>3, <2>4 DEF Next
<1> QED BY <1>1, <1>2, InitRace, DrainInvariant, PTL DEF Spec

-----------------------------------------------------------------------------
\* begin, end and Close are a gate: nobody is let in once the runtime is shut,
\* it is shut once, and it is cleared only when it is empty.
THEOREM LifecycleIsAGate == Spec => GateSpec
<1>1. Init => Gate!Init
  BY DEF Init, Gate!Init, Running
<1>2. DrainInv /\ [Next]_vars => [Gate!Next]_(Gate!gateVars)
  <2> DEFINE phase == IF cleared THEN "cleared" ELSE IF closed THEN "shut" ELSE "open"
  <2> SUFFICES ASSUME DrainInv, [Next]_vars
               PROVE  Gate!Next \/ (phase' = phase /\ Running' = Running)
    BY DEF Gate!gateVars
  <2> USE DEF Goto, Say, CloserGoto, CloserSay, groupVars, closerVars, opVars
  <2>1. TypeOK /\ (LettingGo => closed /\ Running = {})
    BY DEF DrainInv
  <2>2. CASE UNCHANGED vars
    BY <2>2 DEF vars, Running
  <2>3. ASSUME NEW o \in Operations, Admit(o) PROVE Gate!Next
    <3>1. phase = "open" /\ phase' = phase
      BY <2>1, <2>3 DEF Admit, LettingGo
    <3>2. o \notin Running /\ Running' = Running \cup {o}
      BY <2>1, <2>3 DEF Admit, Running, TypeOK
    <3> QED BY <3>1, <3>2 DEF Gate!Next, Gate!Admit
  <2>4. ASSUME NEW o \in Operations, Leave(o) \/ LeavePanics(o) \/ LeaveLast(o)
        PROVE  Gate!Next \/ (phase' = phase /\ Running' = Running)
    <3>1. phase' = phase
      BY <2>4 DEF Leave, LeavePanics, LeaveLast
    <3>2. CASE pc[o] = "leave"
      <4>1. o \in Running /\ Running' = Running \ {o}
        BY <2>1, <2>4, <3>2 DEF Leave, LeavePanics, LeaveLast, Running, TypeOK
      <4> QED BY <3>1, <4>1 DEF Gate!Next, Gate!Leave
    <3>3. CASE pc[o] = "bail"
      BY <2>1, <2>4, <3>1, <3>3 DEF Leave, LeavePanics, LeaveLast, Running, TypeOK
    <3> QED BY <2>4, <3>2, <3>3 DEF Leave, LeavePanics, LeaveLast
  <2>5. ASSUME NEW o \in Operations,
               \/ Refuse(o) \/ Start(o) \/ Enter(o) \/ EnterPanics(o) \/ Decline(o) \/ Work(o)
               \/ Settle(o) \/ SettlePanics(o) \/ Wake(o)
        PROVE  phase' = phase /\ Running' = Running
    BY <2>1, <2>5 DEF Refuse, Start, Enter, EnterPanics, Decline, Work, Settle, SettlePanics,
                      Wake, Running, TypeOK
  <2>6. ASSUME NEW c \in Closers, CloseFirst(c) PROVE Gate!Next
    <3>1. phase = "open" /\ phase' = "shut" /\ Running' = Running
      BY <2>1, <2>6 DEF CloseFirst, LettingGo, Running
    <3> QED BY <3>1 DEF Gate!Next, Gate!Shut
  <2>7. ASSUME NEW c \in Closers, Clear(c)
        PROVE  Gate!Next \/ (phase' = phase /\ Running' = Running)
    <3>1. closed /\ Running = {} /\ Running' = Running /\ cleared'
      BY <2>1, <2>7 DEF Clear, LettingGo, Running
    <3> QED BY <3>1 DEF Gate!Next, Gate!Clear
  <2>8. ASSUME NEW c \in Closers,
               \/ CloseAgain(c) \/ Drain(c) \/ DrainSleeps(c)
               \/ Awaken(c) \/ Drained(c) \/ DrainPanics(c)
        PROVE  phase' = phase /\ Running' = Running
    BY <2>8 DEF CloseAgain, Drain, DrainSleeps, Awaken, Drained, DrainPanics, Running
  <2> QED BY <2>2, <2>3, <2>4, <2>5, <2>6, <2>7, <2>8 DEF Next, OpStep, CloseStep
<1> QED BY <1>1, <1>2, DrainInvariant, PTL DEF Spec, GateSpec, Gate!Spec

=============================================================================
