---------------------------- MODULE Bridge_proofs ----------------------------
(***************************************************************************)
(* Proofs about Bridge, for any clients, admins, capacity of the stores    *)
(* and bounds.                                                             *)
(*                                                                         *)
(* BridgeInv is inductive.  Beyond the properties it says that ids are the *)
(* numbers of the prepares, so that a program can be told from its id;     *)
(* that a request names an id that was issued; that the current runtime is *)
(* the newest; and that a shut runtime has at most one closer draining it. *)
(***************************************************************************)
EXTENDS Bridge, SequenceTheorems, FiniteSetTheorems, TLAPS

\* The nth prepare on a runtime was answered with the id n, under which the
\* store has its program or none; those on their way leave room for their ids.
IdsAreCounted ==
  \A r \in Runtimes :
    /\ Len(issued[r]) = next[r]
    /\ \A n \in 1..next[r] : issued[r][n] = n
    /\ \A k \in Ids : items[r][k] # Absent => items[r][k] = [by |-> r, nth |-> k]
    /\ next[r] + Cardinality(Preparing(r)) <= MaxIds

\* A client in a call has a request, and asks for ids that were issued.
RequestsAreIssued ==
  \A o \in Clients :
    pc[o] # "idle" =>
      /\ request[o] \in Requests
      /\ request[o].op # "prepare" => request[o].nth \in 1..next[request[o].from]

\* Only an evaluation that has found its program holds one.
HeldIsNamed ==
  \A o \in Clients : held[o] # Absent =>
    /\ pc[o] = "run" /\ request[o].op = "evaluateProgram"
    /\ held[o] = [by |-> rt[o], nth |-> request[o].nth]

CurrentIsNewest == current = newest

\* The closer that shut a runtime is the only one to drain it.
OneDrainEach ==
  \A a \in Admins : apc[a] = "drain" =>
    /\ phase[target[a]] = "shut"
    /\ \A b \in Admins : apc[b] = "drain" /\ target[b] = target[a] => b = a

BridgeInv ==
  /\ TypeOK
  /\ IdsAreCounted /\ RequestsAreIssued /\ HeldIsNamed
  /\ CurrentIsNewest /\ OneDrainEach
  /\ ReplacedIsBeingClosed /\ ClearedStaysEmpty
-----------------------------------------------------------------------------
\* The programs prepared one after the other have room in the map, and a
\* program is never taken for none.
LEMMA AbsentIsNoProgram == Absent \notin Programs
BY BridgeAssumption DEF Programs, Runtimes, Ids

LEMMA PreparingFinite ==
  ASSUME NEW r
  PROVE  IsFiniteSet(Preparing(r)) /\ Cardinality(Preparing(r)) \in Nat
<1>1. Preparing(r) \in SUBSET Clients
  BY DEF Preparing
<1> QED BY <1>1, FS_Subset, FS_CardinalityType, BridgeAssumption

LEMMA InitBridge == Init => BridgeInv
<1> SUFFICES ASSUME Init PROVE BridgeInv
  OBVIOUS
<1>1. TypeOK
  BY BridgeAssumption DEF Init, TypeOK, Runtimes, Ids, Inside, Nothing
<1>2. IdsAreCounted
  <2> SUFFICES ASSUME NEW r \in Runtimes
               PROVE  /\ Len(issued[r]) = next[r]
                      /\ \A n \in 1..next[r] : issued[r][n] = n
                      /\ \A k \in Ids : items[r][k] # Absent => items[r][k] = [by |-> r, nth |-> k]
                      /\ next[r] + Cardinality(Preparing(r)) <= MaxIds
    BY DEF IdsAreCounted
  <2>1. issued[r] = <<>> /\ next[r] = 0 /\ \A k \in Ids : items[r][k] = Absent
    BY DEF Init
  <2>2. Preparing(r) = {}
    BY DEF Init, Preparing
  <2>3. Cardinality(Preparing(r)) = 0
    BY <2>2, FS_EmptySet
  <2> QED BY <2>1, <2>3, BridgeAssumption
<1>3. RequestsAreIssued /\ HeldIsNamed /\ CurrentIsNewest /\ OneDrainEach
  BY DEF Init, RequestsAreIssued, HeldIsNamed, CurrentIsNewest, OneDrainEach
<1>4. ReplacedIsBeingClosed /\ ClearedStaysEmpty
  BY BridgeAssumption DEF Init, ReplacedIsBeingClosed, ClearedStaysEmpty, Runtimes
<1> QED BY <1>1, <1>2, <1>3, <1>4 DEF BridgeInv

-----------------------------------------------------------------------------
\* A client's step does not disturb what is said of the admins, nor an admin's
\* what is said of the clients.
LEMMA ClientsLeaveAdmins ==
  ASSUME BridgeInv, UNCHANGED <<current, newest, phase, adminVars>>
  PROVE  CurrentIsNewest' /\ OneDrainEach' /\ ReplacedIsBeingClosed'
BY DEF BridgeInv, CurrentIsNewest, OneDrainEach, ReplacedIsBeingClosed, adminVars

LEMMA AdminsLeaveClients ==
  ASSUME BridgeInv, UNCHANGED <<next, issued, clientVars>>
  PROVE  /\ RequestsAreIssued' /\ HeldIsNamed'
         /\ UNCHANGED items => IdsAreCounted'
<1>1. RequestsAreIssued' /\ HeldIsNamed'
  BY DEF BridgeInv, RequestsAreIssued, HeldIsNamed, clientVars
<1>2. \A r \in Runtimes : Preparing(r)' = Preparing(r)
  BY DEF Preparing, clientVars
<1>3. UNCHANGED items => IdsAreCounted'
  BY <1>2 DEF BridgeInv, IdsAreCounted
<1> QED BY <1>1, <1>3

\* The ids stay counted while nobody new is on the way to a store.
LEMMA FewerPreparing ==
  ASSUME BridgeInv, UNCHANGED <<next, issued, items>>,
         \A r \in Runtimes : Preparing(r)' \subseteq Preparing(r)
  PROVE  IdsAreCounted'
<1> SUFFICES ASSUME NEW r \in Runtimes
             PROVE  next[r] + Cardinality(Preparing(r)') <= MaxIds
  BY DEF BridgeInv, IdsAreCounted
<1>1. next[r] + Cardinality(Preparing(r)) <= MaxIds /\ next[r] \in Nat /\ MaxIds \in Nat
  BY BridgeAssumption DEF BridgeInv, IdsAreCounted, TypeOK
<1>2. Preparing(r)' \in SUBSET Preparing(r)
  OBVIOUS
<1>3. Cardinality(Preparing(r)') <= Cardinality(Preparing(r))
  BY <1>2, PreparingFinite, FS_Subset
<1>4. Cardinality(Preparing(r)') \in Nat /\ Cardinality(Preparing(r)) \in Nat
  BY <1>2, PreparingFinite, FS_Subset, FS_CardinalityType
<1> QED BY <1>1, <1>3, <1>4

\* A client fetches the current runtime, with room for its id if it prepares.
LEMMA FetchKeepsInv ==
  ASSUME BridgeInv, NEW o \in Clients, NEW q \in Requests, Fetch(o, q)
  PROVE  BridgeInv'
<1> USE DEF Goto, Inside, Nothing
<1>1. CurrentIsNewest' /\ OneDrainEach' /\ ReplacedIsBeingClosed'
  BY ClientsLeaveAdmins DEF Fetch
<1>2. TypeOK'
  BY DEF Fetch, BridgeInv, TypeOK, storeVars, adminVars
<1>3. HeldIsNamed'
  BY DEF Fetch, BridgeInv, TypeOK, HeldIsNamed
<1>4. ClearedStaysEmpty'
  BY DEF Fetch, BridgeInv, TypeOK, ClearedStaysEmpty, Known, Running, storeVars
<1>5. RequestsAreIssued'
  BY DEF Fetch, BridgeInv, TypeOK, RequestsAreIssued, IdsAreCounted, Requests, Ids, storeVars
<1>6. IdsAreCounted'
  <2> SUFFICES ASSUME NEW r \in Runtimes
               PROVE  next[r] + Cardinality(Preparing(r)') <= MaxIds
    BY DEF Fetch, BridgeInv, IdsAreCounted, storeVars
  <2>1. next[r] + Cardinality(Preparing(r)) <= MaxIds /\ next[r] \in Nat /\ MaxIds \in Nat
    BY BridgeAssumption DEF BridgeInv, IdsAreCounted, TypeOK
  <2>2. CASE r = current /\ q.op = "prepare"
    <3>1. Preparing(r)' = Preparing(r) \cup {o} /\ o \notin Preparing(r)
      BY <2>2 DEF Fetch, BridgeInv, TypeOK, Preparing
    <3>2. next[r] + Cardinality(Preparing(r)) < MaxIds
      BY <2>2 DEF Fetch, WithinIdBound
    <3>3. /\ Cardinality(Preparing(r)') = Cardinality(Preparing(r)) + 1
          /\ Cardinality(Preparing(r)) \in Nat
      BY <3>1, PreparingFinite, FS_AddElement
    <3> QED BY <3>2, <3>3, <2>1
  <2>3. CASE ~(r = current /\ q.op = "prepare")
    <3>1. Preparing(r)' = Preparing(r)
      BY <2>3 DEF Fetch, BridgeInv, TypeOK, Preparing
    <3> QED BY <3>1, <2>1
  <2> QED BY <2>2, <2>3
<1> QED BY <1>1, <1>2, <1>3, <1>4, <1>5, <1>6 DEF BridgeInv

\* The steps of an operation that leave the stores as they are.
LEMMA PassingKeepsInv ==
  ASSUME BridgeInv, NEW o \in Clients,
         Begin(o) \/ Refuse(o) \/ Reject(o) \/ PrepareFull(o) \/ NotFound(o) \/ End(o)
  PROVE  BridgeInv'
<1> USE DEF Goto, Inside, Nothing, Return, storeVars, adminVars
<1> USE DEF Begin, Refuse, Reject, PrepareFull, NotFound, End
<1>1. CurrentIsNewest' /\ OneDrainEach' /\ ReplacedIsBeingClosed'
  BY ClientsLeaveAdmins
<1>2. TypeOK'
  <2>1. 1 \in Runtimes
    BY BridgeAssumption DEF Runtimes
  <2>2. CASE Refuse(o) \/ End(o)
    BY <2>1, <2>2 DEF BridgeInv, TypeOK
  <2>3. CASE Begin(o) \/ Reject(o) \/ PrepareFull(o) \/ NotFound(o)
    BY <2>3 DEF BridgeInv, TypeOK
  <2> QED BY <2>2, <2>3
<1>3. HeldIsNamed'
  BY DEF BridgeInv, TypeOK, HeldIsNamed
<1>4. ClearedStaysEmpty'
  BY DEF BridgeInv, TypeOK, ClearedStaysEmpty, Known, Running
<1>5. RequestsAreIssued'
  BY DEF BridgeInv, TypeOK, RequestsAreIssued
<1>6. \A r \in Runtimes : Preparing(r)' \subseteq Preparing(r)
  BY DEF BridgeInv, TypeOK, Preparing
<1>7. UNCHANGED <<next, issued, items>>
  OBVIOUS
<1>8. IdsAreCounted'
  BY <1>6, <1>7, FewerPreparing
<1> QED BY <1>1, <1>2, <1>3, <1>4, <1>5, <1>8 DEF BridgeInv

\* The id that an operation gives is the number of its prepare.
LEMMA IdIsItsNumber ==
  ASSUME BridgeInv, NEW o \in Clients, pc[o] # "idle", request[o].op # "prepare"
  PROVE  IdIn(request[o]) = request[o].nth /\ request[o].nth \in Ids
<1>1. /\ request[o] \in Requests
      /\ request[o].nth \in 1..next[request[o].from]
  BY DEF BridgeInv, RequestsAreIssued
<1>2. request[o].from \in Runtimes /\ request[o].nth \in Ids
  BY <1>1 DEF Requests
<1> QED BY <1>1, <1>2 DEF IdIn, BridgeInv, IdsAreCounted

LEMMA FindProgramKeepsInv ==
  ASSUME BridgeInv, NEW o \in Clients, FindProgram(o)
  PROVE  BridgeInv'
<1> USE DEF Goto, Inside, Nothing, storeVars, adminVars
<1> DEFINE k == request[o].nth
<1>1. CurrentIsNewest' /\ OneDrainEach' /\ ReplacedIsBeingClosed'
  BY ClientsLeaveAdmins DEF FindProgram
<1>2. IdIn(request[o]) = k /\ k \in Ids /\ k \in Known(rt[o])
  BY IdIsItsNumber DEF FindProgram
<1>3. rt[o] \in Runtimes
  BY DEF BridgeInv, TypeOK
<1>4. items[rt[o]][k] = [by |-> rt[o], nth |-> k]
  BY <1>2, <1>3 DEF BridgeInv, IdsAreCounted, Known
<1>5. held' = [held EXCEPT ![o] = [by |-> rt[o], nth |-> k]]
  BY <1>2, <1>4 DEF FindProgram
<1>6. [by |-> rt[o], nth |-> k] \in Programs
  BY <1>2, <1>3 DEF Programs
<1>7. TypeOK'
  BY <1>5, <1>6 DEF FindProgram, BridgeInv, TypeOK
<1>8. HeldIsNamed'
  BY <1>5 DEF FindProgram, BridgeInv, TypeOK, HeldIsNamed
<1>9. ClearedStaysEmpty'
  BY DEF FindProgram, BridgeInv, TypeOK, ClearedStaysEmpty, Known, Running
<1>10. RequestsAreIssued'
  BY DEF FindProgram, BridgeInv, TypeOK, RequestsAreIssued
<1>11. \A r \in Runtimes : Preparing(r)' \subseteq Preparing(r)
  BY DEF FindProgram, BridgeInv, TypeOK, Preparing
<1>12. IdsAreCounted'
  BY <1>11, FewerPreparing DEF FindProgram
<1> QED BY <1>1, <1>7, <1>8, <1>9, <1>10, <1>12 DEF BridgeInv

LEMMA ReleaseProgramKeepsInv ==
  ASSUME BridgeInv, NEW o \in Clients, ReleaseProgram(o)
  PROVE  BridgeInv'
<1> USE DEF Goto, Inside, Nothing, storeVars, adminVars
<1> DEFINE k == request[o].nth
<1>1. CurrentIsNewest' /\ OneDrainEach' /\ ReplacedIsBeingClosed'
  BY ClientsLeaveAdmins DEF ReleaseProgram
<1>2. IdIn(request[o]) = k /\ k \in Ids
  BY IdIsItsNumber DEF ReleaseProgram
<1>3. rt[o] \in Runtimes /\ items \in [Runtimes -> [Ids -> Programs \cup {Absent}]]
  BY DEF BridgeInv, TypeOK
<1>4. items' = [items EXCEPT ![rt[o]] = [items[rt[o]] EXCEPT ![k] = Absent]]
  BY <1>2, <1>3 DEF ReleaseProgram
<1>5. items' \in [Runtimes -> [Ids -> Programs \cup {Absent}]]
  BY <1>3, <1>4
<1>6. \A r \in Runtimes, n \in Ids : items'[r][n] \in {items[r][n], Absent}
  BY <1>3, <1>4
<1>7. TypeOK'
  BY <1>5 DEF ReleaseProgram, BridgeInv, TypeOK
<1>8. HeldIsNamed'
  BY DEF ReleaseProgram, BridgeInv, TypeOK, HeldIsNamed
<1>9. ClearedStaysEmpty'
  BY <1>6 DEF ReleaseProgram, BridgeInv, TypeOK, ClearedStaysEmpty, Known, Running
<1>10. RequestsAreIssued'
  BY DEF ReleaseProgram, BridgeInv, TypeOK, RequestsAreIssued
<1>11. IdsAreCounted'
  <2> SUFFICES ASSUME NEW r \in Runtimes
               PROVE  /\ \A n \in Ids : items'[r][n] # Absent => items'[r][n] = [by |-> r, nth |-> n]
                      /\ next[r] + Cardinality(Preparing(r)') <= MaxIds
    BY DEF ReleaseProgram, BridgeInv, IdsAreCounted
  <2>1. Preparing(r)' = Preparing(r)
    BY DEF ReleaseProgram, BridgeInv, TypeOK, Preparing
  <2> QED BY <2>1, <1>6 DEF BridgeInv, IdsAreCounted
<1> QED BY <1>1, <1>7, <1>8, <1>9, <1>10, <1>11 DEF BridgeInv

\* A prepare that finds room takes the next id, its number.
LEMMA PrepareKeepsInv ==
  ASSUME BridgeInv, NEW o \in Clients, Prepare(o), NEW r \in Runtimes, r = rt[o]
  PROVE  BridgeInv'
<1> USE DEF Goto, Inside, Nothing, storeVars, adminVars
<1> DEFINE k == next[r] + 1
           program == [by |-> r, nth |-> k]
<1>1. CurrentIsNewest' /\ OneDrainEach' /\ ReplacedIsBeingClosed'
  BY ClientsLeaveAdmins DEF Prepare
<1>2. /\ r \in Runtimes /\ MaxIds \in Nat
      /\ items \in [Runtimes -> [Ids -> Programs \cup {Absent}]]
      /\ next \in [Runtimes -> 0..MaxIds] /\ issued \in [Runtimes -> Seq(Ids)]
      /\ Len(issued[r]) = next[r] /\ next[r] + Cardinality(Preparing(r)) <= MaxIds
  BY BridgeAssumption DEF BridgeInv, TypeOK, IdsAreCounted
<1>3. \A s \in Runtimes \ {r} : Preparing(s)' = Preparing(s)
  BY DEF Prepare, BridgeInv, TypeOK, Preparing
<1>4. o \in Preparing(r) /\ Preparing(r)' = Preparing(r) \ {o}
  BY DEF Prepare, BridgeInv, TypeOK, Preparing
<1>5. /\ Cardinality(Preparing(r)') = Cardinality(Preparing(r)) - 1
      /\ Cardinality(Preparing(r)) \in Nat /\ Cardinality(Preparing(r)) # 0
  BY <1>4, PreparingFinite, FS_RemoveElement, FS_EmptySet
<1>6. k \in Ids /\ k \in 0..MaxIds
  BY <1>2, <1>5 DEF Ids
<1>7. program \in Programs /\ program # Absent
  BY <1>2, <1>6, AbsentIsNoProgram DEF Programs
<1>8. /\ next' = [next EXCEPT ![r] = k]
      /\ items' = [items EXCEPT ![r] = [items[r] EXCEPT ![k] = program]]
      /\ issued' = [issued EXCEPT ![r] = Append(issued[r], k)]
  BY <1>2 DEF Prepare, NewId
<1> HIDE DEF k, program
<1>9. /\ Append(issued[r], k) \in Seq(Ids)
      /\ Len(Append(issued[r], k)) = next[r] + 1
      /\ \A n \in 1..next[r] : Append(issued[r], k)[n] = issued[r][n]
      /\ Append(issued[r], k)[next[r] + 1] = k
  BY <1>2, <1>6, AppendProperties
<1>10. TypeOK'
  <2>1. next' \in [Runtimes -> 0..MaxIds]
    BY <1>2, <1>6, <1>8
  <2>2. items' \in [Runtimes -> [Ids -> Programs \cup {Absent}]]
    BY <1>2, <1>6, <1>7, <1>8
  <2>3. issued' \in [Runtimes -> Seq(Ids)]
    BY <1>2, <1>8, <1>9
  <2> QED BY <2>1, <2>2, <2>3 DEF Prepare, BridgeInv, TypeOK
<1>11. HeldIsNamed'
  BY DEF Prepare, BridgeInv, TypeOK, HeldIsNamed
<1>12. ClearedStaysEmpty'
  <2> SUFFICES ASSUME NEW s \in Runtimes, phase[s] = "cleared"
               PROVE  Known(s)' = {} /\ Running(s)' = {}
    BY DEF Prepare, ClearedStaysEmpty
  <2>1. Known(s) = {} /\ Running(s) = {}
    BY DEF BridgeInv, ClearedStaysEmpty
  <2>2. s # r
    BY <2>1 DEF Running, Prepare
  <2>3. Known(s)' = {}
    BY <2>1, <2>2, <1>2, <1>8 DEF Known
  <2>4. Running(s)' = {}
    BY <2>1, <2>2 DEF Running, Prepare, BridgeInv, TypeOK
  <2> QED BY <2>3, <2>4
<1>13. RequestsAreIssued'
  <2> SUFFICES ASSUME NEW c \in Clients, pc'[c] # "idle"
               PROVE  /\ request[c] \in Requests
                      /\ request[c].op # "prepare" => request[c].nth \in 1..next'[request[c].from]
    BY DEF Prepare, RequestsAreIssued
  <2>1. pc[c] # "idle"
    BY DEF Prepare, BridgeInv, TypeOK
  <2>2. /\ request[c] \in Requests
        /\ request[c].op # "prepare" => request[c].nth \in 1..next[request[c].from]
    BY <2>1 DEF BridgeInv, RequestsAreIssued
  <2>3. \A s \in Runtimes : 1..next[s] \subseteq 1..next'[s]
    BY <1>2, <1>8 DEF k
  <2>4. request[c].op # "prepare" => request[c].from \in Runtimes
    BY <2>2 DEF Requests
  <2> QED BY <2>2, <2>3, <2>4
<1>14. IdsAreCounted'
  <2> SUFFICES ASSUME NEW s \in Runtimes
               PROVE  /\ Len(issued'[s]) = next'[s]
                      /\ \A n \in 1..next'[s] : issued'[s][n] = n
                      /\ \A n \in Ids : items'[s][n] # Absent => items'[s][n] = [by |-> s, nth |-> n]
                      /\ next'[s] + Cardinality(Preparing(s)') <= MaxIds
    BY DEF IdsAreCounted
  <2>1. CASE s = r
    <3>1. Len(issued'[s]) = next'[s] /\ next'[s] = next[r] + 1
      BY <2>1, <1>2, <1>8, <1>9 DEF k
    <3>2. \A n \in 1..next'[s] : issued'[s][n] = n
      BY <2>1, <1>2, <1>8, <1>9 DEF k, BridgeInv, IdsAreCounted
    <3>3. \A n \in Ids : items'[s][n] # Absent => items'[s][n] = [by |-> s, nth |-> n]
      BY <2>1, <1>2, <1>6, <1>8 DEF program, BridgeInv, IdsAreCounted
    <3>4. Preparing(s)' = Preparing(r)'
      BY <2>1 DEF Preparing
    <3>5. next'[s] + Cardinality(Preparing(s)') <= MaxIds
      BY <3>1, <3>4, <1>2, <1>5
    <3> QED BY <3>1, <3>2, <3>3, <3>5
  <2>2. CASE s # r
    <3>1. issued'[s] = issued[s] /\ next'[s] = next[s] /\ items'[s] = items[s]
      BY <2>2, <1>2, <1>8
    <3>2. Preparing(s)' = Preparing(s)
      BY <2>2, <1>3
    <3> QED BY <3>1, <3>2 DEF BridgeInv, IdsAreCounted
  <2> QED BY <2>1, <2>2
<1> QED BY <1>1, <1>10, <1>11, <1>12, <1>13, <1>14 DEF BridgeInv

-----------------------------------------------------------------------------
\* A create installs the next runtime, and is about to close the last one.
LEMMA ReplaceKeepsInv ==
  ASSUME BridgeInv, NEW a \in Admins, Replace(a)
  PROVE  BridgeInv'
<1> USE DEF AdminGoto, storeVars, clientVars
<1>1. RequestsAreIssued' /\ HeldIsNamed' /\ IdsAreCounted'
  BY AdminsLeaveClients DEF Replace
<1>2. newest' = newest + 1 /\ current' = newest + 1 /\ current = newest /\ newest \in Nat
  BY DEF Replace, BridgeInv, TypeOK, CurrentIsNewest, Runtimes
<1>3. newest' \in Runtimes
  BY <1>2, BridgeAssumption DEF Replace, BridgeInv, TypeOK, Runtimes
<1>4. TypeOK'
  BY <1>2, <1>3 DEF Replace, BridgeInv, TypeOK
<1>5. CurrentIsNewest' /\ OneDrainEach'
  BY <1>2 DEF Replace, BridgeInv, TypeOK, CurrentIsNewest, OneDrainEach
<1>6. ClearedStaysEmpty'
  BY DEF Replace, BridgeInv, ClearedStaysEmpty, Known, Running
<1>7. ReplacedIsBeingClosed'
  <2> SUFFICES ASSUME NEW r \in Runtimes, r < current', phase'[r] = "open"
               PROVE  \E b \in Admins : target'[b] = r /\ apc'[b] \in {"check", "close"}
    BY DEF ReplacedIsBeingClosed
  <2>1. CASE r = current
    BY <2>1 DEF Replace, BridgeInv, TypeOK
  <2>2. CASE r # current
    <3>1. r < current /\ phase[r] = "open"
      BY <2>2, <1>2 DEF Replace, Runtimes
    <3>2. PICK b \in Admins : target[b] = r /\ apc[b] \in {"check", "close"}
      BY <3>1 DEF BridgeInv, ReplacedIsBeingClosed
    <3>3. b # a
      BY <3>2 DEF Replace
    <3> QED BY <3>2, <3>3 DEF Replace, BridgeInv, TypeOK
  <2> QED BY <2>1, <2>2
<1> QED BY <1>1, <1>4, <1>5, <1>6, <1>7 DEF BridgeInv

\* The steps of an admin that change no runtime's phase: whoever is on the way
\* to close an open runtime stays on it.
LEMMA DecidingKeepsInv ==
  ASSUME BridgeInv, NEW a \in Admins,
         CheckPrevious(a) \/ FetchToClose(a) \/ ShutAlready(a) \/ DrainPanics(a)
  PROVE  BridgeInv'
<1> USE DEF AdminGoto, AdminReturn, storeVars, clientVars
<1> USE DEF CheckPrevious, FetchToClose, ShutAlready, DrainPanics
<1>1. RequestsAreIssued' /\ HeldIsNamed' /\ IdsAreCounted'
  BY AdminsLeaveClients
<1>2. 1 \in Runtimes
  BY BridgeAssumption DEF Runtimes
<1>3. TypeOK'
  BY <1>2 DEF BridgeInv, TypeOK
<1>4. CurrentIsNewest' /\ OneDrainEach'
  <2>1. CurrentIsNewest' /\ UNCHANGED phase
    BY DEF BridgeInv, CurrentIsNewest
  <2>2. \A b \in Admins : apc'[b] = "drain" => apc[b] = "drain" /\ target'[b] = target[b]
    BY DEF BridgeInv, TypeOK
  <2> QED BY <2>1, <2>2 DEF BridgeInv, OneDrainEach
<1>5. ClearedStaysEmpty'
  BY DEF BridgeInv, ClearedStaysEmpty, Known, Running
<1>6. ReplacedIsBeingClosed'
  <2> SUFFICES ASSUME NEW r \in Runtimes, r < current, phase[r] = "open"
               PROVE  \E b \in Admins : target'[b] = r /\ apc'[b] \in {"check", "close"}
    BY DEF ReplacedIsBeingClosed
  <2>1. PICK b \in Admins : target[b] = r /\ apc[b] \in {"check", "close"}
    BY DEF BridgeInv, ReplacedIsBeingClosed
  <2>2. target'[b] = r /\ apc'[b] \in {"check", "close"}
    BY <2>1 DEF BridgeInv, TypeOK
  <2> QED BY <2>2
<1> QED BY <1>1, <1>3, <1>4, <1>5, <1>6 DEF BridgeInv

\* The first closer of a runtime goes on to drain it, the only one to do so.
LEMMA ShutKeepsInv ==
  ASSUME BridgeInv, NEW a \in Admins, Shut(a)
  PROVE  BridgeInv'
<1> USE DEF AdminGoto, storeVars, clientVars
<1>1. RequestsAreIssued' /\ HeldIsNamed' /\ IdsAreCounted'
  BY AdminsLeaveClients DEF Shut
<1>2. TypeOK'
  BY DEF Shut, BridgeInv, TypeOK
<1>3. CurrentIsNewest' /\ OneDrainEach'
  BY DEF Shut, BridgeInv, TypeOK, CurrentIsNewest, OneDrainEach
<1>4. ClearedStaysEmpty'
  BY DEF Shut, BridgeInv, TypeOK, ClearedStaysEmpty, Known, Running
<1>5. ReplacedIsBeingClosed'
  BY DEF Shut, BridgeInv, TypeOK, ReplacedIsBeingClosed
<1> QED BY <1>1, <1>2, <1>3, <1>4, <1>5 DEF BridgeInv

\* The drain has ended: the store is empty, and its ids name nothing.
LEMMA ClearKeepsInv ==
  ASSUME BridgeInv, NEW a \in Admins, Clear(a), NEW t \in Runtimes, t = target[a]
  PROVE  BridgeInv'
<1> USE DEF AdminGoto, AdminReturn, storeVars, clientVars
<1>1. RequestsAreIssued' /\ HeldIsNamed'
  BY AdminsLeaveClients DEF Clear
<1>2. /\ items' = [items EXCEPT ![t] = [k \in Ids |-> Absent]]
      /\ phase' = [phase EXCEPT ![t] = "cleared"]
      /\ items \in [Runtimes -> [Ids -> Programs \cup {Absent}]]
      /\ phase \in [Runtimes -> {"open", "shut", "cleared"}]
  BY DEF Clear, BridgeInv, TypeOK
<1>3. 1 \in Runtimes
  BY BridgeAssumption DEF Runtimes
<1>4. items' \in [Runtimes -> [Ids -> Programs \cup {Absent}]]
  BY <1>2
<1>5. TypeOK'
  BY <1>2, <1>3, <1>4 DEF Clear, BridgeInv, TypeOK
<1>6. CurrentIsNewest' /\ OneDrainEach'
  BY DEF Clear, BridgeInv, TypeOK, CurrentIsNewest, OneDrainEach
<1>7. ReplacedIsBeingClosed'
  BY DEF Clear, BridgeInv, TypeOK, ReplacedIsBeingClosed
<1>8. ClearedStaysEmpty'
  BY <1>2 DEF Clear, BridgeInv, ClearedStaysEmpty, Known, Running
<1>9. IdsAreCounted'
  <2>1. \A r \in Runtimes, k \in Ids : items'[r][k] \in {items[r][k], Absent}
    BY <1>2
  <2>2. \A r \in Runtimes : Preparing(r)' = Preparing(r)
    BY DEF Clear, Preparing
  <2> QED BY <2>1, <2>2 DEF Clear, BridgeInv, IdsAreCounted
<1> QED BY <1>1, <1>5, <1>6, <1>7, <1>8, <1>9 DEF BridgeInv

\* Every step keeps the invariant.
LEMMA BridgeStep == BridgeInv /\ [Next]_vars => BridgeInv'
<1> SUFFICES ASSUME BridgeInv, [Next]_vars PROVE BridgeInv'
  OBVIOUS
<1>1. (\A o \in Clients : rt[o] \in Runtimes) /\ (\A a \in Admins : target[a] \in Runtimes)
  BY DEF BridgeInv, TypeOK
<1>2. ASSUME NEW o \in Clients, OpStep(o) PROVE BridgeInv'
  BY <1>1, <1>2, PassingKeepsInv, PrepareKeepsInv, FindProgramKeepsInv, ReleaseProgramKeepsInv
     DEF OpStep
<1>3. ASSUME NEW o \in Clients, NEW q \in Requests, Fetch(o, q) PROVE BridgeInv'
  BY <1>3, FetchKeepsInv
<1>4. ASSUME NEW a \in Admins, AdminStep(a) \/ Replace(a) \/ FetchToClose(a) PROVE BridgeInv'
  BY <1>1, <1>4, ReplaceKeepsInv, DecidingKeepsInv, ShutKeepsInv, ClearKeepsInv DEF AdminStep
<1>5. CASE UNCHANGED vars
  <2> USE DEF vars, storeVars, clientVars, adminVars
  <2>1. RequestsAreIssued' /\ HeldIsNamed' /\ IdsAreCounted'
    BY <1>5, AdminsLeaveClients
  <2>2. CurrentIsNewest' /\ OneDrainEach' /\ ReplacedIsBeingClosed'
    BY <1>5, ClientsLeaveAdmins
  <2>3. TypeOK' /\ ClearedStaysEmpty'
    BY <1>5 DEF BridgeInv, TypeOK, ClearedStaysEmpty, Known, Running
  <2> QED BY <2>1, <2>2, <2>3 DEF BridgeInv
<1> QED BY <1>2, <1>3, <1>4, <1>5 DEF Next

LEMMA BridgeInvariant == Spec => []BridgeInv
BY InitBridge, BridgeStep, PTL DEF Spec

-----------------------------------------------------------------------------
\* The variables of the bridge, its stores and its callers keep their types.
THEOREM TypeCorrect == Spec => []TypeOK
<1>1. BridgeInv => TypeOK
  BY DEF BridgeInv
<1> QED BY <1>1, BridgeInvariant, PTL

\* cel_bridge_create: whatever creates and closes overlap, a runtime that was
\* replaced while it was open has somebody on the way to close it.
THEOREM ReplacedIsNotForgotten == Spec => []ReplacedIsBeingClosed
<1>1. BridgeInv => ReplacedIsBeingClosed
  BY DEF BridgeInv
<1> QED BY <1>1, BridgeInvariant, PTL

\* Runtime.Close clears the store last: nothing is put into it afterwards, and
\* no operation is left to do so.
THEOREM ClearedIsFinal == Spec => []ClearedStaysEmpty
<1>1. BridgeInv => ClearedStaysEmpty
  BY DEF BridgeInv
<1> QED BY <1>1, BridgeInvariant, PTL

\* preparedStore: an id evaluates the program that it was issued for.
THEOREM IdsNamePrograms == Spec => []IdNamesItsProgram
<1>1. BridgeInv => IdNamesItsProgram
  BY DEF BridgeInv, HeldIsNamed, IdNamesItsProgram
<1> QED BY <1>1, BridgeInvariant, PTL

\* A step of the bridge is at most one step of each runtime's gate.
LEMMA GateStep ==
  ASSUME BridgeInv, [Next]_vars, NEW r \in Runtimes
  PROVE  Gate(r)!Next \/ UNCHANGED <<phase[r], Running(r)>>
<1> USE DEF Goto, AdminGoto, Inside
<1>1. CASE UNCHANGED vars
  BY <1>1 DEF vars, clientVars, Running
<1>2. ASSUME NEW o \in Clients, Begin(o)
      PROVE  Gate(r)!Next \/ UNCHANGED <<phase[r], Running(r)>>
  <2>1. CASE rt[o] = r
    <3>1. /\ phase[r] = "open" /\ UNCHANGED phase[r]
          /\ o \notin Running(r) /\ Running(r)' = Running(r) \cup {o}
      BY <1>2, <2>1 DEF Begin, BridgeInv, TypeOK, Running
    <3> QED BY <3>1 DEF Gate!Next, Gate!Admit
  <2>2. CASE rt[o] # r
    BY <1>2, <2>2 DEF Begin, BridgeInv, TypeOK, Running
  <2> QED BY <2>1, <2>2
<1>3. ASSUME NEW o \in Clients, End(o)
      PROVE  Gate(r)!Next \/ UNCHANGED <<phase[r], Running(r)>>
  <2>1. CASE rt[o] = r
    <3>1. UNCHANGED phase[r] /\ o \in Running(r) /\ Running(r)' = Running(r) \ {o}
      BY <1>3, <2>1 DEF End, Return, BridgeInv, TypeOK, Running
    <3> QED BY <3>1 DEF Gate!Next, Gate!Leave
  <2>2. CASE rt[o] # r
    BY <1>3, <2>2 DEF End, Return, BridgeInv, TypeOK, Running
  <2> QED BY <2>1, <2>2
<1>4. ASSUME NEW o \in Clients,
             \/ \E q \in Requests : Fetch(o, q)
             \/ Refuse(o) \/ Reject(o) \/ PrepareFull(o) \/ Prepare(o)
             \/ FindProgram(o) \/ ReleaseProgram(o) \/ NotFound(o)
      PROVE  UNCHANGED <<phase[r], Running(r)>>
  BY <1>4 DEF Fetch, Refuse, Return, Reject, PrepareFull, Prepare, FindProgram, ReleaseProgram,
              NotFound, BridgeInv, TypeOK, Running
<1>5. ASSUME NEW a \in Admins, Shut(a)
      PROVE  Gate(r)!Next \/ UNCHANGED <<phase[r], Running(r)>>
  <2>1. Running(r)' = Running(r)
    BY <1>5 DEF Shut, clientVars, Running
  <2>2. CASE target[a] = r
    BY <1>5, <2>1, <2>2 DEF Shut, BridgeInv, TypeOK, Gate!Next, Gate!Shut
  <2>3. CASE target[a] # r
    BY <1>5, <2>1, <2>3 DEF Shut, BridgeInv, TypeOK
  <2> QED BY <2>2, <2>3
<1>6. ASSUME NEW a \in Admins, Clear(a)
      PROVE  Gate(r)!Next \/ UNCHANGED <<phase[r], Running(r)>>
  <2>1. Running(r)' = Running(r)
    BY <1>6 DEF Clear, clientVars, Running
  <2>2. CASE target[a] = r
    <3>1. phase[r] = "shut" /\ phase'[r] = "cleared" /\ Running(r) = {}
      BY <1>6, <2>2 DEF Clear, AdminReturn, BridgeInv, TypeOK, OneDrainEach
    <3> QED BY <2>1, <3>1 DEF Gate!Next, Gate!Clear
  <2>3. CASE target[a] # r
    BY <1>6, <2>1, <2>3 DEF Clear, BridgeInv, TypeOK
  <2> QED BY <2>2, <2>3
<1>7. ASSUME NEW a \in Admins,
             CheckPrevious(a) \/ ShutAlready(a) \/ DrainPanics(a) \/ Replace(a) \/ FetchToClose(a)
      PROVE  UNCHANGED <<phase[r], Running(r)>>
  BY <1>7 DEF CheckPrevious, ShutAlready, DrainPanics, Replace, FetchToClose, clientVars, Running
<1>8. ASSUME NEW o \in Clients, OpStep(o)
      PROVE  Gate(r)!Next \/ UNCHANGED <<phase[r], Running(r)>>
  BY <1>2, <1>3, <1>4, <1>8 DEF OpStep
<1>9. ASSUME NEW a \in Admins, AdminStep(a)
      PROVE  Gate(r)!Next \/ UNCHANGED <<phase[r], Running(r)>>
  BY <1>5, <1>6, <1>7, <1>9 DEF AdminStep
<1> QED BY <1>1, <1>4, <1>7, <1>8, <1>9 DEF Next

\* celbridge.go: creates and closes of the process overlap in any way, and yet
\* each runtime is shut once and cleared once everybody it let in has left.
THEOREM EachRuntimeIsAGate == Spec => GatesHold
<1> SUFFICES ASSUME NEW r \in Runtimes PROVE Spec => Gate(r)!Spec
  BY DEF GatesHold
<1>1. Init => Gate(r)!Init
  BY DEF Init, Gate!Init, Running, Inside
<1>2. BridgeInv /\ [Next]_vars => [Gate(r)!Next]_(Gate(r)!gateVars)
  BY GateStep DEF Gate!gateVars
<1> QED BY <1>1, <1>2, BridgeInvariant, PTL DEF Spec, Gate!Spec

=============================================================================
