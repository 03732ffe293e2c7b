----------------------------- MODULE WaitGroup -----------------------------
(***************************************************************************)
(* sync.WaitGroup as Runtime.inflight uses it: Add(1), Done() = Add(-1)    *)
(* and Wait().  External to the repository: the counter and the number of  *)
(* waiters share one 64-bit word that every method updates atomically, and *)
(* each step below is one access to that word or to the semaphore the      *)
(* waiters sleep on.  The package documents that "calls with a positive    *)
(* delta that occur when the counter is zero must happen before a Wait"    *)
(* and panics when it notices a call that did not.                         *)
(*                                                                         *)
(* At most one goroutine waits at a time here (Runtime.Close is guarded by *)
(* a Swap), so the word a Done re-reads can only differ in its counter.    *)
(***************************************************************************)
EXTENDS Integers

VARIABLES
  counter,  \* high half of the state word
  waiters,  \* low half of the state word
  tokens    \* wake-ups released to the semaphore and not yet taken

groupVars == <<counter, waiters, tokens>>

GroupInit == counter = 0 /\ waiters = 0 /\ tokens = 0

\* Add(1) panics when it moves the counter off zero under a sleeping waiter,
\* or finds it negative; the counter keeps the increment all the same.
Misused(value) == value < 0 \/ (waiters # 0 /\ value = 1)

AddOne ==
  /\ ~Misused(counter + 1)
  /\ counter' = counter + 1
  /\ UNCHANGED <<waiters, tokens>>

AddOnePanics ==
  /\ Misused(counter + 1)
  /\ counter' = counter + 1
  /\ UNCHANGED <<waiters, tokens>>

\* Done when others are still counted or nobody waits.
DoneQuietly ==
  /\ counter > 0
  /\ counter > 1 \/ waiters = 0
  /\ counter' = counter - 1
  /\ UNCHANGED <<waiters, tokens>>

\* Done that takes the counter below zero panics.
DonePanics ==
  /\ counter <= 0
  /\ counter' = counter - 1
  /\ UNCHANGED <<waiters, tokens>>

\* Done that takes it to zero while somebody waits goes on in two steps: the
\* word is read again and must not have changed, then it is reset and the
\* waiters are released.
DoneLast ==
  /\ counter = 1
  /\ waiters # 0
  /\ counter' = 0
  /\ UNCHANGED <<waiters, tokens>>

StillSettled == counter = 0

Release ==
  /\ counter' = 0
  /\ waiters' = 0
  /\ tokens' = tokens + waiters

\* Wait returns at once on zero, and otherwise registers and sleeps.
WaitPasses == counter = 0 /\ UNCHANGED groupVars

WaitSleeps ==
  /\ counter # 0
  /\ waiters' = waiters + 1
  /\ UNCHANGED <<counter, tokens>>

TakeToken ==
  /\ tokens > 0
  /\ tokens' = tokens - 1
  /\ UNCHANGED <<counter, waiters>>

\* A released waiter panics unless it finds the word still zero.
Reused == counter # 0 \/ waiters # 0

=============================================================================
