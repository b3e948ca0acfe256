------------------------------ MODULE ThreadUsage ------------------------------
(***************************************************************************)
(* The using_threads() switch, src/src/thread_usage.h and src/src/mutex.h, *)
(* on the pthreads backend.  uses_threads (impl/base/mutex.c) starts false *)
(* and set_using_threads changes it.  Every THREAD_LOCK, THREAD_TRYLOCK,   *)
(* THREAD_UNLOCK and every thread_*_fetch_* / compare_exchange reads it    *)
(* anew: when true they lock the mutex or use the atomic, when false they  *)
(* do nothing or a plain read-modify-write.                                *)
(*                                                                         *)
(* The program around them follows the contract of thread_usage.h: the    *)
(* Main thread calls set_using_threads(true) before thread_start of a      *)
(* worker, and set_using_threads(false) only once every started worker is *)
(* joined; it calls it outside its locked sections.  Every thread makes up *)
(* to MaxOps calls, each one of: a section THREAD_LOCK (or a successful    *)
(* THREAD_TRYLOCK), plain increment of `shared`, THREAD_UNLOCK; a          *)
(* thread_add_fetch_32(&counter, 1); or a compare-exchange increment loop  *)
(* on `counter`; or a thread_swap_ptr of the pointer it holds with the     *)
(* shared pointer `slot`.  The counters are int32_t and wrap.              *)
(***************************************************************************)
EXTENDS Integers, Functions

CONSTANTS
  Main,        \* the thread that switches the mode and starts the others
  Workers,     \* threads started with thread_start
  NULL,
  Init0,       \* initial value of both counters
  MaxOps,      \* bound: calls per thread
  MaxFlips     \* bound: set_using_threads calls

ASSUME Main \notin Workers /\ NULL \notin Workers \cup {Main}
       /\ MaxOps \in Nat /\ MaxFlips \in Nat

Threads == {Main} \cup Workers

MaxInt32 == 2147483647
MinInt32 == -MaxInt32 - 1

(* x + n for an int32_t x and a small n >= 0, wrapped to 32 bits in two's *)
(* complement as the add instruction does; no intermediate value leaves  *)
(* the int32 range.                                                        *)
AddWrap32(x, n) ==
  IF x > MaxInt32 - n THEN (x - MaxInt32) + (n - 1) + MinInt32 ELSE x + n

ASSUME Init0 \in MinInt32..MaxInt32

VARIABLES
  uses_threads, \* the global flag
  started,      \* workers started with thread_start
  joined,       \* workers joined with thread_join
  pc,           \* position of each thread
  owner,        \* holder of the pthread mutex m_lock, or NULL
  shared,       \* int32_t updated inside the locked sections
  counter,      \* atomic_int32_t updated with thread_usage.h operations
  tmp,          \* a thread's loaded value or `compare` argument
  ops,          \* calls made by each thread
  flips,        \* set_using_threads calls made
  sdone,        \* ghost: increments of shared stored
  cdone,        \* ghost: increments of counter stored
  slot,         \* atomic_intptr_t exchanged with thread_swap_ptr
  held          \* the pointer each thread holds and swaps into slot

vars == << uses_threads, started, joined, pc, owner, shared, counter, tmp,
           ops, flips, sdone, cdone, slot, held >>

(* A thread runs once started and until joined; Main always runs. *)
Running(t) == t = Main \/ t \in started \ joined

Init ==
  /\ uses_threads = FALSE
  /\ started = {} /\ joined = {}
  /\ pc = [t \in Threads |-> "idle"]
  /\ owner = NULL
  /\ shared = Init0 /\ counter = Init0
  /\ tmp = [t \in Threads |-> 0]
  /\ ops = [t \in Threads |-> 0]
  /\ flips = 0 /\ sdone = 0 /\ cdone = 0
  /\ slot = NULL /\ held = [t \in Threads |-> t]

Call(t, to) ==
  /\ pc[t] = "idle" /\ Running(t) /\ ops[t] < MaxOps
  /\ ops' = [ops EXCEPT ![t] = @ + 1]
  /\ pc' = [pc EXCEPT ![t] = to]

Goto(t, from, to) == pc[t] = from /\ pc' = [pc EXCEPT ![t] = to]
-----------------------------------------------------------------------------
(* set_using_threads(have): uses_threads = have.  Main calls it between    *)
(* its calls, true before starting workers, false once all are joined.    *)
set_using_threads(have) ==
  /\ pc[Main] = "idle" /\ flips < MaxFlips
  /\ have # uses_threads
  /\ ~have => started = joined
  /\ uses_threads' = have
  /\ flips' = flips + 1
  /\ UNCHANGED << started, joined, pc, owner, shared, counter, tmp, ops,
                  sdone, cdone, slot, held >>

(* thread_start(w): pthread_create, after set_using_threads(true). *)
thread_start(w) ==
  /\ pc[Main] = "idle" /\ uses_threads /\ w \notin started
  /\ started' = started \cup {w}
  /\ UNCHANGED << uses_threads, joined, pc, owner, shared, counter, tmp, ops,
                  flips, sdone, cdone, slot, held >>

(* thread_join(w): returns once w has made its calls and exited. *)
thread_join(w) ==
  /\ pc[Main] = "idle" /\ w \in started \ joined
  /\ pc[w] = "idle" /\ ops[w] = MaxOps
  /\ joined' = joined \cup {w}
  /\ UNCHANGED << uses_threads, started, pc, owner, shared, counter, tmp, ops,
                  flips, sdone, cdone, slot, held >>

(* thread_internal_mutex_lock: pthread_mutex_lock blocks while the mutex *)
(* is held, then takes it.                                                 *)
thread_internal_mutex_lock(t) == owner = NULL /\ owner' = t

(* thread_internal_mutex_unlock: pthread_mutex_unlock. *)
thread_internal_mutex_unlock == owner' = NULL

(* THREAD_LOCK(m): mutex_lock if using_threads(), else nothing. *)
THREAD_LOCK(t) ==
  /\ Call(t, "cs_load")
  /\ IF uses_threads THEN thread_internal_mutex_lock(t) ELSE UNCHANGED owner
  /\ UNCHANGED << uses_threads, started, joined, shared, counter, tmp, flips,
                  sdone, cdone, slot, held >>

(* thread_internal_mutex_trylock: 0 if pthread_mutex_trylock took the     *)
(* mutex, 1 if it is held.                                                 *)
thread_internal_mutex_trylock == IF owner = NULL THEN 0 ELSE 1

(* THREAD_TRYLOCK(m): mutex_trylock if using_threads(), else 0.  The      *)
(* caller runs its section when the result is 0.                           *)
THREAD_TRYLOCK(t) ==
  /\ LET ret == IF uses_threads THEN thread_internal_mutex_trylock ELSE 0 IN
       /\ Call(t, IF ret = 0 THEN "cs_load" ELSE "idle")
       /\ owner' = IF uses_threads /\ ret = 0 THEN t ELSE owner
  /\ UNCHANGED << uses_threads, started, joined, shared, counter, tmp, flips,
                  sdone, cdone, slot, held >>

(* The section: a plain load and store of shared. *)
CsLoad(t) ==
  /\ Goto(t, "cs_load", "cs_store")
  /\ tmp' = [tmp EXCEPT ![t] = shared]
  /\ UNCHANGED << uses_threads, started, joined, owner, shared, counter, ops,
                  flips, sdone, cdone, slot, held >>

CsStore(t) ==
  /\ Goto(t, "cs_store", "cs_unlock")
  /\ shared' = AddWrap32(tmp[t], 1)
  /\ sdone' = sdone + 1
  /\ UNCHANGED << uses_threads, started, joined, owner, counter, tmp, ops,
                  flips, cdone, slot, held >>

(* THREAD_UNLOCK(m): mutex_unlock if using_threads(), else nothing. *)
THREAD_UNLOCK(t) ==
  /\ Goto(t, "cs_unlock", "idle")
  /\ IF uses_threads THEN thread_internal_mutex_unlock ELSE UNCHANGED owner
  /\ UNCHANGED << uses_threads, started, joined, shared, counter, tmp, ops,
                  flips, sdone, cdone, slot, held >>

(* Mutant: the fallback is taken whatever using_threads() says. *)
thread_add_fetch_32_plain(t) ==
  /\ Call(t, "af_store")
  /\ tmp' = [tmp EXCEPT ![t] = counter]
  /\ UNCHANGED << uses_threads, started, joined, owner, shared, counter, flips,
                  sdone, cdone, slot, held >>

(* thread_add_fetch_32(&counter, 1): atomic_add_fetch_32 if               *)
(* using_threads(), else the plain `*addr = *addr + delta`, a load and a  *)
(* store.  thread_fetch_add_32 changes the counter the same way.           *)
thread_add_fetch_32(t) ==
  /\ IF uses_threads
     THEN /\ Call(t, "idle")
          /\ counter' = AddWrap32(counter, 1) /\ cdone' = cdone + 1
          /\ UNCHANGED tmp
     ELSE /\ Call(t, "af_store")
          /\ tmp' = [tmp EXCEPT ![t] = counter]
          /\ UNCHANGED << counter, cdone >>
  /\ UNCHANGED << uses_threads, started, joined, owner, shared, flips, sdone,
                  slot, held >>

AddFetchStore(t) ==
  /\ Goto(t, "af_store", "idle")
  /\ counter' = AddWrap32(tmp[t], 1) /\ cdone' = cdone + 1
  /\ UNCHANGED << uses_threads, started, joined, owner, shared, tmp, ops,
                  flips, sdone, slot, held >>

(* A compare-exchange increment: old = counter, then                      *)
(* thread_compare_exchange_strong_32(&counter, &old, old + 1) until true. *)
CasLoad(t) ==
  /\ Call(t, "cas")
  /\ tmp' = [tmp EXCEPT ![t] = counter]
  /\ UNCHANGED << uses_threads, started, joined, owner, shared, counter, flips,
                  sdone, cdone, slot, held >>

(* thread_compare_exchange_strong_32: the atomic when using_threads(),   *)
(* else a plain compare then a store; on a mismatch both write the        *)
(* current value to *compare and the loop retries.                        *)
thread_compare_exchange_strong_32(t) ==
  /\ pc[t] = "cas"
  /\ IF counter # tmp[t]
     THEN /\ tmp' = [tmp EXCEPT ![t] = counter]
          /\ UNCHANGED << pc, counter, cdone >>
     ELSE IF uses_threads
          THEN /\ counter' = AddWrap32(tmp[t], 1) /\ cdone' = cdone + 1
               /\ pc' = [pc EXCEPT ![t] = "idle"]
               /\ UNCHANGED tmp
          ELSE /\ pc' = [pc EXCEPT ![t] = "cas_store"]
               /\ UNCHANGED << tmp, counter, cdone >>
  /\ UNCHANGED << uses_threads, started, joined, owner, shared, ops, flips,
                  sdone, slot, held >>

CasStore(t) ==
  /\ Goto(t, "cas_store", "idle")
  /\ counter' = AddWrap32(tmp[t], 1) /\ cdone' = cdone + 1
  /\ UNCHANGED << uses_threads, started, joined, owner, shared, tmp, ops,
                  flips, sdone, slot, held >>

(* Mutant: the swap takes the plain path whatever using_threads() says. *)
thread_swap_ptr_plain(t) ==
  /\ Call(t, "sw_store")
  /\ tmp' = [tmp EXCEPT ![t] = slot]
  /\ UNCHANGED << uses_threads, started, joined, owner, shared, counter, flips,
                  sdone, cdone, slot, held >>

(* THREAD_SWAP_PTR(&slot, held): atomic_swap_ptr if using_threads(), else *)
(* a plain load of the old pointer and a store of the new one; the caller *)
(* keeps the returned old pointer.                                         *)
thread_swap_ptr(t) ==
  /\ IF uses_threads
     THEN /\ Call(t, "idle")
          /\ slot' = held[t] /\ held' = [held EXCEPT ![t] = slot]
          /\ UNCHANGED tmp
     ELSE /\ Call(t, "sw_store")
          /\ tmp' = [tmp EXCEPT ![t] = slot]
          /\ UNCHANGED << slot, held >>
  /\ UNCHANGED << uses_threads, started, joined, owner, shared, counter, flips,
                  sdone, cdone >>

SwapStore(t) ==
  /\ Goto(t, "sw_store", "idle")
  /\ slot' = held[t] /\ held' = [held EXCEPT ![t] = tmp[t]]
  /\ UNCHANGED << uses_threads, started, joined, owner, shared, counter, tmp,
                  ops, flips, sdone, cdone >>

ThreadStep(t) ==
  \/ THREAD_LOCK(t) \/ THREAD_TRYLOCK(t) \/ CsLoad(t) \/ CsStore(t)
  \/ THREAD_UNLOCK(t) \/ thread_add_fetch_32(t) \/ AddFetchStore(t)
  \/ CasLoad(t) \/ thread_compare_exchange_strong_32(t) \/ CasStore(t)
  \/ thread_swap_ptr(t) \/ SwapStore(t)

Next ==
  \/ \E have \in BOOLEAN : set_using_threads(have)
  \/ \E w \in Workers : thread_start(w) \/ thread_join(w)
  \/ \E t \in Threads : ThreadStep(t)

Spec == Init /\ [][Next]_vars
-----------------------------------------------------------------------------
(* No increment is lost: each counter equals its initial value plus the   *)
(* increments stored, modulo 2^32, whichever mode each call ran in.        *)
NoLostUpdate ==
  /\ shared = AddWrap32(Init0, sdone)
  /\ counter = AddWrap32(Init0, cdone)

(* No pointer is lost or duplicated by thread_swap_ptr: the pointers held *)
(* and the one in slot are always the initial ones, each exactly once, so *)
(* every swap returned the pointer the previous swap stored.              *)
PointersConserved == Range(held) \cup {slot} = Threads \cup {NULL}

=============================================================================
