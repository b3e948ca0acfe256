------------------------------ MODULE TrackedKey ------------------------------
(***************************************************************************)
(* A tracked thread-specific-data key, src/src/impl/base/tsd.c, on the     *)
(* pthreads backend (threads_pthreads_tsd.h).                              *)
(*                                                                         *)
(* Every thread that calls tsd_tracked_key_set gets one list item, named   *)
(* here by the thread, linked into key->tsd_list under key->mutex and      *)
(* stored in the thread's pthread slot.  At thread exit the pthread        *)
(* runtime takes the slot's value, clears the slot and runs                *)
(* _tracked_destructor, as long as the key has not been deleted.  The     *)
(* Owner thread destroys the key: tsd_tracked_key_destructor deletes the   *)
(* pthread key, then releases every item still in the list without taking *)
(* key->mutex, then destroys the mutex and the list.  Before it starts,    *)
(* the Owner has joined the threads in Joined.                             *)
(*                                                                         *)
(* tsd_tracked_key_set on a thread that already has an item only changes   *)
(* its data, and a failing OBJ_NEW returns without a change; neither is a *)
(* step here.  The item's data and the user destructor are left out: the  *)
(* user destructor runs right before each OBJ_RELEASE.                     *)
(***************************************************************************)
EXTENDS Integers, Sequences, SequencesExt

CONSTANTS
  Workers,   \* threads that set the key and exit
  Owner,     \* the thread that destroys the key; it may set it too
  Joined,    \* workers joined by the Owner before it destroys the key
  NoThread

ASSUME /\ Owner \notin Workers
       /\ Joined \subseteq Workers

Threads == Workers \cup {Owner}

VARIABLES
  pc,         \* position of each thread
  slot,       \* slot[t]: pthread_getspecific(key->key) is t's item
  tsd_list,   \* key->tsd_list, items in list order
  holder,     \* holder of key->mutex
  key_live,   \* the pthread key exists (not yet tsd_key_delete'd)
  mutex_live, \* key->mutex and key->tsd_list are constructed
  allocated,  \* items made by OBJ_NEW
  releases    \* number of OBJ_RELEASE calls on each item

vars == << pc, slot, tsd_list, holder, key_live, mutex_live, allocated,
           releases >>

(* tsd_tracked_key_constructor: an empty list, an unlocked mutex, a key.   *)
Init ==
  /\ pc = [t \in Threads |-> "run"]
  /\ slot = [t \in Threads |-> FALSE]
  /\ tsd_list = << >>
  /\ holder = NoThread
  /\ key_live = TRUE
  /\ mutex_live = TRUE
  /\ allocated = {}
  /\ releases = [t \in Threads |-> 0]

(* Mutant: the `NULL == tsd` test is dropped; every call appends an item. *)
tsd_tracked_key_set_no_check(t) ==
  /\ pc[t] = "run" /\ key_live
  /\ holder = NoThread
  /\ allocated' = allocated \cup {t}
  /\ tsd_list' = Append(tsd_list, t)
  /\ slot' = [slot EXCEPT ![t] = TRUE]
  /\ UNCHANGED << pc, holder, key_live, mutex_live, releases >>

(* tsd_tracked_key_set by a thread without an item: tsd_get finds NULL,    *)
(* OBJ_NEW, then append under key->mutex, then tsd_set.  Callers only set *)
(* a key that is not being destroyed.                                      *)
tsd_tracked_key_set(t) ==
  /\ pc[t] = "run" /\ key_live /\ ~slot[t] /\ t \notin allocated
  /\ holder = NoThread
  /\ allocated' = allocated \cup {t}
  /\ tsd_list' = Append(tsd_list, t)
  /\ slot' = [slot EXCEPT ![t] = TRUE]
  /\ UNCHANGED << pc, holder, key_live, mutex_live, releases >>

(* Thread exit: if the key still exists and the slot is non-NULL, the     *)
(* runtime clears the slot and calls _tracked_destructor(item).  The      *)
(* Owner exits after destroying the key.                                   *)
ThreadExit(t) ==
  /\ pc[t] = "run"
  /\ t = Owner => ~mutex_live
  /\ IF key_live /\ slot[t]
     THEN /\ pc' = [pc EXCEPT ![t] = "d_lock"]
          /\ slot' = [slot EXCEPT ![t] = FALSE]
     ELSE /\ pc' = [pc EXCEPT ![t] = "done"]
          /\ UNCHANGED slot
  /\ UNCHANGED << tsd_list, holder, key_live, mutex_live, allocated, releases >>

(* _tracked_destructor: mutex_lock(&key->mutex).                           *)
DestructorLock(t) ==
  /\ pc[t] = "d_lock" /\ holder = NoThread
  /\ holder' = t
  /\ pc' = [pc EXCEPT ![t] = "d_remove"]
  /\ UNCHANGED << slot, tsd_list, key_live, mutex_live, allocated, releases >>

(* list_remove_item(&key->tsd_list, item); mutex_unlock(&key->mutex).     *)
DestructorRemove(t) ==
  /\ pc[t] = "d_remove"
  /\ tsd_list' = Remove(tsd_list, t)
  /\ holder' = NoThread
  /\ pc' = [pc EXCEPT ![t] = "d_release"]
  /\ UNCHANGED << slot, key_live, mutex_live, allocated, releases >>

(* user_destructor(item->data); OBJ_RELEASE(item).                          *)
DestructorRelease(t) ==
  /\ pc[t] = "d_release"
  /\ releases' = [releases EXCEPT ![t] = @ + 1]
  /\ pc' = [pc EXCEPT ![t] = "done"]
  /\ UNCHANGED << slot, tsd_list, holder, key_live, mutex_live, allocated >>

(* Mutant: the Owner destroys the key without joining its workers.        *)
KeyDelete_no_join ==
  /\ pc[Owner] = "run" /\ key_live
  /\ key_live' = FALSE
  /\ pc' = [pc EXCEPT ![Owner] = "o_walk"]
  /\ UNCHANGED << slot, tsd_list, holder, mutex_live, allocated, releases >>

(* tsd_tracked_key_destructor, after the Owner joined the Joined workers: *)
(* tsd_key_delete(key->key).                                               *)
KeyDelete ==
  /\ pc[Owner] = "run" /\ key_live
  /\ \A w \in Joined : pc[w] = "done"
  /\ key_live' = FALSE
  /\ pc' = [pc EXCEPT ![Owner] = "o_walk"]
  /\ UNCHANGED << slot, tsd_list, holder, mutex_live, allocated, releases >>

(* Mutant: the walk stops one item before the end of the list.            *)
KeyWalk_short ==
  /\ pc[Owner] = "o_walk"
  /\ IF Len(tsd_list) > 1
     THEN LET i == Head(tsd_list) IN
          /\ tsd_list' = Tail(tsd_list)
          /\ releases' = [releases EXCEPT ![i] = @ + 1]
          /\ UNCHANGED << pc, mutex_live >>
     ELSE /\ mutex_live' = FALSE
          /\ pc' = [pc EXCEPT ![Owner] = "run"]
          /\ UNCHANGED << tsd_list, releases >>
  /\ UNCHANGED << slot, holder, key_live, allocated >>

(* One round of LIST_FOREACH_SAFE, without key->mutex: remove the first    *)
(* item, user_destructor, OBJ_RELEASE; at the end of the list              *)
(* OBJ_DESTRUCT the mutex and the list.                                    *)
KeyWalk ==
  /\ pc[Owner] = "o_walk"
  /\ IF tsd_list # << >>
     THEN LET i == Head(tsd_list) IN
          /\ tsd_list' = Tail(tsd_list)
          /\ releases' = [releases EXCEPT ![i] = @ + 1]
          /\ UNCHANGED << pc, mutex_live >>
     ELSE /\ mutex_live' = FALSE
          /\ pc' = [pc EXCEPT ![Owner] = "run"]
          /\ UNCHANGED << tsd_list, releases >>
  /\ UNCHANGED << slot, holder, key_live, allocated >>

Next ==
  \/ \E t \in Threads :
       \/ tsd_tracked_key_set(t) \/ ThreadExit(t)
       \/ DestructorLock(t) \/ DestructorRemove(t) \/ DestructorRelease(t)
  \/ KeyDelete \/ KeyWalk

Spec == Init /\ [][Next]_vars
-----------------------------------------------------------------------------
(* Types, and an item is linked into tsd_list at most once.               *)
TypeOK ==
  /\ pc \in [Threads -> {"run", "d_lock", "d_remove", "d_release", "o_walk", "done"}]
  /\ slot \in [Threads -> BOOLEAN]
  /\ tsd_list \in Seq(Threads) /\ IsInjective(tsd_list)
  /\ holder \in Threads \cup {NoThread}
  /\ allocated \subseteq Threads
  /\ releases \in [Threads -> Nat]

(* No item is released twice, whichever of its thread's exit and the      *)
(* key's destruction gets to it first.                                     *)
ReleasedOnce == \A t \in Threads : releases[t] <= 1

(* Once every thread has exited and the key is destroyed, every item made *)
(* by tsd_tracked_key_set has been released: none is leaked.               *)
NoLeak ==
  (\A t \in Threads : pc[t] = "done") /\ ~mutex_live
    => \A t \in allocated : releases[t] = 1
=============================================================================
