------------------------------- MODULE Singleton -------------------------------
(***************************************************************************)
(* Singleton<T>::instance() (base_utils/singleton.h): the object is made   *)
(* by the first caller, under a mutex and behind two tests of the pointer. *)
(* The first test reads the pointer outside the mutex, while another       *)
(* thread may be writing it: a data race, for which the compiler and the   *)
(* processor are free to publish the pointer before the object is          *)
(* constructed.                                                            *)
(***************************************************************************)
EXTENDS Integers, FiniteSets

CONSTANTS Threads,
          MaxCalls    \* bound: the calls of one thread

VARIABLES obj_instance,   \* the number of the object, 0 for NULL
          made,           \* how many objects there are
          built,          \* those that are constructed
          owner,          \* who holds mutex_
          pc, calls,
          got             \* what each thread's calls have returned
vars == <<obj_instance, made, built, owner, pc, calls, got>>

Nobody == {}

Init == /\ obj_instance = 0 /\ made = 0 /\ built = {}
        /\ owner = Nobody
        /\ pc = [t \in Threads |-> "idle"] /\ calls = [t \in Threads |-> 0]
        /\ got = [t \in Threads |-> {}]

Go(t, place) == pc' = [pc EXCEPT ![t] = place]

\* The test outside the mutex.
Call(t) == /\ pc[t] = "idle" /\ calls[t] < MaxCalls
           /\ calls' = [calls EXCEPT ![t] = @ + 1]
           /\ Go(t, IF obj_instance = 0 THEN "lock" ELSE "return")
           /\ UNCHANGED <<obj_instance, made, built, owner, got>>

Lock(t) == /\ pc[t] = "lock" /\ owner = Nobody
           /\ owner' = {t}
           /\ Go(t, "test")
           /\ UNCHANGED <<obj_instance, made, built, calls, got>>

\* MUTANT of Test: the pointer is not looked at again.
TestOnce(t) == /\ pc[t] = "test"
               /\ made' = made + 1
               /\ Go(t, "new")
               /\ UNCHANGED <<obj_instance, built, owner, calls, got>>

\* The test inside; with no object there the memory of one is taken.
Test(t) == /\ pc[t] = "test"
           /\ IF obj_instance = 0 THEN made' = made + 1 /\ Go(t, "new")
                                  ELSE UNCHANGED made /\ Go(t, "unlock")
           /\ UNCHANGED <<obj_instance, built, owner, calls, got>>

\* new T and the assignment, in the order of the program or in the other.
Construct(t) == /\ pc[t] \in {"new", "stored"}
                /\ built' = built \cup {made}
                /\ Go(t, IF pc[t] = "new" THEN "constructed" ELSE "unlock")
                /\ UNCHANGED <<obj_instance, made, owner, calls, got>>

Store(t) == /\ pc[t] \in {"new", "constructed"}
            /\ obj_instance' = made
            /\ Go(t, IF pc[t] = "new" THEN "stored" ELSE "unlock")
            /\ UNCHANGED <<made, built, owner, calls, got>>

Unlock(t) == /\ pc[t] = "unlock"
             /\ owner' = Nobody
             /\ Go(t, "return")
             /\ UNCHANGED <<obj_instance, made, built, calls, got>>

Return(t) == /\ pc[t] = "return"
             /\ got' = [got EXCEPT ![t] = @ \cup {obj_instance}]
             /\ Go(t, "idle")
             /\ UNCHANGED <<obj_instance, made, built, owner, calls>>

Next == \E t \in Threads : \/ Call(t) \/ Lock(t) \/ Test(t) \/ Construct(t) \/ Store(t)
                           \/ Unlock(t) \/ Return(t)

Spec == Init /\ [][Next]_vars
------------------------------------------------------------------------------
Places == {"idle", "lock", "test", "new", "stored", "constructed", "unlock", "return"}

TypeOK == /\ made \in Nat /\ obj_instance \in 0..made /\ built \subseteq 1..made
          /\ owner \in {Nobody} \cup {{t} : t \in Threads}
          /\ pc \in [Threads -> Places] /\ calls \in [Threads -> Nat]
          /\ got \in [Threads -> SUBSET Nat]

(***************************************************************************)
(* Callers that arrive together, before there is an object, make one       *)
(* object between them and all get it, never NULL (singleton.h:9-20); and  *)
(* whoever comes out of the mutex gets it constructed. Those that only     *)
(* look from outside may get it raw: the price of that first test.         *)
(***************************************************************************)
OneObject == /\ made <= 1
             /\ \A t \in Threads : /\ got[t] \subseteq {1}
                                   /\ pc[t] = "unlock" => obj_instance \in built
==============================================================================
