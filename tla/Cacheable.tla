------------------------------ MODULE Cacheable ------------------------------
(***************************************************************************)
(* The @Cacheable() decorator around one cache key: calls queue at a mutex *)
(* kept in a map, look into the cache, run the decorated method on a miss, *)
(* store its result, release the mutex and delete it from the map.         *)
(*                                                                         *)
(* A call that was queued holds on to the mutex it found; one that comes   *)
(* after the deletion makes a new mutex.  Mutexes are numbered in the      *)
(* order they are made.  The result of the method is the number of the     *)
(* execution that returned it, or None for null, which reads as a miss.    *)
(***************************************************************************)
EXTENDS Integers, Sequences

CONSTANTS Callers,  \* who calls the decorated method, one call at a time each
          MaxCalls  \* bound: calls

ASSUME CacheAssumption == MaxCalls \in Nat \ {0}

VARIABLES mutexOf,    \* functionCallMutexes: the key's mutex, or None
          made,       \* mutexes made so far
          queue,      \* per mutex, the callers that acquired or wait, in order
          cached,     \* the cache entry of the key, or None
          at,         \* per caller, the await it is at
          mutex,      \* per caller, the mutex it acquires
          result,     \* per caller, what it has got so far
          calls,      \* calls so far
          executions, \* executions started so far
          uncached    \* has a call ever left, or the ttl passed, with nothing cached?

cacheVars == <<mutexOf, made, queue, cached, at, mutex, result, calls, executions, uncached>>

None == 0
Mutexes == 1..MaxCalls
Results == 1..MaxCalls
CallStages == {"idle", "acquiring", "getting", "executing", "setting"}

CacheInit == /\ mutexOf = None
             /\ made = 0
             /\ queue = [m \in Mutexes |-> <<>>]
             /\ cached = None
             /\ at = [c \in Callers |-> "idle"]
             /\ mutex = [c \in Callers |-> None]
             /\ result = [c \in Callers |-> None]
             /\ calls = 0
             /\ executions = 0
             /\ uncached = FALSE

-----------------------------------------------------------------------------

\* The key's mutex in the map, or the next new one.
GetFunctionCallMutex == IF mutexOf = None THEN made + 1 ELSE mutexOf

\* A call finds or makes the key's mutex and queues for it.
Call(c) ==
  /\ at[c] = "idle"
  /\ calls < MaxCalls
  /\ calls' = calls + 1
  /\ LET m == GetFunctionCallMutex
     IN /\ mutexOf' = m
        /\ made' = IF m > made THEN m ELSE made
        /\ mutex' = [mutex EXCEPT ![c] = m]
        /\ queue' = [queue EXCEPT ![m] = Append(@, c)]
  /\ at' = [at EXCEPT ![c] = "acquiring"]
  /\ result' = [result EXCEPT ![c] = None]
  /\ UNCHANGED <<cached, executions, uncached>>

\* Mutant: the mutex lets everybody in.
Acquire_Open(c) ==
  /\ at[c] = "acquiring"
  /\ at' = [at EXCEPT ![c] = "getting"]
  /\ UNCHANGED <<mutexOf, made, queue, cached, mutex, result, calls, executions, uncached>>

\* The mutex is granted to the first in its queue.
Acquire(c) ==
  /\ at[c] = "acquiring"
  /\ Head(queue[mutex[c]]) = c
  /\ at' = [at EXCEPT ![c] = "getting"]
  /\ UNCHANGED <<mutexOf, made, queue, cached, mutex, result, calls, executions, uncached>>

\* Mutant: a call that ends by an error keeps its mutex.
Leave_Kept(c, got) == /\ mutexOf' = None
                      /\ IF got = None THEN UNCHANGED queue
                                       ELSE queue' = [queue EXCEPT ![mutex[c]] = Tail(@)]
                      /\ at' = [at EXCEPT ![c] = "idle"]
                      /\ result' = [result EXCEPT ![c] = got]

\* The finally clause: the mutex is released and the key's entry in the map
\* deleted, whichever mutex that entry is by now.
Leave(c, got) == /\ queue' = [queue EXCEPT ![mutex[c]] = Tail(@)]
                 /\ mutexOf' = None
                 /\ at' = [at EXCEPT ![c] = "idle"]
                 /\ result' = [result EXCEPT ![c] = got]

\* The cache has the key: the call returns what it holds.
Hit(c) == /\ at[c] = "getting"
          /\ cached # None
          /\ Leave(c, cached)
          /\ UNCHANGED <<made, cached, mutex, calls, executions, uncached>>

\* The cache has nothing: the decorated method is executed.
Miss(c) == /\ at[c] = "getting"
           /\ cached = None
           /\ executions' = executions + 1
           /\ at' = [at EXCEPT ![c] = "executing"]
           /\ result' = [result EXCEPT ![c] = executions + 1]
           /\ UNCHANGED <<mutexOf, made, queue, cached, mutex, calls, uncached>>

\* The method's promise is fulfilled, with a value or with null.
Return(c) == /\ at[c] = "executing"
             /\ at' = [at EXCEPT ![c] = "setting"]
             /\ \/ UNCHANGED result
                \/ result' = [result EXCEPT ![c] = None]
             /\ UNCHANGED <<mutexOf, made, queue, cached, mutex, calls, executions, uncached>>

\* The result is in the cache, the call returns it.
Set(c) == /\ at[c] = "setting"
          /\ cached' = result[c]
          /\ uncached' = (uncached \/ result[c] = None)
          /\ Leave(c, result[c])
          /\ UNCHANGED <<made, mutex, calls, executions>>

\* The cache or the method rejects: the finally clause runs, nothing is stored.
Reject(c) == /\ at[c] \in {"getting", "executing", "setting"}
             /\ uncached' = TRUE
             /\ Leave(c, None)
             /\ UNCHANGED <<made, cached, mutex, calls, executions>>

\* The entry's ttl is over, or the cache evicts it.
Expire == /\ cached # None
          /\ cached' = None
          /\ uncached' = TRUE
          /\ UNCHANGED <<mutexOf, made, queue, at, mutex, result, calls, executions>>

CallStep(c) == Acquire(c) \/ Hit(c) \/ Miss(c) \/ Return(c) \/ Set(c)

CacheNext == \/ Expire
             \/ \E c \in Callers : Call(c) \/ CallStep(c) \/ Reject(c)

CacheSpec == CacheInit /\ [][CacheNext]_cacheVars

\* The event loop resumes whatever can go on.
FairCacheSpec == CacheSpec /\ \A c \in Callers : WF_cacheVars(CallStep(c))

-----------------------------------------------------------------------------
CacheTypeOK == /\ mutexOf \in Mutexes \cup {None}
               /\ made \in 0..calls
               /\ queue \in [Mutexes -> Seq(Callers)]
               /\ cached \in Results \cup {None}
               /\ at \in [Callers -> CallStages]
               /\ mutex \in [Callers -> Mutexes \cup {None}]
               /\ \A c \in Callers : at[c] # "idle" => mutex[c] # None
               /\ result \in [Callers -> Results \cup {None}]
               /\ calls \in 0..MaxCalls
               /\ executions \in 0..calls
               /\ uncached \in BOOLEAN

\* However calls, waiters and the deletions from the map interleave, the state is typed
\* and the method is executed once as long as calls leave their result in the cache and
\* it stays.
OneExecution == CacheTypeOK /\ (~uncached => executions <= 1)

\* Every call returns or throws.
CallsEnd == \A c \in Callers : at[c] # "idle" ~> at[c] = "idle"

\* The comment on the mutex: concurrent calls are locked, so that the method is
\* not executed twice at the same time.
ConcurrentCallsLocked ==
  \A c, d \in Callers : at[c] = "executing" /\ at[d] = "executing" => c = d
=============================================================================
