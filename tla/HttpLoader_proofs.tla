-------------------------- MODULE HttpLoader_proofs --------------------------
(***************************************************************************)
(* Proofs about HttpLoader for any number of calls, URIs and versions, with *)
(* and without the cache.  IInv is inductive; the properties of Load and of *)
(* its cache follow from it.                                                *)
(***************************************************************************)
EXTENDS HttpLoader, TLAPS

(* Every variable keeps its type. *)
LEMMA TypeStep ==
  ASSUME TypeOK, SlotInv, WaitInv, [Next]_vars
  PROVE  TypeOK'
<1> USE NatAssumption, NoneAssumption
    DEF Goto, Returns, callVars, flightVars, world, Labels, Versions, Outcomes,
        EntryType, Absent, Data, Err, Empty, TypeOK, SlotInv, WaitInv
<1>1. ASSUME NEW c \in Call, Reject(c)
      PROVE  TypeOK'
  BY <1>1 DEF Reject
<1>2. ASSUME NEW c \in Call, NoCache(c)
      PROVE  TypeOK'
  BY <1>2 DEF NoCache
<1>3. ASSUME NEW c \in Call, Lookup(c)
      PROVE  TypeOK'
  BY <1>3 DEF Lookup
<1>4. ASSUME NEW c \in Call, Hit(c)
      PROVE  TypeOK'
  BY <1>4 DEF Hit
<1>5. ASSUME NEW c \in Call, Expired(c)
      PROVE  TypeOK'
  BY <1>5 DEF Expired
<1>6. ASSUME NEW c \in Call, Evict(c)
      PROVE  TypeOK'
  BY <1>6 DEF Evict
<1>7. ASSUME NEW c \in Call, Claim(c)
      PROVE  TypeOK'
  BY <1>7 DEF Claim
<1>8. ASSUME NEW c \in Call, Join(c)
      PROVE  TypeOK'
  BY <1>8 DEF Join
<1>9. ASSUME NEW c \in Call, WaitDone(c)
      PROVE  TypeOK'
  BY <1>9 DEF WaitDone
<1>10. ASSUME NEW c \in Call, Fetch(c)
      PROVE  TypeOK'
  BY <1>10 DEF Fetch
<1>11. ASSUME NEW c \in Call, FetchFails(c)
      PROVE  TypeOK'
  BY <1>11 DEF FetchFails
<1>12. ASSUME NEW c \in Call, FetchPanics(c)
      PROVE  TypeOK'
  BY <1>12 DEF FetchPanics
<1>13. ASSUME NEW c \in Call, Put(c)
      PROVE  TypeOK'
  BY <1>13 DEF Put
<1>14. ASSUME NEW c \in Call, Delete(c)
      PROVE  TypeOK'
  BY <1>14 DEF Delete
<1>15. ASSUME NEW c \in Call, Done(c)
      PROVE  TypeOK'
  BY <1>15 DEF Done
<1>16. ASSUME NEW c \in Call, NEW u \in URI, LoadBegins(c, u)
      PROVE  TypeOK'
  BY <1>16 DEF LoadBegins
<1>17. ASSUME NEW u \in URI, Change(u)
      PROVE  TypeOK'
  BY <1>17 DEF Change
<1>18. CASE Tick
  <2>1. MaxTime \in Nat /\ now \in Nat
    OBVIOUS
  <2>2. now' \in 0..MaxTime
    BY <1>18, <2>1 DEF Tick
  <2>3. QED
    BY <1>18, <2>2 DEF Tick
<1>19. CASE UNCHANGED vars
  BY <1>19 DEF vars
<1>20. QED
  BY <1>1, <1>2, <1>3, <1>4, <1>5, <1>6, <1>7, <1>8, <1>9, <1>10, <1>11, <1>12, <1>13,
     <1>14, <1>15, <1>16, <1>17, <1>18, <1>19
  DEF Next, Step

(* A slot is won, held and emptied by one call at a time. *)
LEMMA SlotStep ==
  ASSUME TypeOK, SlotInv, WaitInv, [Next]_vars
  PROVE  SlotInv'
<1> USE NoneAssumption
    DEF Goto, Returns, callVars, flightVars, world, Owning, TypeOK, SlotInv, WaitInv
<1>1. ASSUME NEW c \in Call, Reject(c)
      PROVE  SlotInv'
  BY <1>1 DEF Reject
<1>2. ASSUME NEW c \in Call, NoCache(c)
      PROVE  SlotInv'
  BY <1>2 DEF NoCache
<1>3. ASSUME NEW c \in Call, Lookup(c)
      PROVE  SlotInv'
  BY <1>3 DEF Lookup
<1>4. ASSUME NEW c \in Call, Hit(c)
      PROVE  SlotInv'
  BY <1>4 DEF Hit
<1>5. ASSUME NEW c \in Call, Expired(c)
      PROVE  SlotInv'
  BY <1>5 DEF Expired
<1>6. ASSUME NEW c \in Call, Evict(c)
      PROVE  SlotInv'
  BY <1>6 DEF Evict
<1>7. ASSUME NEW c \in Call, Claim(c)
      PROVE  SlotInv'
  BY <1>7 DEF Claim
<1>8. ASSUME NEW c \in Call, Join(c)
      PROVE  SlotInv'
  BY <1>8 DEF Join
<1>9. ASSUME NEW c \in Call, WaitDone(c)
      PROVE  SlotInv'
  BY <1>9 DEF WaitDone
<1>10. ASSUME NEW c \in Call, Fetch(c)
      PROVE  SlotInv'
  BY <1>10 DEF Fetch
<1>11. ASSUME NEW c \in Call, FetchFails(c)
      PROVE  SlotInv'
  BY <1>11 DEF FetchFails
<1>12. ASSUME NEW c \in Call, FetchPanics(c)
      PROVE  SlotInv'
  BY <1>12 DEF FetchPanics
<1>13. ASSUME NEW c \in Call, Put(c)
      PROVE  SlotInv'
  BY <1>13 DEF Put
<1>14. ASSUME NEW c \in Call, Delete(c)
      PROVE  SlotInv'
  BY <1>14 DEF Delete
<1>15. ASSUME NEW c \in Call, Done(c)
      PROVE  SlotInv'
  BY <1>15 DEF Done
<1>16. ASSUME NEW c \in Call, NEW u \in URI, LoadBegins(c, u)
      PROVE  SlotInv'
  BY <1>16 DEF LoadBegins
<1>17. ASSUME NEW u \in URI, Change(u)
      PROVE  SlotInv'
  BY <1>17 DEF Change
<1>18. CASE Tick
  BY <1>18 DEF Tick
<1>19. CASE UNCHANGED vars
  BY <1>19 DEF vars
<1>20. QED
  BY <1>1, <1>2, <1>3, <1>4, <1>5, <1>6, <1>7, <1>8, <1>9, <1>10, <1>11, <1>12, <1>13,
     <1>14, <1>15, <1>16, <1>17, <1>18, <1>19
  DEF Next, Step

(* A record says what became of its request, to calls that had begun before    *)
(* it was over.                                                                *)
LEMMA WaitStep ==
  ASSUME TypeOK, SlotInv, WaitInv, [Next]_vars
  PROVE  WaitInv'
<1> USE NoneAssumption, NatAssumption
    DEF Goto, Returns, callVars, flightVars, world, Owning, TypeOK, SlotInv,
        WaitInv, Absent, Data, Err, Empty, Versions, EntryType
<1>1. ASSUME NEW c \in Call, Reject(c)
      PROVE  WaitInv'
  BY <1>1 DEF Reject
<1>2. ASSUME NEW c \in Call, NoCache(c)
      PROVE  WaitInv'
  BY <1>2 DEF NoCache
<1>3. ASSUME NEW c \in Call, Lookup(c)
      PROVE  WaitInv'
  BY <1>3 DEF Lookup
<1>4. ASSUME NEW c \in Call, Hit(c)
      PROVE  WaitInv'
  BY <1>4 DEF Hit
<1>5. ASSUME NEW c \in Call, Expired(c)
      PROVE  WaitInv'
  BY <1>5 DEF Expired
<1>6. ASSUME NEW c \in Call, Evict(c)
      PROVE  WaitInv'
  BY <1>6 DEF Evict
<1>7. ASSUME NEW c \in Call, Claim(c)
      PROVE  WaitInv'
  BY <1>7 DEF Claim
<1>8. ASSUME NEW c \in Call, Join(c)
      PROVE  WaitInv'
  BY <1>8 DEF Join
<1>9. ASSUME NEW c \in Call, WaitDone(c)
      PROVE  WaitInv'
  BY <1>9 DEF WaitDone
<1>10. ASSUME NEW c \in Call, Fetch(c)
      PROVE  WaitInv'
  BY <1>10 DEF Fetch
<1>11. ASSUME NEW c \in Call, FetchFails(c)
      PROVE  WaitInv'
  BY <1>11 DEF FetchFails
<1>12. ASSUME NEW c \in Call, FetchPanics(c)
      PROVE  WaitInv'
  BY <1>12 DEF FetchPanics
<1>13. ASSUME NEW c \in Call, Put(c)
      PROVE  WaitInv'
  BY <1>13 DEF Put
<1>14. ASSUME NEW c \in Call, Delete(c)
      PROVE  WaitInv'
  BY <1>14 DEF Delete
<1>15. ASSUME NEW c \in Call, Done(c)
      PROVE  WaitInv'
  BY <1>15 DEF Done
<1>16. ASSUME NEW c \in Call, NEW u \in URI, LoadBegins(c, u)
      PROVE  WaitInv'
  BY <1>16 DEF LoadBegins
<1>17. ASSUME NEW u \in URI, Change(u)
      PROVE  WaitInv'
  BY <1>17 DEF Change
<1>18. CASE Tick
  BY <1>18 DEF Tick
<1>19. CASE UNCHANGED vars
  BY <1>19 DEF vars
<1>20. QED
  BY <1>1, <1>2, <1>3, <1>4, <1>5, <1>6, <1>7, <1>8, <1>9, <1>10, <1>11, <1>12, <1>13,
     <1>14, <1>15, <1>16, <1>17, <1>18, <1>19
  DEF Next, Step

(* Fetched, cached and returned versions never overtake the server, the        *)
(* holder of the slot, or the cache.                                           *)
LEMMA AgeStep ==
  ASSUME TypeOK, SlotInv, WaitInv, AgeInv, [Next]_vars
  PROVE  AgeInv'
<1> USE NoneAssumption, NatAssumption
    DEF Goto, Returns, callVars, flightVars, world, Owning, NoNewer, TypeOK,
        SlotInv, WaitInv, AgeInv, Absent, Data, Err, Empty, Versions, EntryType,
        Outcomes
<1>1. ASSUME NEW c \in Call, Reject(c)
      PROVE  AgeInv'
  BY <1>1 DEF Reject
<1>2. ASSUME NEW c \in Call, NoCache(c)
      PROVE  AgeInv'
  BY <1>2 DEF NoCache
<1>3. ASSUME NEW c \in Call, Lookup(c)
      PROVE  AgeInv'
  BY <1>3 DEF Lookup
<1>4. ASSUME NEW c \in Call, Hit(c)
      PROVE  AgeInv'
  BY <1>4 DEF Hit
<1>5. ASSUME NEW c \in Call, Expired(c)
      PROVE  AgeInv'
  BY <1>5 DEF Expired
<1>6. ASSUME NEW c \in Call, Evict(c)
      PROVE  AgeInv'
  BY <1>6 DEF Evict
<1>7. ASSUME NEW c \in Call, Claim(c)
      PROVE  AgeInv'
  BY <1>7 DEF Claim
<1>8. ASSUME NEW c \in Call, Join(c)
      PROVE  AgeInv'
  BY <1>8 DEF Join
<1>9. ASSUME NEW c \in Call, WaitDone(c)
      PROVE  AgeInv'
  BY <1>9 DEF WaitDone
<1>10. ASSUME NEW c \in Call, Fetch(c)
      PROVE  AgeInv'
  BY <1>10 DEF Fetch
<1>11. ASSUME NEW c \in Call, FetchFails(c)
      PROVE  AgeInv'
  BY <1>11 DEF FetchFails
<1>12. ASSUME NEW c \in Call, FetchPanics(c)
      PROVE  AgeInv'
  BY <1>12 DEF FetchPanics
<1>13. ASSUME NEW c \in Call, Put(c)
      PROVE  AgeInv'
  BY <1>13 DEF Put
<1>14. ASSUME NEW c \in Call, Delete(c)
      PROVE  AgeInv'
  BY <1>14 DEF Delete
<1>15. ASSUME NEW c \in Call, Done(c)
      PROVE  AgeInv'
  BY <1>15 DEF Done
<1>16. ASSUME NEW c \in Call, NEW u \in URI, LoadBegins(c, u)
      PROVE  AgeInv'
  BY <1>16 DEF LoadBegins
<1>17. ASSUME NEW u \in URI, Change(u)
      PROVE  AgeInv'
  <2>1. served[u] \in Nat /\ served' = [served EXCEPT ![u] = served[u] + 1]
    BY <1>17 DEF Change
  <2>2. \A v \in URI : served[v] \in Nat /\ served'[v] \in Nat /\ served[v] <= served'[v]
    BY <2>1
  <2>3. UNCHANGED <<callVars, flightVars, entries, ttl>>
    BY <1>17 DEF Change
  <2>4. \A v \in URI : entries'[v].version <= served'[v]
    BY <2>2, <2>3
  <2>5. \A c \in Call : uri[c] # None => NoNewer(c, served[uri[c]])'
    BY <2>2, <2>3
  <2>6. QED
    BY <2>3, <2>4, <2>5
<1>18. CASE Tick
  BY <1>18 DEF Tick
<1>19. CASE UNCHANGED vars
  BY <1>19 DEF vars
<1>20. QED
  BY <1>1, <1>2, <1>3, <1>4, <1>5, <1>6, <1>7, <1>8, <1>9, <1>10, <1>11, <1>12, <1>13,
     <1>14, <1>15, <1>16, <1>17, <1>18, <1>19
  DEF Next, Step

(* What a call finds in the cache, in a record or at the server is no older    *)
(* than what it may know of.                                                   *)
LEMMA ReturnStep ==
  ASSUME TypeOK, SlotInv, WaitInv, AgeInv, ReturnInv, [Next]_vars
  PROVE  ReturnInv'
<1> USE NoneAssumption, NatAssumption
    DEF Goto, Returns, callVars, flightVars, world, Owning, NoNewer, TypeOK,
        SlotInv, WaitInv, AgeInv, ReturnInv, Absent, Data, Err, Empty, Versions,
        EntryType, Outcomes
<1>1. ASSUME NEW c \in Call, Reject(c)
      PROVE  ReturnInv'
  BY <1>1 DEF Reject
<1>2. ASSUME NEW c \in Call, NoCache(c)
      PROVE  ReturnInv'
  BY <1>2 DEF NoCache
<1>3. ASSUME NEW c \in Call, Lookup(c)
      PROVE  ReturnInv'
  BY <1>3 DEF Lookup
<1>4. ASSUME NEW c \in Call, Hit(c)
      PROVE  ReturnInv'
  BY <1>4 DEF Hit
<1>5. ASSUME NEW c \in Call, Expired(c)
      PROVE  ReturnInv'
  BY <1>5 DEF Expired
<1>6. ASSUME NEW c \in Call, Evict(c)
      PROVE  ReturnInv'
  BY <1>6 DEF Evict
<1>7. ASSUME NEW c \in Call, Claim(c)
      PROVE  ReturnInv'
  BY <1>7 DEF Claim
<1>8. ASSUME NEW c \in Call, Join(c)
      PROVE  ReturnInv'
  BY <1>8 DEF Join
<1>9. ASSUME NEW c \in Call, WaitDone(c)
      PROVE  ReturnInv'
  BY <1>9 DEF WaitDone
<1>10. ASSUME NEW c \in Call, Fetch(c)
      PROVE  ReturnInv'
  BY <1>10 DEF Fetch
<1>11. ASSUME NEW c \in Call, FetchFails(c)
      PROVE  ReturnInv'
  BY <1>11 DEF FetchFails
<1>12. ASSUME NEW c \in Call, FetchPanics(c)
      PROVE  ReturnInv'
  BY <1>12 DEF FetchPanics
<1>13. ASSUME NEW c \in Call, Put(c)
      PROVE  ReturnInv'
  BY <1>13 DEF Put
<1>14. ASSUME NEW c \in Call, Delete(c)
      PROVE  ReturnInv'
  BY <1>14 DEF Delete
<1>15. ASSUME NEW c \in Call, Done(c)
      PROVE  ReturnInv'
  BY <1>15 DEF Done
<1>16. ASSUME NEW c \in Call, NEW u \in URI, LoadBegins(c, u)
      PROVE  ReturnInv'
  BY <1>16 DEF LoadBegins
<1>17. ASSUME NEW u \in URI, Change(u)
      PROVE  ReturnInv'
  BY <1>17 DEF Change
<1>18. CASE Tick
  BY <1>18 DEF Tick
<1>19. CASE UNCHANGED vars
  BY <1>19 DEF vars
<1>20. QED
  BY <1>1, <1>2, <1>3, <1>4, <1>5, <1>6, <1>7, <1>8, <1>9, <1>10, <1>11, <1>12, <1>13,
     <1>14, <1>15, <1>16, <1>17, <1>18, <1>19
  DEF Next, Step

(* The invariant holds initially. *)
LEMMA InitHolds ==
  ASSUME Init
  PROVE  IInv
<1> USE NatAssumption, NoneAssumption DEF Init, Absent, Data, Empty
<1>1. TypeOK
  BY DEF TypeOK, Labels, Versions, Outcomes, EntryType
<1>2. OneRoundTrip /\ SlotInv
  BY DEF OneRoundTrip, SlotInv, Owning
<1>3. WaitInv
  BY DEF WaitInv
<1>4. AgeInv
  BY DEF AgeInv, NoNewer
<1>5. ReturnInv
  BY DEF ReturnInv
<1>6. QED
  BY <1>1, <1>2, <1>3, <1>4, <1>5 DEF IInv

(* In every reachable state the slots, the records, the cache and the ages of  *)
(* the documents fit together as IInv says.                                    *)
THEOREM Inductive == Spec => []IInv
<1>1. Init => IInv
  BY InitHolds
<1>2. IInv /\ [Next]_vars => IInv'
  <2> SUFFICES ASSUME IInv, [Next]_vars
               PROVE  IInv'
    OBVIOUS
  <2>1. TypeOK' /\ SlotInv' /\ WaitInv'
    BY TypeStep, SlotStep, WaitStep DEF IInv
  <2>2. AgeInv' /\ ReturnInv'
    BY AgeStep, ReturnStep DEF IInv
  <2>3. OneRoundTrip'
    BY <2>1 DEF SlotInv, OneRoundTrip, Owning
  <2>4. QED
    BY <2>1, <2>2, <2>3 DEF IInv
<1>3. QED
  BY <1>1, <1>2, PTL DEF Spec

(* The flight table admits one round-trip per URI at a time, until its         *)
(* response is in the cache.                                                   *)
THEOREM SingleRoundTrip == Spec => []OneRoundTrip
<1>1. IInv => OneRoundTrip
  BY DEF IInv
<1>2. QED
  BY <1>1, Inductive, PTL

(* A failure reaches only calls that overlapped it, and an empty body only     *)
(* those that waited on a request that panicked.                               *)
THEOREM ErrorsReachWaiters == Spec => []ErrorsShared
<1>1. ASSUME IInv
      PROVE  FailuresExpire
  BY <1>1, NoneAssumption DEF IInv, TypeOK, WaitInv, FailuresExpire
<1>2. ASSUME IInv
      PROVE  EmptyOnlyAfterPanic
  <2> SUFFICES ASSUME NEW c \in Call, pc[c] = "returned", ret[c] = Empty
               PROVE  joined[c] # None /\ ret[joined[c]].err = "panicked"
    BY DEF EmptyOnlyAfterPanic
  <2>1. joined[c] # None
    BY <1>2 DEF IInv, WaitInv
  <2>2. joined[c] \in finished /\ joined[c] \in Call /\ rec[joined[c]] = Empty
    BY <1>2, <2>1 DEF IInv, TypeOK, WaitInv
  <2>3. QED
    BY <1>2, <2>1, <2>2 DEF IInv, WaitInv
<1>3. QED
  BY <1>1, <1>2, Inductive, PTL DEF ErrorsShared

(* A call that begins after another has returned a document never returns an   *)
(* older version of it.                                                        *)
THEOREM NeverOlder == Spec => []NeverBack
<1>1. ASSUME IInv
      PROVE  NeverBack
  <2> SUFFICES ASSUME NEW c \in Call, NEW d \in Call, d \in returned[c], uri[d] = uri[c],
                      ret[c].data # 0
               PROVE  ret[c].data >= ret[d].data
    BY DEF NeverBack
  <2>1. ret[d].data <= ret[c].data
    BY <1>1 DEF IInv, ReturnInv
  <2>2. ret[c].data \in Nat /\ ret[d].data \in Nat
    BY <1>1, NatAssumption DEF IInv, TypeOK, Outcomes
  <2>3. QED
    BY <2>1, <2>2
<1>2. QED
  BY <1>1, Inductive, PTL

(* A step takes a response out of the cache only if it has expired or another  *)
(* takes its place: what Evict deletes is what was judged.                     *)
THEOREM FreshStays == Spec => EvictsOnlyExpired
<1> DEFINE Kept == \A u \in URI :
                     (entries[u] # Absent /\ entries'[u] # entries[u]) =>
                         now > entries[u].expires \/ entries'[u] # Absent
<1>1. ASSUME IInv, [Next]_vars
      PROVE  [Kept]_entries
  <2>1. CASE UNCHANGED entries
    BY <2>1
  <2>2. ASSUME NEW c \in Call, Evict(c)
        PROVE  Kept
    BY <1>1, <2>2 DEF Evict, IInv, TypeOK, ReturnInv
  <2>3. ASSUME NEW c \in Call, Put(c)
        PROVE  Kept
    BY <1>1, <2>3, NoneAssumption DEF Put, Absent, IInv, TypeOK
  <2>4. UNCHANGED entries \/ \E c \in Call : Evict(c) \/ Put(c)
    BY <1>1 DEF Next, Step, vars, Reject, NoCache, Lookup, Hit, Expired, Claim, Join, WaitDone,
            Fetch, FetchFails, FetchPanics, Delete, Done, LoadBegins, Change, Tick
  <2>5. QED
    BY <2>1, <2>2, <2>3, <2>4
<1>2. QED
  BY <1>1, Inductive, PTL DEF Spec, EvictsOnlyExpired

=============================================================================
