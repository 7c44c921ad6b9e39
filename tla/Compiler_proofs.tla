--------------------------- MODULE Compiler_proofs ---------------------------
(***************************************************************************)
(* Proofs about Compiler for any number of callers, URIs and documents.     *)
(* IInv is inductive relative to TypeOK; the properties of CompileURL and   *)
(* of the registry follow from the two.                                     *)
(***************************************************************************)
EXTENDS Compiler, SequenceTheorems, TLAPS

(* Registered returns 0 or the index of an entry for u. *)
LEMMA RegisteredIndex ==
  ASSUME RegistryTypeOK, NEW u \in URI
  PROVE  /\ Registered(u) \in 0..Len(arrays[resources])
         /\ Registered(u) # 0 => arrays[resources][Registered(u)].uri = u
         /\ Registered(u) = 0 =>
               \A i \in 1..Len(arrays[resources]) : arrays[resources][i].uri # u
<1> DEFINE at == {i \in 1..Len(arrays[resources]) : arrays[resources][i].uri = u}
<1>1. Registered(u) = IF at = {} THEN 0 ELSE CHOOSE i \in at : TRUE
  BY DEF Registered
<1>2. at # {} => (CHOOSE i \in at : TRUE) \in at
  OBVIOUS
<1>3. Len(arrays[resources]) \in Nat
  BY DEF RegistryTypeOK
<1>4. QED
  BY <1>1, <1>2, <1>3

(* AddResource leaves the registry alone or appends one well-formed array to   *)
(* arrays: the current entries with one more, or with one of them replaced.    *)
LEMMA AddResourceEffect ==
  ASSUME RegistryTypeOK, NEW u \in URI, NEW d \in Doc, AddResource(u, d)
  PROVE  \/ UNCHANGED <<arrays, resources>>
         \/ \E entries \in Seq(Entry) :
               /\ arrays' = Append(arrays, entries)
               /\ resources' = Len(arrays) + 1
               /\ \/ /\ entries = Append(arrays[resources], [uri |-> u, value |-> d])
                     /\ \A i \in 1..Len(arrays[resources]) : arrays[resources][i].uri # u
                  \/ \E k \in 1..Len(arrays[resources]) :
                        /\ arrays[resources][k].uri = u
                        /\ policy = "last"
                        /\ entries = [arrays[resources] EXCEPT ![k] = [uri |-> u, value |-> d]]
<1> DEFINE old == arrays[resources]
           new == [uri |-> u, value |-> d]
<1>1. old \in Seq(Entry) /\ new \in Entry
  BY DEF RegistryTypeOK, Entry
<1>2. CASE AddNew(u, d)
  <2>1. Append(old, new) \in Seq(Entry)
    BY <1>1
  <2>2. \A i \in 1..Len(old) : old[i].uri # u
    BY <1>2, RegisteredIndex DEF AddNew
  <2>3. QED
    BY <1>2, <2>1, <2>2 DEF AddNew, Publish
<1>3. CASE AddReplaced(u, d)
  <2> DEFINE k == Registered(u)
  <2>1. k \in 1..Len(old) /\ old[k].uri = u
    BY <1>1, <1>3, RegisteredIndex DEF AddReplaced
  <2>2. [old EXCEPT ![k] = new] \in Seq(Entry)
    BY <1>1, <2>1
  <2>3. QED
    BY <1>3, <2>1, <2>2 DEF AddReplaced, Publish
<1>4. QED
  BY <1>2, <1>3 DEF AddResource, AddRefused, AddKept

(* An array, once written, is never written again: every step keeps the arrays *)
(* there are, and the registry is always one of them.                          *)
LEMMA ArraysGrow ==
  ASSUME RegistryTypeOK, [Next]_vars
  PROVE  /\ arrays' \in Seq(Seq(Entry))
         /\ Len(arrays) \in Nat /\ Len(arrays') \in Nat /\ Len(arrays) <= Len(arrays')
         /\ resources' \in 1..Len(arrays')
         /\ \A i \in 1..Len(arrays) : arrays'[i] = arrays[i]
<1> USE DEF RegistryTypeOK
<1>1. Len(arrays) \in Nat
  OBVIOUS
<1>2. CASE UNCHANGED <<arrays, resources>>
  BY <1>1, <1>2
<1>3. ASSUME NEW u \in URI, NEW d \in Doc, AddResource(u, d)
      PROVE  \/ UNCHANGED <<arrays, resources>>
             \/ \E entries \in Seq(Entry) :
                   arrays' = Append(arrays, entries) /\ resources' = Len(arrays) + 1
  BY <1>3, AddResourceEffect
<1>4. ASSUME NEW entries \in Seq(Entry),
             arrays' = Append(arrays, entries), resources' = Len(arrays) + 1
      PROVE  /\ arrays' \in Seq(Seq(Entry))
             /\ Len(arrays') = Len(arrays) + 1
             /\ \A i \in 1..Len(arrays) : arrays'[i] = arrays[i]
  BY <1>4, AppendProperties
<1>5. UNCHANGED <<arrays, resources>> \/ \E u \in URI, d \in Doc : AddResource(u, d)
  BY DEF Next, Step, vars, flightVars, seedVars, registryVars, Hit, Miss, Claim, Join, WaitDone,
         RecheckHit, RecheckMiss, Load, URLFails, URLPanics, Snapshot, SeedEntry, SeedsDone,
         CompiledURL, Compiled, Store, Delete, Done, CallCompile, CallURL
<1> HIDE DEF RegistryTypeOK
<1>6. QED
  BY <1>1, <1>2, <1>3, <1>4, <1>5

(* Every variable of CompileURL keeps its type. *)
LEMMA FlightTypeStep ==
  ASSUME FlightTypeOK, [Next]_vars
  PROVE  FlightTypeOK'
<1> USE NoneAssumption, CallAssumption DEF Goto, flightVars, seedVars, registryVars, Labels, URLLabels, Owning, Results, FlightTypeOK
<1>1. CASE \E c \in Call : Hit(c)
  BY <1>1 DEF Hit
<1>2. CASE \E c \in Call : Miss(c)
  BY <1>2 DEF Miss
<1>3. CASE \E c \in Call : Claim(c)
  BY <1>3 DEF Claim
<1>4. CASE \E c \in Call : Join(c)
  BY <1>4 DEF Join
<1>5. CASE \E c \in Call : WaitDone(c)
  BY <1>5 DEF WaitDone
<1>6. CASE \E c \in Call : RecheckHit(c)
  BY <1>6 DEF RecheckHit
<1>7. CASE \E c \in Call : RecheckMiss(c)
  BY <1>7 DEF RecheckMiss
<1>8. CASE \E c \in Call : Load(c)
  BY <1>8 DEF Load
<1>9. CASE \E c \in Call : URLFails(c)
  BY <1>9 DEF URLFails
<1>10. CASE \E c \in Call : URLPanics(c)
  BY <1>10 DEF URLPanics
<1>11. CASE \E c \in Call : Snapshot(c)
  BY <1>11 DEF Snapshot
<1>12. CASE \E c \in Call : SeedEntry(c)
  BY <1>12 DEF SeedEntry
<1>13. CASE \E c \in Call : SeedsDone(c)
  BY <1>13 DEF SeedsDone
<1>14. CASE \E c \in Call : CompiledURL(c)
  BY <1>14 DEF CompiledURL
<1>15. CASE \E c \in Call : Compiled(c)
  BY <1>15 DEF Compiled
<1>16. CASE \E c \in Call : Store(c)
  BY <1>16 DEF Store
<1>17. CASE \E c \in Call : Delete(c)
  BY <1>17 DEF Delete
<1>18. CASE \E c \in Call : Done(c)
  BY <1>18 DEF Done
<1>19. CASE \E c \in Call : CallCompile(c)
  BY <1>19 DEF CallCompile, Returned
<1>20. CASE \E c \in Call, u \in URI : CallURL(c, u)
  BY <1>20 DEF CallURL, Returned
<1>21. CASE \E u \in URI, d \in Doc : AddResource(u, d)
  BY <1>21 DEF AddResource
<1>22. CASE UNCHANGED vars
  BY <1>22 DEF vars
<1>23. QED
  BY <1>1, <1>2, <1>3, <1>4, <1>5, <1>6, <1>7, <1>8, <1>9, <1>10, <1>11, <1>12, <1>13,
     <1>14, <1>15, <1>16, <1>17, <1>18, <1>19, <1>20, <1>21, <1>22
  DEF Next, Step

(* Every variable of the registry and of seeding keeps its type. *)
LEMMA RegistryTypeStep ==
  ASSUME FlightTypeOK, RegistryTypeOK, [Next]_vars
  PROVE  RegistryTypeOK'
<1> USE BoundAssumption DEF Goto, flightVars, seedVars, registryVars, Entry, Policies, RegistryTypeOK, FlightTypeOK
<1>1. CASE \E c \in Call : Hit(c)
  BY <1>1 DEF Hit
<1>2. CASE \E c \in Call : Miss(c)
  BY <1>2 DEF Miss
<1>3. CASE \E c \in Call : Claim(c)
  BY <1>3 DEF Claim
<1>4. CASE \E c \in Call : Join(c)
  BY <1>4 DEF Join
<1>5. CASE \E c \in Call : WaitDone(c)
  BY <1>5 DEF WaitDone
<1>6. CASE \E c \in Call : RecheckHit(c)
  BY <1>6 DEF RecheckHit
<1>7. CASE \E c \in Call : RecheckMiss(c)
  BY <1>7 DEF RecheckMiss
<1>8. CASE \E c \in Call : Load(c)
  BY <1>8 DEF Load
<1>9. CASE \E c \in Call : URLFails(c)
  BY <1>9 DEF URLFails
<1>10. CASE \E c \in Call : URLPanics(c)
  BY <1>10 DEF URLPanics
<1>11. CASE \E c \in Call : Snapshot(c)
  <2> PICK c \in Call : Snapshot(c)
    BY <1>11
  <2>1. snap' = [snap EXCEPT ![c] = resources] /\ resources \in 1..Len(arrays)
    BY DEF Snapshot
  <2>2. Len(arrays) \in Nat
    OBVIOUS
  <2>3. snap' \in [Call -> 0..Len(arrays)] /\ \A d \in Call : snap[d] # 0 => snap'[d] # 0
    BY <2>1, <2>2
  <2>4. pc' = [pc EXCEPT ![c] = "seed"] /\ snap'[c] # 0
    BY <2>1, <2>2 DEF Snapshot
  <2>5. QED
    BY <2>3, <2>4 DEF Snapshot
<1>12. CASE \E c \in Call : SeedEntry(c)
  <2> PICK c \in Call : SeedEntry(c)
    BY <1>12
  <2> DEFINE seen == arrays[snap[c]]
  <2>1. snap[c] \in 1..Len(arrays)
    BY DEF SeedEntry
  <2>2. seen \in Seq(Entry) /\ seeded[c] \in Seq(Entry) /\ Len(seeded[c]) < Len(seen)
    BY <2>1 DEF SeedEntry
  <2>3. seen[Len(seeded[c]) + 1] \in Entry
    <3>1. Len(seeded[c]) \in Nat /\ Len(seen) \in Nat
      BY <2>2, LenProperties
    <3>2. Len(seeded[c]) + 1 \in 1..Len(seen)
      BY <2>2, <3>1
    <3> HIDE DEF seen
    <3>3. QED
      BY <2>2, <3>2, ElementOfSeq
  <2>4. seeded' = [seeded EXCEPT ![c] = Append(seeded[c], seen[Len(seeded[c]) + 1])]
    BY DEF SeedEntry
  <2> HIDE DEF seen
  <2>5. Append(seeded[c], seen[Len(seeded[c]) + 1]) \in Seq(Entry)
    <3> HIDE DEF RegistryTypeOK, Entry
    <3>1. QED
      BY <2>2, <2>3, AppendProperties
  <2>6. QED
    BY <2>4, <2>5 DEF SeedEntry
<1>13. CASE \E c \in Call : SeedsDone(c)
  BY <1>13 DEF SeedsDone
<1>14. CASE \E c \in Call : CompiledURL(c)
  BY <1>14 DEF CompiledURL
<1>15. CASE \E c \in Call : Compiled(c)
  BY <1>15 DEF Compiled
<1>16. CASE \E c \in Call : Store(c)
  BY <1>16 DEF Store
<1>17. CASE \E c \in Call : Delete(c)
  BY <1>17 DEF Delete
<1>18. CASE \E c \in Call : Done(c)
  BY <1>18 DEF Done
<1>19. CASE \E c \in Call : CallCompile(c)
  BY <1>19 DEF CallCompile, Returned
<1>20. CASE \E c \in Call, u \in URI : CallURL(c, u)
  BY <1>20 DEF CallURL, Returned
<1>21. CASE \E u \in URI, d \in Doc : AddResource(u, d)
  <2>1. UNCHANGED <<pc, snap, seeded, policy>> /\ adds' \in 0..MaxAdds
    BY <1>21 DEF AddResource
  <2>2. /\ arrays' \in Seq(Seq(Entry)) /\ resources' \in 1..Len(arrays')
        /\ Len(arrays) \in Nat /\ Len(arrays') \in Nat /\ Len(arrays) <= Len(arrays')
    BY ArraysGrow
  <2>3. snap' \in [Call -> 0..Len(arrays')]
    <3>1. snap \in [Call -> 0..Len(arrays)] /\ snap' = snap
      BY <2>1
    <3> HIDE DEF RegistryTypeOK, FlightTypeOK
    <3>2. QED
      BY <2>2, <3>1
  <2>4. QED
    BY <2>1, <2>2, <2>3
<1>22. CASE UNCHANGED vars
  BY <1>22 DEF vars
<1>23. QED
  BY <1>1, <1>2, <1>3, <1>4, <1>5, <1>6, <1>7, <1>8, <1>9, <1>10, <1>11, <1>12, <1>13,
     <1>14, <1>15, <1>16, <1>17, <1>18, <1>19, <1>20, <1>21, <1>22
  DEF Next, Step

(* TypeOK is an invariant: every variable of Compiler keeps its type. *)
THEOREM Typing == Spec => []TypeOK
<1>1. Init => TypeOK
  BY NoneAssumption, BoundAssumption
  DEF Init, TypeOK, FlightTypeOK, RegistryTypeOK, Labels, URLLabels, Results, Entry, Policies
<1>2. TypeOK /\ [Next]_vars => TypeOK'
  BY FlightTypeStep, RegistryTypeStep DEF TypeOK
<1>3. QED
  BY <1>1, <1>2, PTL DEF Spec

(* No step gives a slot to two calls or empties one under its owner. *)
LEMMA SlotStep ==
  ASSUME FlightTypeOK, SlotInv, [Next]_vars
  PROVE  SlotInv'
<1> USE NoneAssumption, CallAssumption DEF Goto, flightVars, seedVars, registryVars, Labels, URLLabels, Owning, Results, FlightTypeOK, SlotInv
<1>1. CASE \E c \in Call : Hit(c)
  BY <1>1 DEF Hit
<1>2. CASE \E c \in Call : Miss(c)
  BY <1>2 DEF Miss
<1>3. CASE \E c \in Call : Claim(c)
  BY <1>3 DEF Claim
<1>4. CASE \E c \in Call : Join(c)
  BY <1>4 DEF Join
<1>5. CASE \E c \in Call : WaitDone(c)
  BY <1>5 DEF WaitDone
<1>6. CASE \E c \in Call : RecheckHit(c)
  BY <1>6 DEF RecheckHit
<1>7. CASE \E c \in Call : RecheckMiss(c)
  BY <1>7 DEF RecheckMiss
<1>8. CASE \E c \in Call : Load(c)
  BY <1>8 DEF Load
<1>9. CASE \E c \in Call : URLFails(c)
  BY <1>9 DEF URLFails
<1>10. CASE \E c \in Call : URLPanics(c)
  BY <1>10 DEF URLPanics
<1>11. CASE \E c \in Call : Snapshot(c)
  BY <1>11 DEF Snapshot
<1>12. CASE \E c \in Call : SeedEntry(c)
  BY <1>12 DEF SeedEntry
<1>13. CASE \E c \in Call : SeedsDone(c)
  BY <1>13 DEF SeedsDone
<1>14. CASE \E c \in Call : CompiledURL(c)
  BY <1>14 DEF CompiledURL
<1>15. CASE \E c \in Call : Compiled(c)
  BY <1>15 DEF Compiled
<1>16. CASE \E c \in Call : Store(c)
  BY <1>16 DEF Store
<1>17. CASE \E c \in Call : Delete(c)
  BY <1>17 DEF Delete
<1>18. CASE \E c \in Call : Done(c)
  BY <1>18 DEF Done
<1>19. CASE \E c \in Call : CallCompile(c)
  BY <1>19 DEF CallCompile, Returned
<1>20. CASE \E c \in Call, u \in URI : CallURL(c, u)
  BY <1>20 DEF CallURL, Returned
<1>21. CASE \E u \in URI, d \in Doc : AddResource(u, d)
  BY <1>21 DEF AddResource
<1>22. CASE UNCHANGED vars
  BY <1>22 DEF vars
<1>23. QED
  BY <1>1, <1>2, <1>3, <1>4, <1>5, <1>6, <1>7, <1>8, <1>9, <1>10, <1>11, <1>12, <1>13,
     <1>14, <1>15, <1>16, <1>17, <1>18, <1>19, <1>20, <1>21, <1>22
  DEF Next, Step

(* A schema is stored only into an empty cache entry, so it stays. *)
LEMMA CacheStep ==
  ASSUME FlightTypeOK, SlotInv, CacheInv, WaitInv, [Next]_vars
  PROVE  CacheInv'
<1> USE NoneAssumption, CallAssumption DEF Goto, flightVars, seedVars, registryVars, Labels, URLLabels, Owning, Results, FlightTypeOK, SlotInv, CacheInv, WaitInv
<1>1. CASE \E c \in Call : Hit(c)
  BY <1>1 DEF Hit
<1>2. CASE \E c \in Call : Miss(c)
  BY <1>2 DEF Miss
<1>3. CASE \E c \in Call : Claim(c)
  BY <1>3 DEF Claim
<1>4. CASE \E c \in Call : Join(c)
  BY <1>4 DEF Join
<1>5. CASE \E c \in Call : WaitDone(c)
  BY <1>5 DEF WaitDone
<1>6. CASE \E c \in Call : RecheckHit(c)
  BY <1>6 DEF RecheckHit
<1>7. CASE \E c \in Call : RecheckMiss(c)
  BY <1>7 DEF RecheckMiss
<1>8. CASE \E c \in Call : Load(c)
  BY <1>8 DEF Load
<1>9. CASE \E c \in Call : URLFails(c)
  BY <1>9 DEF URLFails
<1>10. CASE \E c \in Call : URLPanics(c)
  BY <1>10 DEF URLPanics
<1>11. CASE \E c \in Call : Snapshot(c)
  BY <1>11 DEF Snapshot
<1>12. CASE \E c \in Call : SeedEntry(c)
  BY <1>12 DEF SeedEntry
<1>13. CASE \E c \in Call : SeedsDone(c)
  BY <1>13 DEF SeedsDone
<1>14. CASE \E c \in Call : CompiledURL(c)
  BY <1>14 DEF CompiledURL
<1>15. CASE \E c \in Call : Compiled(c)
  BY <1>15 DEF Compiled
<1>16. CASE \E c \in Call : Store(c)
  BY <1>16 DEF Store
<1>17. CASE \E c \in Call : Delete(c)
  BY <1>17 DEF Delete
<1>18. CASE \E c \in Call : Done(c)
  BY <1>18 DEF Done
<1>19. CASE \E c \in Call : CallCompile(c)
  BY <1>19 DEF CallCompile, Returned
<1>20. CASE \E c \in Call, u \in URI : CallURL(c, u)
  BY <1>20 DEF CallURL, Returned
<1>21. CASE \E u \in URI, d \in Doc : AddResource(u, d)
  BY <1>21 DEF AddResource
<1>22. CASE UNCHANGED vars
  BY <1>22 DEF vars
<1>23. QED
  BY <1>1, <1>2, <1>3, <1>4, <1>5, <1>6, <1>7, <1>8, <1>9, <1>10, <1>11, <1>12, <1>13,
     <1>14, <1>15, <1>16, <1>17, <1>18, <1>19, <1>20, <1>21, <1>22
  DEF Next, Step

(* A flight is live when it is joined, and its record is complete when finished. *)
LEMMA WaitStep ==
  ASSUME FlightTypeOK, SlotInv, CacheInv, WaitInv, [Next]_vars
  PROVE  WaitInv'
<1> USE NoneAssumption, CallAssumption DEF Goto, flightVars, seedVars, registryVars, Labels, URLLabels, Owning, Results, FlightTypeOK, SlotInv, CacheInv, WaitInv
<1>1. CASE \E c \in Call : Hit(c)
  BY <1>1 DEF Hit
<1>2. CASE \E c \in Call : Miss(c)
  BY <1>2 DEF Miss
<1>3. CASE \E c \in Call : Claim(c)
  BY <1>3 DEF Claim
<1>4. CASE \E c \in Call : Join(c)
  BY <1>4 DEF Join
<1>5. CASE \E c \in Call : WaitDone(c)
  BY <1>5 DEF WaitDone
<1>6. CASE \E c \in Call : RecheckHit(c)
  BY <1>6 DEF RecheckHit
<1>7. CASE \E c \in Call : RecheckMiss(c)
  BY <1>7 DEF RecheckMiss
<1>8. CASE \E c \in Call : Load(c)
  BY <1>8 DEF Load
<1>9. CASE \E c \in Call : URLFails(c)
  BY <1>9 DEF URLFails
<1>10. CASE \E c \in Call : URLPanics(c)
  BY <1>10 DEF URLPanics
<1>11. CASE \E c \in Call : Snapshot(c)
  BY <1>11 DEF Snapshot
<1>12. CASE \E c \in Call : SeedEntry(c)
  BY <1>12 DEF SeedEntry
<1>13. CASE \E c \in Call : SeedsDone(c)
  BY <1>13 DEF SeedsDone
<1>14. CASE \E c \in Call : CompiledURL(c)
  BY <1>14 DEF CompiledURL
<1>15. CASE \E c \in Call : Compiled(c)
  BY <1>15 DEF Compiled
<1>16. CASE \E c \in Call : Store(c)
  BY <1>16 DEF Store
<1>17. CASE \E c \in Call : Delete(c)
  BY <1>17 DEF Delete
<1>18. CASE \E c \in Call : Done(c)
  BY <1>18 DEF Done
<1>19. CASE \E c \in Call : CallCompile(c)
  BY <1>19 DEF CallCompile, Returned
<1>20. CASE \E c \in Call, u \in URI : CallURL(c, u)
  BY <1>20 DEF CallURL, Returned
<1>21. CASE \E u \in URI, d \in Doc : AddResource(u, d)
  BY <1>21 DEF AddResource
<1>22. CASE UNCHANGED vars
  BY <1>22 DEF vars
<1>23. QED
  BY <1>1, <1>2, <1>3, <1>4, <1>5, <1>6, <1>7, <1>8, <1>9, <1>10, <1>11, <1>12, <1>13,
     <1>14, <1>15, <1>16, <1>17, <1>18, <1>19, <1>20, <1>21, <1>22
  DEF Next, Step

(* A call that starts after a success finds the cache filled. *)
LEMMA HitStep ==
  ASSUME FlightTypeOK, SlotInv, CacheInv, WaitInv, LaterCallsHit, [Next]_vars
  PROVE  LaterCallsHit'
<1> USE NoneAssumption, CallAssumption DEF Goto, flightVars, seedVars, registryVars, Labels, URLLabels, Owning, Results, FlightTypeOK, SlotInv, CacheInv, WaitInv, LaterCallsHit
<1>1. CASE \E c \in Call : Hit(c)
  BY <1>1 DEF Hit
<1>2. CASE \E c \in Call : Miss(c)
  BY <1>2 DEF Miss
<1>3. CASE \E c \in Call : Claim(c)
  BY <1>3 DEF Claim
<1>4. CASE \E c \in Call : Join(c)
  BY <1>4 DEF Join
<1>5. CASE \E c \in Call : WaitDone(c)
  BY <1>5 DEF WaitDone
<1>6. CASE \E c \in Call : RecheckHit(c)
  BY <1>6 DEF RecheckHit
<1>7. CASE \E c \in Call : RecheckMiss(c)
  BY <1>7 DEF RecheckMiss
<1>8. CASE \E c \in Call : Load(c)
  BY <1>8 DEF Load
<1>9. CASE \E c \in Call : URLFails(c)
  BY <1>9 DEF URLFails
<1>10. CASE \E c \in Call : URLPanics(c)
  BY <1>10 DEF URLPanics
<1>11. CASE \E c \in Call : Snapshot(c)
  BY <1>11 DEF Snapshot
<1>12. CASE \E c \in Call : SeedEntry(c)
  BY <1>12 DEF SeedEntry
<1>13. CASE \E c \in Call : SeedsDone(c)
  BY <1>13 DEF SeedsDone
<1>14. CASE \E c \in Call : CompiledURL(c)
  BY <1>14 DEF CompiledURL
<1>15. CASE \E c \in Call : Compiled(c)
  BY <1>15 DEF Compiled
<1>16. CASE \E c \in Call : Store(c)
  BY <1>16 DEF Store
<1>17. CASE \E c \in Call : Delete(c)
  BY <1>17 DEF Delete
<1>18. CASE \E c \in Call : Done(c)
  BY <1>18 DEF Done
<1>19. CASE \E c \in Call : CallCompile(c)
  BY <1>19 DEF CallCompile, Returned
<1>20. CASE \E c \in Call, u \in URI : CallURL(c, u)
  BY <1>20 DEF CallURL, Returned
<1>21. CASE \E u \in URI, d \in Doc : AddResource(u, d)
  BY <1>21 DEF AddResource
<1>22. CASE UNCHANGED vars
  BY <1>22 DEF vars
<1>23. QED
  BY <1>1, <1>2, <1>3, <1>4, <1>5, <1>6, <1>7, <1>8, <1>9, <1>10, <1>11, <1>12, <1>13,
     <1>14, <1>15, <1>16, <1>17, <1>18, <1>19, <1>20, <1>21, <1>22
  DEF Next, Step

(* Waiters find an empty record only after a panic. *)
LEMMA NothingStep ==
  ASSUME FlightTypeOK, WaitInv, NothingOnlyAfterPanic, [Next]_vars
  PROVE  NothingOnlyAfterPanic'
<1> USE NoneAssumption, CallAssumption DEF Goto, flightVars, seedVars, registryVars, Labels, URLLabels, Owning, Results, FlightTypeOK, WaitInv, NothingOnlyAfterPanic
<1>1. CASE \E c \in Call : Hit(c)
  BY <1>1 DEF Hit
<1>2. CASE \E c \in Call : Miss(c)
  BY <1>2 DEF Miss
<1>3. CASE \E c \in Call : Claim(c)
  BY <1>3 DEF Claim
<1>4. CASE \E c \in Call : Join(c)
  BY <1>4 DEF Join
<1>5. CASE \E c \in Call : WaitDone(c)
  BY <1>5 DEF WaitDone
<1>6. CASE \E c \in Call : RecheckHit(c)
  BY <1>6 DEF RecheckHit
<1>7. CASE \E c \in Call : RecheckMiss(c)
  BY <1>7 DEF RecheckMiss
<1>8. CASE \E c \in Call : Load(c)
  BY <1>8 DEF Load
<1>9. CASE \E c \in Call : URLFails(c)
  BY <1>9 DEF URLFails
<1>10. CASE \E c \in Call : URLPanics(c)
  BY <1>10 DEF URLPanics
<1>11. CASE \E c \in Call : Snapshot(c)
  BY <1>11 DEF Snapshot
<1>12. CASE \E c \in Call : SeedEntry(c)
  BY <1>12 DEF SeedEntry
<1>13. CASE \E c \in Call : SeedsDone(c)
  BY <1>13 DEF SeedsDone
<1>14. CASE \E c \in Call : CompiledURL(c)
  BY <1>14 DEF CompiledURL
<1>15. CASE \E c \in Call : Compiled(c)
  BY <1>15 DEF Compiled
<1>16. CASE \E c \in Call : Store(c)
  BY <1>16 DEF Store
<1>17. CASE \E c \in Call : Delete(c)
  BY <1>17 DEF Delete
<1>18. CASE \E c \in Call : Done(c)
  BY <1>18 DEF Done
<1>19. CASE \E c \in Call : CallCompile(c)
  BY <1>19 DEF CallCompile, Returned
<1>20. CASE \E c \in Call, u \in URI : CallURL(c, u)
  BY <1>20 DEF CallURL, Returned
<1>21. CASE \E u \in URI, d \in Doc : AddResource(u, d)
  BY <1>21 DEF AddResource
<1>22. CASE UNCHANGED vars
  BY <1>22 DEF vars
<1>23. QED
  BY <1>1, <1>2, <1>3, <1>4, <1>5, <1>6, <1>7, <1>8, <1>9, <1>10, <1>11, <1>12, <1>13,
     <1>14, <1>15, <1>16, <1>17, <1>18, <1>19, <1>20, <1>21, <1>22
  DEF Next, Step

(* What a compile has walked stays a prefix of an array that nothing writes to. *)
LEMMA SeedStep ==
  ASSUME FlightTypeOK, RegistryTypeOK, SeedInv, [Next]_vars
  PROVE  SeedInv'
<1> USE DEF Goto, flightVars, seedVars, registryVars, Labels, URLLabels, Owning, Results, FlightTypeOK, SeedInv
<1>1. CASE \E c \in Call : Hit(c)
  BY <1>1 DEF Hit
<1>2. CASE \E c \in Call : Miss(c)
  BY <1>2 DEF Miss
<1>3. CASE \E c \in Call : Claim(c)
  BY <1>3 DEF Claim
<1>4. CASE \E c \in Call : Join(c)
  BY <1>4 DEF Join
<1>5. CASE \E c \in Call : WaitDone(c)
  BY <1>5 DEF WaitDone
<1>6. CASE \E c \in Call : RecheckHit(c)
  BY <1>6 DEF RecheckHit
<1>7. CASE \E c \in Call : RecheckMiss(c)
  BY <1>7 DEF RecheckMiss
<1>8. CASE \E c \in Call : Load(c)
  BY <1>8 DEF Load
<1>9. CASE \E c \in Call : URLFails(c)
  BY <1>9 DEF URLFails
<1>10. CASE \E c \in Call : URLPanics(c)
  BY <1>10 DEF URLPanics
<1>11. CASE \E c \in Call : Snapshot(c)
  <2> PICK c \in Call : Snapshot(c)
    BY <1>11
  <2>1. resources \in 1..Len(arrays) /\ arrays[resources] \in Seq(Entry)
    BY ElementOfSeq DEF RegistryTypeOK
  <2>2. Len(arrays[resources]) \in Nat /\ Len(<<>>) = 0
    BY <2>1, LenProperties
  <2>3. snap \in [Call -> 0..Len(arrays)]
    BY DEF RegistryTypeOK
  <2>4. /\ pc' = [pc EXCEPT ![c] = "seed"] /\ snap' = [snap EXCEPT ![c] = resources]
        /\ seeded[c] = <<>> /\ UNCHANGED <<arrays, seeded>>
    BY DEF Snapshot
  <2>5. QED
    BY <2>1, <2>2, <2>3, <2>4
<1>12. CASE \E c \in Call : SeedEntry(c)
  <2> PICK c \in Call : SeedEntry(c)
    BY <1>12
  <2> DEFINE seen == arrays[snap[c]]
             n == Len(seeded[c])
  <2>1. /\ snap[c] \in 1..Len(arrays) /\ n < Len(seen) /\ pc[c] = "seed"
        /\ \A i \in 1..n : seeded[c][i] = seen[i]
        /\ UNCHANGED <<pc, snap, arrays>>
        /\ seeded' = [seeded EXCEPT ![c] = Append(seeded[c], seen[n + 1])]
    BY DEF SeedEntry
  <2>2. seen \in Seq(Entry) /\ seeded[c] \in Seq(Entry) /\ seeded \in [Call -> Seq(Entry)]
    BY <2>1, ElementOfSeq DEF RegistryTypeOK
  <2>3. n \in Nat /\ Len(seen) \in Nat /\ n + 1 \in 1..Len(seen)
    BY <2>1, <2>2, LenProperties
  <2> HIDE DEF seen
  <2>4. seen[n + 1] \in Entry
    BY <2>2, <2>3, ElementOfSeq
  <2>5. seeded'[c] = Append(seeded[c], seen[n + 1])
    BY <2>1, <2>2
  <2>6. /\ Len(seeded'[c]) = n + 1
        /\ \A i \in 1..(n + 1) : seeded'[c][i] = IF i <= n THEN seeded[c][i] ELSE seen[n + 1]
    BY <2>2, <2>3, <2>4, <2>5, AppendProperties
  <2>7. \A i \in 1..(n + 1) : seeded'[c][i] = seen[i]
    BY <2>1, <2>3, <2>6
  <2>8. \A d \in Call \ {c} : seeded'[d] = seeded[d]
    BY <2>1, <2>2
  <2>9. QED
    BY <2>1, <2>3, <2>6, <2>7, <2>8 DEF seen
<1>13. CASE \E c \in Call : SeedsDone(c)
  BY <1>13 DEF SeedsDone
<1>14. CASE \E c \in Call : CompiledURL(c)
  BY <1>14 DEF CompiledURL
<1>15. CASE \E c \in Call : Compiled(c)
  BY <1>15 DEF Compiled
<1>16. CASE \E c \in Call : Store(c)
  BY <1>16 DEF Store
<1>17. CASE \E c \in Call : Delete(c)
  BY <1>17 DEF Delete
<1>18. CASE \E c \in Call : Done(c)
  BY <1>18 DEF Done
<1>19. CASE \E c \in Call : CallCompile(c)
  BY <1>19 DEF CallCompile, Returned
<1>20. CASE \E c \in Call, u \in URI : CallURL(c, u)
  BY <1>20 DEF CallURL, Returned
<1>21. CASE \E u \in URI, d \in Doc : AddResource(u, d)
  <2>1. UNCHANGED <<pc, snap, seeded>>
    BY <1>21 DEF AddResource
  <2>2. \A i \in 1..Len(arrays) : i \in 1..Len(arrays') /\ arrays'[i] = arrays[i]
    BY ArraysGrow
  <2>3. QED
    BY <2>1, <2>2
<1>22. CASE UNCHANGED vars
  BY <1>22 DEF vars
<1>23. QED
  BY <1>1, <1>2, <1>3, <1>4, <1>5, <1>6, <1>7, <1>8, <1>9, <1>10, <1>11, <1>12, <1>13,
     <1>14, <1>15, <1>16, <1>17, <1>18, <1>19, <1>20, <1>21, <1>22
  DEF Next, Step

(* AddResource appends an entry only for a URI no entry has. *)
LEMMA KeyedStep ==
  ASSUME RegistryTypeOK, OneEntryPerURI, [Next]_vars
  PROVE  OneEntryPerURI'
<1> USE DEF Goto, flightVars, seedVars, registryVars, Labels, URLLabels, Owning, Results, OneEntryPerURI
<1>1. CASE \E c \in Call : Hit(c)
  BY <1>1 DEF Hit
<1>2. CASE \E c \in Call : Miss(c)
  BY <1>2 DEF Miss
<1>3. CASE \E c \in Call : Claim(c)
  BY <1>3 DEF Claim
<1>4. CASE \E c \in Call : Join(c)
  BY <1>4 DEF Join
<1>5. CASE \E c \in Call : WaitDone(c)
  BY <1>5 DEF WaitDone
<1>6. CASE \E c \in Call : RecheckHit(c)
  BY <1>6 DEF RecheckHit
<1>7. CASE \E c \in Call : RecheckMiss(c)
  BY <1>7 DEF RecheckMiss
<1>8. CASE \E c \in Call : Load(c)
  BY <1>8 DEF Load
<1>9. CASE \E c \in Call : URLFails(c)
  BY <1>9 DEF URLFails
<1>10. CASE \E c \in Call : URLPanics(c)
  BY <1>10 DEF URLPanics
<1>11. CASE \E c \in Call : Snapshot(c)
  BY <1>11 DEF Snapshot
<1>12. CASE \E c \in Call : SeedEntry(c)
  BY <1>12 DEF SeedEntry
<1>13. CASE \E c \in Call : SeedsDone(c)
  BY <1>13 DEF SeedsDone
<1>14. CASE \E c \in Call : CompiledURL(c)
  BY <1>14 DEF CompiledURL
<1>15. CASE \E c \in Call : Compiled(c)
  BY <1>15 DEF Compiled
<1>16. CASE \E c \in Call : Store(c)
  BY <1>16 DEF Store
<1>17. CASE \E c \in Call : Delete(c)
  BY <1>17 DEF Delete
<1>18. CASE \E c \in Call : Done(c)
  BY <1>18 DEF Done
<1>19. CASE \E c \in Call : CallCompile(c)
  BY <1>19 DEF CallCompile, Returned
<1>20. CASE \E c \in Call, u \in URI : CallURL(c, u)
  BY <1>20 DEF CallURL, Returned
<1>21. CASE \E u \in URI, d \in Doc : AddResource(u, d)
  <2> PICK u \in URI, d \in Doc : AddResource(u, d)
    BY <1>21
  <2> DEFINE old == arrays[resources]
             new == [uri |-> u, value |-> d]
             Keyed(s) == \A i, j \in 1..Len(s) : s[i].uri = s[j].uri => i = j
  <2>1. old \in Seq(Entry) /\ new \in Entry /\ Keyed(old) /\ Len(old) \in Nat
    BY ElementOfSeq, LenProperties DEF RegistryTypeOK, Entry
  <2>2. CASE UNCHANGED arrays
    BY <2>2
  <2>3. ASSUME NEW entries \in Seq(Entry), Keyed(entries), arrays' = Append(arrays, entries)
        PROVE  OneEntryPerURI'
    <3>1. /\ Len(arrays) \in Nat /\ Len(arrays') = Len(arrays) + 1
          /\ arrays'[Len(arrays) + 1] = entries
      BY <2>3, AppendProperties, LenProperties DEF RegistryTypeOK
    <3>2. \A k \in 1..Len(arrays) : arrays'[k] = arrays[k]
      BY ArraysGrow
    <3>3. QED
      BY <2>3, <3>1, <3>2
  <2>4. ASSUME \A i \in 1..Len(old) : old[i].uri # u
        PROVE  Keyed(Append(old, new))
    <3>1. /\ Len(Append(old, new)) = Len(old) + 1
          /\ \A i \in 1..Len(old) : Append(old, new)[i] = old[i]
          /\ Append(old, new)[Len(old) + 1] = new
      BY <2>1, AppendProperties
    <3>2. new.uri = u
      OBVIOUS
    <3> HIDE DEF old, new
    <3>3. QED
      BY <2>1, <2>4, <3>1, <3>2
  <2>5. ASSUME NEW k \in 1..Len(old), old[k].uri = u
        PROVE  Keyed([old EXCEPT ![k] = new])
    <3>1. /\ Len([old EXCEPT ![k] = new]) = Len(old)
          /\ \A i \in 1..Len(old) : [old EXCEPT ![k] = new][i] = IF i = k THEN new ELSE old[i]
      BY <2>1, ExceptSeq
    <3>2. new.uri = u
      OBVIOUS
    <3> HIDE DEF old, new
    <3>3. QED
      BY <2>1, <2>5, <3>1, <3>2
  <2>6. \/ UNCHANGED arrays
        \/ \E entries \in Seq(Entry) :
              /\ arrays' = Append(arrays, entries)
              /\ \/ entries = Append(old, new) /\ \A i \in 1..Len(old) : old[i].uri # u
                 \/ \E k \in 1..Len(old) : old[k].uri = u /\ entries = [old EXCEPT ![k] = new]
    BY AddResourceEffect
  <2> HIDE DEF old, new, Keyed
  <2>7. ASSUME NEW entries \in Seq(Entry), arrays' = Append(arrays, entries),
               \/ entries = Append(old, new) /\ \A i \in 1..Len(old) : old[i].uri # u
               \/ \E k \in 1..Len(old) : old[k].uri = u /\ entries = [old EXCEPT ![k] = new]
        PROVE  Keyed(entries)
    BY <2>4, <2>5, <2>7
  <2>8. QED
    BY <2>2, <2>3, <2>6, <2>7
<1>22. CASE UNCHANGED vars
  BY <1>22 DEF vars
<1>23. QED
  BY <1>1, <1>2, <1>3, <1>4, <1>5, <1>6, <1>7, <1>8, <1>9, <1>10, <1>11, <1>12, <1>13,
     <1>14, <1>15, <1>16, <1>17, <1>18, <1>19, <1>20, <1>21, <1>22
  DEF Next, Step

(* The strengthened invariant is inductive relative to the types. *)
THEOREM Inductive == Spec => []IInv
<1>1. Init => IInv
  <2> SUFFICES ASSUME Init PROVE IInv
    OBVIOUS
  <2> USE NoneAssumption, CallAssumption DEF Init
  <2>1. SlotInv
    BY DEF SlotInv
  <2>2. CacheInv
    BY DEF CacheInv
  <2>3. WaitInv
    BY DEF WaitInv
  <2>4. SeedInv
    BY DEF SeedInv
  <2>5. OneEntryPerURI
    BY DEF OneEntryPerURI
  <2>6. LaterCallsHit /\ NothingOnlyAfterPanic
    BY DEF LaterCallsHit, NothingOnlyAfterPanic
  <2>7. QED
    BY <2>1, <2>2, <2>3, <2>4, <2>5, <2>6 DEF IInv
<1>2. TypeOK /\ IInv /\ [Next]_vars => IInv'
  BY SlotStep, CacheStep, WaitStep, SeedStep, KeyedStep, HitStep, NothingStep DEF IInv, TypeOK
<1>3. QED
  BY <1>1, <1>2, Typing, PTL DEF Spec

(* At no time do two CompileURL calls load or compile the same URI. *)
THEOREM SingleFlight == Spec => []OneFlightPerURI
<1>1. TypeOK /\ IInv => OneFlightPerURI
  BY DEF TypeOK, FlightTypeOK, IInv, SlotInv, OneFlightPerURI
<1>2. QED
  BY <1>1, Typing, Inductive, PTL

(* All CompileURL calls for one URI that return a schema return the same one. *)
THEOREM SchemaAgreement == Spec => []OneSchemaPerURI
<1>1. TypeOK /\ IInv => OneSchemaPerURI
  BY DEF TypeOK, FlightTypeOK, IInv, CacheInv, OneSchemaPerURI
<1>2. QED
  BY <1>1, Typing, Inductive, PTL

(* After a CompileURL call returned a schema, calls that start later return it. *)
THEOREM SuccessIsSticky == Spec => []LaterCallsHit
<1>1. IInv => LaterCallsHit
  BY DEF IInv
<1>2. QED
  BY <1>1, Inductive, PTL

(* A waiter only ever fails with a flight that was live after it was called. *)
THEOREM FailureIsFresh == Spec => []NoStaleFailure
<1>1. IInv => NoStaleFailure
  BY DEF IInv, WaitInv, NoStaleFailure
<1>2. QED
  BY <1>1, Inductive, PTL

(* A waiter gets neither schema nor error only from a flight that panicked. *)
THEOREM NothingMeansPanic == Spec => []NothingOnlyAfterPanic
<1>1. IInv => NothingOnlyAfterPanic
  BY DEF IInv
<1>2. QED
  BY <1>1, Inductive, PTL

(* A compile seeds exactly one registry, whatever AddResource does meanwhile. *)
THEOREM SeedsAreOneRegistry == Spec => []SeedsOneRegistry
<1>1. ASSUME TypeOK, IInv
      PROVE  SeedsOneRegistry
  <2> SUFFICES ASSUME NEW c \in Call, pc[c] \in {"compile", "store"}
               PROVE  seeded[c] = arrays[snap[c]]
    BY DEF SeedsOneRegistry
  <2>1. /\ snap[c] \in 1..Len(arrays)
        /\ Len(seeded[c]) = Len(arrays[snap[c]])
        /\ \A i \in 1..Len(seeded[c]) : seeded[c][i] = arrays[snap[c]][i]
    BY <1>1 DEF IInv, SeedInv
  <2>2. arrays \in Seq(Seq(Entry)) /\ seeded[c] \in Seq(Entry)
    BY <1>1 DEF TypeOK, RegistryTypeOK
  <2>3. arrays[snap[c]] \in Seq(Entry)
    BY <2>1, <2>2, ElementOfSeq
  <2>4. QED
    BY <2>1, <2>2, <2>3, SeqEqual
<1>2. QED
  BY <1>1, Typing, Inductive, PTL

(* Whatever sequence of AddResource calls, under whichever collision policy,   *)
(* the registry holds one document per URI.                                    *)
THEOREM RegistryKeyed == Spec => []OneEntryPerURI
<1>1. IInv => OneEntryPerURI
  BY DEF IInv
<1>2. QED
  BY <1>1, Inductive, PTL

(* No step writes to an array that a compile may be ranging over. *)
THEOREM CopyOnWrite == Spec => ArraysImmutable
<1>1. TypeOK /\ [Next]_vars => [\A i \in 1..Len(arrays) : arrays'[i] = arrays[i]]_arrays
  BY ArraysGrow DEF TypeOK
<1>2. QED
  BY <1>1, Typing, PTL DEF Spec, ArraysImmutable

(* A returning step of a CompileURL call is a Return of CompileOnce. *)
LEMMA ReturnMaps ==
  ASSUME FlightTypeOK, SlotInv, CacheInv, WaitInv, LaterCallsHit,
         NEW c \in Call, uri[c] # None, pc[c] \notin {"idle", "lookup", "returned"},
         NEW r \in Results,
         r \in Call => cache[uri[c]] = r,
         pc' = [pc EXCEPT ![c] = "returned"], ret' = [ret EXCEPT ![c] = r],
         UNCHANGED <<uri, cache, before>>
  PROVE  Once!Return(c)
<1> USE NoneAssumption, CallAssumption DEF FlightTypeOK, Results
<1>1. Once!Pending(c)
  BY DEF Once!Pending, URLCall, Outcome
<1>2. Outcome' = [Outcome EXCEPT ![c] = r]
  BY DEF URLCall, Outcome
<1>3. UNCHANGED <<cache, uri, ReturnedBefore>>
  BY DEF URLCall, ReturnedBefore
<1>4. CASE r \in Call
  BY <1>1, <1>2, <1>3, <1>4 DEF Once!Return, Once!ReturnSchema
<1>5. CASE r \notin Call
  <2>1. r \in Once!NoSchema
    BY <1>5 DEF Once!NoSchema
  <2>2. ASSUME NEW d \in ReturnedBefore[c], uri[d] = uri[c]
        PROVE  Outcome[d] \in Once!NoSchema
    <3>1. d \in Call /\ d \in before[c] /\ uri[d] # None /\ pc[d] = "returned"
      BY <2>2 DEF URLCall, WaitInv, ReturnedBefore
    <3>2. ret[d] \notin Call
      BY <2>2, <3>1 DEF LaterCallsHit
    <3>3. ret[d] \in Results
      BY <3>1 DEF WaitInv
    <3>4. QED
      BY <3>1, <3>2, <3>3 DEF Once!NoSchema, URLCall, Outcome
  <2>3. QED
    BY <1>1, <1>2, <1>3, <2>1, <2>2 DEF Once!Return, Once!ReturnNothing
<1>6. QED
  BY <1>4, <1>5

(* Compiler implements the safety part of CompileOnce: a call's start maps to  *)
(* Begin, its Store to Publish, its return to Return, and the rest to stutters. *)
THEOREM Refinement == Spec => Once!Safety
<1> USE NoneAssumption, CallAssumption
<1>1. Init => Once!Init
  BY DEF Init, Once!Init, URLCall, Outcome, ReturnedBefore
<1>2. ASSUME TypeOK, IInv, [Next]_vars
      PROVE  [Once!Next]_(Once!vars)
  <2> USE <1>2 DEF Goto, flightVars, seedVars, registryVars, TypeOK, FlightTypeOK, Labels,
                   URLLabels, Results
  <2>1. ASSUME NEW c \in Call, Hit(c)
        PROVE  [Once!Next]_(Once!vars)
    <3>1. uri[c] # None /\ cache[uri[c]] \in Call
      BY <2>1 DEF Hit
    <3>2. Once!Pending(c)
      BY <2>1, <3>1 DEF Hit, Once!Pending, URLCall, Outcome
    <3>3. Outcome' = [Outcome EXCEPT ![c] = cache[uri[c]]]
      BY <2>1, <3>1 DEF Hit, URLCall, Outcome
    <3>4. UNCHANGED <<cache, uri, ReturnedBefore>>
      BY <2>1 DEF Hit, URLCall, ReturnedBefore
    <3>5. QED
      BY <2>1, <3>1, <3>2, <3>3, <3>4 DEF Hit, Once!Next, Once!Return, Once!ReturnSchema
  <2>2. ASSUME NEW c \in Call, Miss(c)
        PROVE  [Once!Next]_(Once!vars)
    BY <2>2 DEF Miss, Once!vars, URLCall, Outcome, ReturnedBefore
  <2>3. ASSUME NEW c \in Call, Claim(c)
        PROVE  [Once!Next]_(Once!vars)
    BY <2>3 DEF Claim, Once!vars, URLCall, Outcome, ReturnedBefore
  <2>4. ASSUME NEW c \in Call, Join(c)
        PROVE  [Once!Next]_(Once!vars)
    BY <2>4 DEF Join, Once!vars, URLCall, Outcome, ReturnedBefore
  <2>5. ASSUME NEW c \in Call, WaitDone(c)
        PROVE  [Once!Next]_(Once!vars)
    <3>1. /\ joined[c] \in Call /\ uri[joined[c]] = uri[c] /\ uri[c] # None
          /\ rec[joined[c]] \in Results
      BY <2>5 DEF WaitDone, IInv, WaitInv
    <3>2. rec[joined[c]] \in Call => cache[uri[c]] = rec[joined[c]]
      BY <3>1 DEF IInv, CacheInv
    <3>3. Once!Return(c)
      BY <2>5, <3>1, <3>2, ReturnMaps DEF WaitDone, IInv
    <3>4. QED
      BY <3>3 DEF Once!Next
  <2>6. ASSUME NEW c \in Call, RecheckHit(c)
        PROVE  [Once!Next]_(Once!vars)
    BY <2>6 DEF RecheckHit, Once!vars, URLCall, Outcome, ReturnedBefore
  <2>7. ASSUME NEW c \in Call, RecheckMiss(c)
        PROVE  [Once!Next]_(Once!vars)
    BY <2>7 DEF RecheckMiss, Once!vars, URLCall, Outcome, ReturnedBefore
  <2>8. ASSUME NEW c \in Call, Load(c)
        PROVE  [Once!Next]_(Once!vars)
    BY <2>8 DEF Load, Once!vars, URLCall, Outcome, ReturnedBefore
  <2>9. ASSUME NEW c \in Call, URLFails(c)
        PROVE  [Once!Next]_(Once!vars)
    BY <2>9 DEF URLFails, Once!vars, URLCall, Outcome, ReturnedBefore
  <2>10. ASSUME NEW c \in Call, URLPanics(c)
        PROVE  [Once!Next]_(Once!vars)
    BY <2>10 DEF URLPanics, Once!vars, URLCall, Outcome, ReturnedBefore
  <2>11. ASSUME NEW c \in Call, Snapshot(c)
        PROVE  [Once!Next]_(Once!vars)
    BY <2>11 DEF Snapshot, Once!vars, URLCall, Outcome, ReturnedBefore
  <2>12. ASSUME NEW c \in Call, SeedEntry(c)
        PROVE  [Once!Next]_(Once!vars)
    BY <2>12 DEF SeedEntry, Once!vars, URLCall, Outcome, ReturnedBefore
  <2>13. ASSUME NEW c \in Call, SeedsDone(c)
        PROVE  [Once!Next]_(Once!vars)
    BY <2>13 DEF SeedsDone, Once!vars, URLCall, Outcome, ReturnedBefore
  <2>14. ASSUME NEW c \in Call, CompiledURL(c)
        PROVE  [Once!Next]_(Once!vars)
    BY <2>14 DEF CompiledURL, Once!vars, URLCall, Outcome, ReturnedBefore
  <2>15. ASSUME NEW c \in Call, Compiled(c)
        PROVE  [Once!Next]_(Once!vars)
    BY <2>15 DEF Compiled, Once!vars, URLCall, Outcome, ReturnedBefore
  <2>16. ASSUME NEW c \in Call, Store(c)
        PROVE  [Once!Next]_(Once!vars)
    <3>1. cache[uri[c]] = None
      BY <2>16 DEF Store, IInv, CacheInv
    <3>2. Once!Publish(c)
      BY <2>16, <3>1 DEF Store, Once!Publish, Once!Pending, URLCall, Outcome, ReturnedBefore
    <3>3. QED
      BY <3>2 DEF Once!Next
  <2>17. ASSUME NEW c \in Call, Delete(c)
        PROVE  [Once!Next]_(Once!vars)
    BY <2>17 DEF Delete, Once!vars, URLCall, Outcome, ReturnedBefore
  <2>18. ASSUME NEW c \in Call, Done(c)
        PROVE  [Once!Next]_(Once!vars)
    <3>1. ret[c] \in Results /\ ret' = [ret EXCEPT ![c] = ret[c]] /\ uri[c] # None
      BY <2>18 DEF Done, IInv, WaitInv
    <3>2. ret[c] \in Call => cache[uri[c]] = ret[c]
      BY <2>18, <3>1 DEF Done, IInv, CacheInv
    <3>3. Once!Return(c)
      BY <2>18, <3>1, <3>2, ReturnMaps DEF Done, IInv
    <3>4. QED
      BY <3>3 DEF Once!Next
  <2>19. ASSUME NEW c \in Call, CallCompile(c)
        PROVE  [Once!Next]_(Once!vars)
    <3>1. uri[c] = None
      BY <2>19 DEF CallCompile, IInv, SlotInv
    <3>2. UNCHANGED Outcome
      BY <2>19, <3>1 DEF CallCompile, Outcome, URLCall
    <3>3. UNCHANGED ReturnedBefore
      BY <2>19, <3>1 DEF CallCompile, ReturnedBefore, URLCall
    <3>4. QED
      BY <2>19, <3>2, <3>3 DEF CallCompile, Once!vars
  <2>20. ASSUME NEW c \in Call, NEW u \in URI, CallURL(c, u)
         PROVE  [Once!Next]_(Once!vars)
    <3>1. uri[c] = None /\ u # None
      BY <2>20 DEF CallURL, IInv, SlotInv
    <3>2. \A d \in Call : pc[d] = "returned" => ret[d] # None
      BY DEF IInv, WaitInv
    <3>3. \A d \in Call : \A e \in before[d] : e # c
      BY <2>20 DEF CallURL, IInv, WaitInv
    <3>4. URLCall' = URLCall \cup {c} /\ c \notin URLCall
      BY <2>20, <3>1 DEF CallURL, URLCall
    <3>5. UNCHANGED Outcome
      BY <2>20, <3>1, <3>4 DEF CallURL, Outcome
    <3>6. before'[c] \cap URLCall' = {d \in Call : Outcome[d] # None}
      BY <2>20, <3>2, <3>4 DEF CallURL, Returned, Outcome
    <3>7. ASSUME NEW d \in Call, d # c
          PROVE  before'[d] \cap URLCall' = before[d] \cap URLCall
      BY <2>20, <3>3, <3>4, <3>7 DEF CallURL
    <3>8. ReturnedBefore' = [ReturnedBefore EXCEPT ![c] = {d \in Call : Outcome[d] # None}]
      BY <3>4, <3>6, <3>7 DEF ReturnedBefore
    <3>9. QED
      BY <2>20, <3>1, <3>5, <3>8 DEF CallURL, Once!Next, Once!Begin
  <2>21. CASE \E u \in URI, d \in Doc : AddResource(u, d)
    BY <2>21 DEF AddResource, Once!vars, URLCall, Outcome, ReturnedBefore
  <2>22. CASE UNCHANGED vars
    BY <2>22 DEF vars, Once!vars, URLCall, Outcome, ReturnedBefore
  <2>23. QED
    BY <2>1, <2>2, <2>3, <2>4, <2>5, <2>6, <2>7, <2>8, <2>9, <2>10, <2>11, <2>12, <2>13,
       <2>14, <2>15, <2>16, <2>17, <2>18, <2>19, <2>20, <2>21, <2>22
    DEF Next, Step
<1>3. QED
  BY <1>1, <1>2, Typing, Inductive, PTL DEF Spec, Once!Safety

=============================================================================
