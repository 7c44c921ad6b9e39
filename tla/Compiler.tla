------------------------------ MODULE Compiler ------------------------------
(***************************************************************************)
(* jsonschema.Compiler as goroutines share it (compile.go): the schema      *)
(* cache and the single-flight table of CompileURL, and the copy-on-write   *)
(* registry AddResource keeps for every compile to seed from.               *)
(*                                                                          *)
(* An element of Call is one invocation of CompileURL or Compile; a         *)
(* goroutine that calls twice is two elements, the second started after the *)
(* first returned.  A schema is named by the call that compiled it (a       *)
(* *Schema pointer is never equal to another compile's), and the inflight   *)
(* record a call allocates is named by the call too.  What a compile does   *)
(* between seeding and its result is one step with the outcomes it can      *)
(* have; the resource map it builds is the subject of ResourceMap.          *)
(***************************************************************************)
EXTENDS Naturals, Sequences

CONSTANTS Call,       \* invocations of CompileURL and Compile
          URI,        \* the URIs they ask for and resources are registered under
          Doc,        \* parsed documents, equal when reflect.DeepEqual is true
          Malformed,  \* the members of Doc that AddResource refuses
          MaxAdds,    \* bound: number of AddResource invocations
          None        \* no call, no URI, no result

ASSUME NoneAssumption == None \notin Call \cup URI \cup {"failed", "panicked", "nil"}
ASSUME CallAssumption == Call \cap {"failed", "panicked", "nil"} = {}
ASSUME DocAssumption == Malformed \subseteq Doc
ASSUME BoundAssumption == MaxAdds \in Nat

VARIABLES pc,         \* pc[c]: the statement call c is about to execute
          uri,        \* uri[c]: the argument of CompileURL, None for Compile
          cache,      \* Compiler.cache: URI -> the schema compiled for it
          flight,     \* Compiler.flight: URI -> the inflight record in the slot
          joined,     \* joined[c]: the inflight record c waits on
          rec,        \* rec[c]: result field of the record c allocated
          finished,   \* the records whose WaitGroup reached zero
          ret,        \* ret[c]: what c returns, or returned
          arrays,     \* every backing array the registry ever had
          resources,  \* index in arrays of Compiler.resources
          snap,       \* snap[c]: the slice seedResources read under resMu
          seeded,     \* seeded[c]: the entries seedResources has walked
          policy,     \* opts.refCollisionPolicy, fixed by NewCompiler
          adds,       \* bound: AddResource invocations so far
          before      \* history: the calls that had returned when c started

flightVars == <<pc, uri, cache, flight, joined, rec, finished, ret, before>>
seedVars == <<snap, seeded>>
registryVars == <<arrays, resources, policy, adds>>
vars == <<flightVars, seedVars, registryVars>>

Labels == {"idle", "lookup", "claim", "wait", "recheck", "load", "snapshot",
           "seed", "compile", "store", "delete", "done", "returned"}
\* The statements only CompileURL has.
URLLabels == {"lookup", "claim", "wait", "recheck", "load", "store", "delete", "done"}
Results == Call \cup {"failed", "panicked", "nil"}
Policies == {"error", "first", "last"}
Entry == [uri : URI, value : Doc]

\* Between LoadOrStore and flight.Delete the call owns the URI's slot.
Owning == {"recheck", "load", "snapshot", "seed", "compile", "store", "delete"}

Init ==
    /\ pc = [c \in Call |-> "idle"]
    /\ uri = [c \in Call |-> None]
    /\ cache = [u \in URI |-> None]
    /\ flight = [u \in URI |-> None]
    /\ joined = [c \in Call |-> None]
    /\ rec = [c \in Call |-> "nil"]
    /\ finished = {}
    /\ ret = [c \in Call |-> None]
    /\ arrays = << <<>> >>
    /\ resources = 1
    /\ snap = [c \in Call |-> 0]
    /\ seeded = [c \in Call |-> <<>>]
    /\ policy \in Policies
    /\ adds = 0
    /\ before = [c \in Call |-> {}]

Goto(c, label) == pc' = [pc EXCEPT ![c] = label]
Returned == {c \in Call : pc[c] = "returned"}

-----------------------------------------------------------------------------
(* Callers *)

CallURL(c, u) ==
    /\ pc[c] = "idle"
    /\ uri' = [uri EXCEPT ![c] = u]
    /\ before' = [before EXCEPT ![c] = Returned]
    /\ Goto(c, "lookup")
    /\ UNCHANGED <<cache, flight, joined, rec, finished, ret, seedVars, registryVars>>

\* Compile and CompileValue: no cache, no flight, straight to compile.
CallCompile(c) ==
    /\ pc[c] = "idle"
    /\ before' = [before EXCEPT ![c] = Returned]
    /\ Goto(c, "snapshot")
    /\ UNCHANGED <<uri, cache, flight, joined, rec, finished, ret, seedVars, registryVars>>

-----------------------------------------------------------------------------
(* CompileURL *)

Hit(c) ==
    /\ pc[c] = "lookup"
    /\ cache[uri[c]] # None
    /\ ret' = [ret EXCEPT ![c] = cache[uri[c]]]
    /\ Goto(c, "returned")
    /\ UNCHANGED <<uri, cache, flight, joined, rec, finished, before, seedVars, registryVars>>

Miss(c) ==
    /\ pc[c] = "lookup"
    /\ cache[uri[c]] = None
    /\ Goto(c, "claim")
    /\ UNCHANGED <<uri, cache, flight, joined, rec, finished, ret, before, seedVars, registryVars>>

\* Mutant: a Store where LoadOrStore is needed.
WrongClaim(c) ==
    /\ pc[c] = "claim"
    /\ flight' = [flight EXCEPT ![uri[c]] = c]
    /\ Goto(c, "recheck")
    /\ UNCHANGED <<uri, cache, joined, rec, finished, ret, before, seedVars, registryVars>>

\* LoadOrStore stored the caller's own record.
Claim(c) ==
    /\ pc[c] = "claim"
    /\ flight[uri[c]] = None
    /\ flight' = [flight EXCEPT ![uri[c]] = c]
    /\ Goto(c, "recheck")
    /\ UNCHANGED <<uri, cache, joined, rec, finished, ret, before, seedVars, registryVars>>

\* LoadOrStore loaded another call's record.
Join(c) ==
    /\ pc[c] = "claim"
    /\ flight[uri[c]] # None
    /\ joined' = [joined EXCEPT ![c] = flight[uri[c]]]
    /\ Goto(c, "wait")
    /\ UNCHANGED <<uri, cache, flight, rec, finished, ret, before, seedVars, registryVars>>

WaitDone(c) ==
    /\ pc[c] = "wait"
    /\ joined[c] \in finished
    /\ ret' = [ret EXCEPT ![c] = rec[joined[c]]]
    /\ Goto(c, "returned")
    /\ UNCHANGED <<uri, cache, flight, joined, rec, finished, before, seedVars, registryVars>>

\* The re-check after winning the slot finds what another call stored between
\* this call's first check and its LoadOrStore.
RecheckHit(c) ==
    /\ pc[c] = "recheck"
    /\ cache[uri[c]] # None
    /\ rec' = [rec EXCEPT ![c] = cache[uri[c]]]
    /\ ret' = [ret EXCEPT ![c] = cache[uri[c]]]
    /\ Goto(c, "delete")
    /\ UNCHANGED <<uri, cache, flight, joined, finished, before, seedVars, registryVars>>

\* Mutant: the cache is not looked at again.
WrongRecheckMiss(c) ==
    /\ pc[c] = "recheck"
    /\ Goto(c, "load")
    /\ UNCHANGED <<uri, cache, flight, joined, rec, finished, ret, before, seedVars, registryVars>>

RecheckMiss(c) ==
    /\ pc[c] = "recheck"
    /\ cache[uri[c]] = None
    /\ Goto(c, "load")
    /\ UNCHANGED <<uri, cache, flight, joined, rec, finished, ret, before, seedVars, registryVars>>

\* loader.Load and decodeSchemaBytes succeed.
Load(c) ==
    /\ pc[c] = "load"
    /\ Goto(c, "snapshot")
    /\ UNCHANGED <<uri, cache, flight, joined, rec, finished, ret, before, seedVars, registryVars>>

\* Mutant: the error is returned but not left for the waiters.
WrongURLFails(c) ==
    /\ pc[c] \in {"load", "compile"}
    /\ uri[c] # None
    /\ ret' = [ret EXCEPT ![c] = "failed"]
    /\ Goto(c, "delete")
    /\ UNCHANGED <<uri, cache, flight, joined, rec, finished, before, seedVars, registryVars>>

\* Loading, decoding or compiling fails: the error is left for the waiters.
URLFails(c) ==
    /\ pc[c] \in {"load", "compile"}
    /\ uri[c] # None
    /\ rec' = [rec EXCEPT ![c] = "failed"]
    /\ ret' = [ret EXCEPT ![c] = "failed"]
    /\ Goto(c, "delete")
    /\ UNCHANGED <<uri, cache, flight, joined, finished, before, seedVars, registryVars>>

\* Mutant: the clean-up is not deferred, and a panic skips it.
WrongURLPanics(c) ==
    /\ pc[c] \in {"load", "compile"}
    /\ uri[c] # None
    /\ ret' = [ret EXCEPT ![c] = "panicked"]
    /\ Goto(c, "returned")
    /\ UNCHANGED <<uri, cache, flight, joined, rec, finished, before, seedVars, registryVars>>

\* The Loader panics through CompileURL: only the deferred function still runs,
\* and the record keeps its zero value.
URLPanics(c) ==
    /\ pc[c] \in {"load", "compile"}
    /\ uri[c] # None
    /\ ret' = [ret EXCEPT ![c] = "panicked"]
    /\ Goto(c, "delete")
    /\ UNCHANGED <<uri, cache, flight, joined, rec, finished, before, seedVars, registryVars>>

\* Mutants: the schema is left for the waiters but not cached; it is cached
\* but not left for the waiters.
NotCached(c) ==
    /\ pc[c] = "store"
    /\ rec' = [rec EXCEPT ![c] = c]
    /\ Goto(c, "delete")
    /\ UNCHANGED <<uri, cache, flight, joined, finished, ret, before, seedVars, registryVars>>

NotLeft(c) ==
    /\ pc[c] = "store"
    /\ cache' = [cache EXCEPT ![uri[c]] = c]
    /\ Goto(c, "delete")
    /\ UNCHANGED <<uri, flight, joined, rec, finished, ret, before, seedVars, registryVars>>

Store(c) ==
    /\ pc[c] = "store"
    /\ cache' = [cache EXCEPT ![uri[c]] = c]
    /\ rec' = [rec EXCEPT ![c] = c]
    /\ Goto(c, "delete")
    /\ UNCHANGED <<uri, flight, joined, finished, ret, before, seedVars, registryVars>>

\* Mutant: the slot is never emptied.
WrongDelete(c) ==
    /\ pc[c] = "delete"
    /\ Goto(c, "done")
    /\ UNCHANGED <<uri, cache, flight, joined, rec, finished, ret, before, seedVars, registryVars>>

\* The deferred function: empty the slot, then wake the waiters.
Delete(c) ==
    /\ pc[c] = "delete"
    /\ flight' = [flight EXCEPT ![uri[c]] = None]
    /\ Goto(c, "done")
    /\ UNCHANGED <<uri, cache, joined, rec, finished, ret, before, seedVars, registryVars>>

Done(c) ==
    /\ pc[c] = "done"
    /\ finished' = finished \cup {c}
    /\ Goto(c, "returned")
    /\ UNCHANGED <<uri, cache, flight, joined, rec, ret, before, seedVars, registryVars>>

-----------------------------------------------------------------------------
(* compile *)

\* seedResources reads c.resources under resMu.RLock.
Snapshot(c) ==
    /\ pc[c] = "snapshot"
    /\ snap' = [snap EXCEPT ![c] = resources]
    /\ Goto(c, "seed")
    /\ UNCHANGED <<uri, cache, flight, joined, rec, finished, ret, before, seeded, registryVars>>

\* Mutant: the walk reads Compiler.resources anew for every entry.
WrongSeedEntry(c) ==
    /\ pc[c] = "seed"
    /\ Len(seeded[c]) < Len(arrays[resources])
    /\ seeded' = [seeded EXCEPT ![c] = Append(@, arrays[resources][Len(@) + 1])]
    /\ UNCHANGED <<flightVars, snap, registryVars>>

\* ... and walks the entries after RUnlock, reading the array it saw.
SeedEntry(c) ==
    /\ pc[c] = "seed"
    /\ Len(seeded[c]) < Len(arrays[snap[c]])
    /\ seeded' = [seeded EXCEPT ![c] = Append(@, arrays[snap[c]][Len(@) + 1])]
    /\ UNCHANGED <<flightVars, snap, registryVars>>

SeedsDone(c) ==
    /\ pc[c] = "seed"
    /\ Len(seeded[c]) >= Len(arrays[snap[c]])
    /\ Goto(c, "compile")
    /\ UNCHANGED <<uri, cache, flight, joined, rec, finished, ret, before, seedVars, registryVars>>

\* Everything else compile does is to its own data.  It can fail when the schema
\* is not valid, registered documents collide, or a reference does not load.
CompiledURL(c) ==
    /\ pc[c] = "compile"
    /\ uri[c] # None
    /\ ret' = [ret EXCEPT ![c] = c]
    /\ Goto(c, "store")
    /\ UNCHANGED <<uri, cache, flight, joined, rec, finished, before, seedVars, registryVars>>

\* Compile returns what its own compile came to; nothing of it is shared.
Compiled(c) ==
    /\ pc[c] = "compile"
    /\ uri[c] = None
    /\ \E result \in {c, "failed", "panicked"} : ret' = [ret EXCEPT ![c] = result]
    /\ Goto(c, "returned")
    /\ UNCHANGED <<uri, cache, flight, joined, rec, finished, before, seedVars, registryVars>>

-----------------------------------------------------------------------------
(* AddResource: the document is parsed and walked outside the lock, then the *)
(* registry is replaced under it.                                            *)

\* The index of the registered entry for u (there is at most one, see
\* OneEntryPerURI), 0 when there is none.
Registered(u) ==
    LET at == {i \in 1..Len(arrays[resources]) : arrays[resources][i].uri = u}
    IN IF at = {} THEN 0 ELSE CHOOSE i \in at : TRUE

\* Mutant: the registry is changed in place.
WrongPublish(entries) ==
    /\ arrays' = [arrays EXCEPT ![resources] = entries]
    /\ UNCHANGED resources

\* A new backing array becomes the registry.
Publish(entries) ==
    /\ arrays' = Append(arrays, entries)
    /\ resources' = Len(arrays) + 1

AddRefused(u, d) ==
    /\ \/ d \in Malformed
       \/ /\ Registered(u) # 0
          /\ arrays[resources][Registered(u)].value # d
          /\ policy = "error"
    /\ UNCHANGED <<arrays, resources>>

AddKept(u, d) ==
    /\ d \notin Malformed
    /\ Registered(u) # 0
    /\ \/ arrays[resources][Registered(u)].value = d
       \/ policy = "first"
    /\ UNCHANGED <<arrays, resources>>

\* Mutant: registered without a look at what is registered.
WrongAddNew(u, d) ==
    /\ d \notin Malformed
    /\ Publish(Append(arrays[resources], [uri |-> u, value |-> d]))

AddNew(u, d) ==
    /\ d \notin Malformed
    /\ Registered(u) = 0
    /\ Publish(Append(arrays[resources], [uri |-> u, value |-> d]))

\* Mutant: the collision policy is not asked.
WrongAddReplaced(u, d) ==
    /\ d \notin Malformed
    /\ Registered(u) # 0
    /\ Publish([arrays[resources] EXCEPT ![Registered(u)] = [uri |-> u, value |-> d]])

AddReplaced(u, d) ==
    /\ d \notin Malformed
    /\ Registered(u) # 0
    /\ arrays[resources][Registered(u)].value # d
    /\ policy = "last"
    /\ Publish([arrays[resources] EXCEPT ![Registered(u)] = [uri |-> u, value |-> d]])

AddResource(u, d) ==
    /\ adds < MaxAdds
    /\ adds' = adds + 1
    /\ AddRefused(u, d) \/ AddKept(u, d) \/ AddNew(u, d) \/ AddReplaced(u, d)
    /\ UNCHANGED <<flightVars, seedVars, policy>>

-----------------------------------------------------------------------------

Step(c) ==
    \/ Hit(c) \/ Miss(c) \/ Claim(c) \/ Join(c) \/ WaitDone(c)
    \/ RecheckHit(c) \/ RecheckMiss(c) \/ Load(c) \/ URLFails(c) \/ URLPanics(c)
    \/ Snapshot(c) \/ SeedEntry(c) \/ SeedsDone(c) \/ CompiledURL(c) \/ Compiled(c)
    \/ Store(c) \/ Delete(c) \/ Done(c)

Next ==
    \/ \E c \in Call : Step(c) \/ CallCompile(c)
    \/ \E c \in Call, u \in URI : CallURL(c, u)
    \/ \E u \in URI, d \in Doc : AddResource(u, d)

\* A goroutine that can run is scheduled; nobody has to call.
Fairness == \A c \in Call : WF_vars(Step(c))

Spec == Init /\ [][Next]_vars /\ Fairness

-----------------------------------------------------------------------------
(* Properties *)

FlightTypeOK ==
    /\ pc \in [Call -> Labels]
    /\ uri \in [Call -> URI \cup {None}]
    /\ cache \in [URI -> Call \cup {None}]
    /\ flight \in [URI -> Call \cup {None}]
    /\ joined \in [Call -> Call \cup {None}]
    /\ rec \in [Call -> Call \cup {"failed", "nil"}]
    /\ finished \subseteq Call
    /\ ret \in [Call -> Results \cup {None}]
    /\ before \in [Call -> SUBSET Call]
    /\ \A c \in Call : pc[c] \in URLLabels => uri[c] # None

RegistryTypeOK ==
    /\ arrays \in Seq(Seq(Entry))
    /\ resources \in 1..Len(arrays)
    /\ snap \in [Call -> 0..Len(arrays)]
    /\ seeded \in [Call -> Seq(Entry)]
    /\ policy \in Policies
    /\ adds \in 0..MaxAdds
    /\ \A c \in Call : pc[c] \in {"seed", "compile"} => snap[c] # 0

TypeOK == FlightTypeOK /\ RegistryTypeOK

\* "Concurrent CompileURL calls for the same URI share one fetch and compile":
\* at no time are two calls loading or compiling the same URI.
OneFlightPerURI ==
    \A c, d \in Call :
        (c # d /\ pc[c] \in Owning /\ pc[d] \in Owning /\ uri[c] # None) => uri[c] # uri[d]

\* "A successful result is cached by uri, so later calls return it": however
\* calls interleave, every CompileURL call for one URI that returns a schema
\* returns the same one, though the first cache check, the slot, the re-check
\* and the store are separate steps.
OneSchemaPerURI ==
    \A c, d \in Call :
        (/\ pc[c] = "returned" /\ pc[d] = "returned"
         /\ uri[c] # None /\ uri[c] = uri[d]
         /\ ret[c] \in Call /\ ret[d] \in Call) => ret[c] = ret[d]

\* A failure is not cached: the error a waiter returns is that of a flight
\* whose owner had not yet returned when the waiter was called.
NoStaleFailure ==
    \A c \in Call :
        (pc[c] = "returned" /\ ret[c] = "failed" /\ joined[c] # None) =>
            joined[c] \notin before[c]

\* CompileURL returns neither a schema nor an error only to a waiter whose
\* flight's owner panicked in the Loader.
NothingOnlyAfterPanic ==
    \A c \in Call :
        (pc[c] = "returned" /\ ret[c] = "nil") =>
            /\ joined[c] # None
            /\ ret[joined[c]] = "panicked"

\* Once some CompileURL call for u has returned a schema, a call for u that
\* starts afterwards returns that schema too: it neither fails nor fetches.
LaterCallsHit ==
    \A c, d \in Call :
        (/\ d \in before[c] /\ uri[c] # None /\ uri[d] = uri[c] /\ ret[d] \in Call) =>
            /\ pc[c] \in {"lookup", "returned"}
            /\ pc[c] = "returned" => ret[c] = ret[d]

\* A compile seeds exactly what was registered at the instant it read the
\* registry, whatever AddResource does while it walks the entries.
SeedsOneRegistry ==
    \A c \in Call :
        pc[c] \in {"compile", "store"} => seeded[c] = arrays[snap[c]]

\* No array ever holds two entries for one URI, so the first match that
\* AddResource looks for is the only one.
OneEntryPerURI ==
    \A k \in 1..Len(arrays) : \A i, j \in 1..Len(arrays[k]) :
        arrays[k][i].uri = arrays[k][j].uri => i = j

\* AddResource never writes to an array a compile may be ranging over.
ArraysImmutable ==
    [][\A i \in 1..Len(arrays) : arrays'[i] = arrays[i]]_arrays

\* Registration is never undone: a URI stays registered, and under
\* RefCollisionError and RefCollisionFirstWins it keeps its document.
RegistryGrows ==
    [][\A i \in 1..Len(arrays[resources]) :
          /\ i <= Len(arrays'[resources'])
          /\ arrays'[resources'][i].uri = arrays[resources][i].uri
          /\ policy # "last" => arrays'[resources'][i] = arrays[resources][i]]_<<arrays, resources>>

\* Every call returns, a waiter included, even when a Loader panicked.
EveryCallReturns ==
    \A c \in Call : (pc[c] # "idle") ~> (pc[c] = "returned")

\* Compiler implements CompileOnce: hide the flights and the registry, and see a
\* call only when it is made and when it has returned.
URLCall == {c \in Call : uri[c] # None}
ReturnedBefore == [c \in Call |-> IF c \in URLCall THEN before[c] \cap URLCall ELSE {}]
Outcome == [c \in Call |-> IF c \in URLCall /\ pc[c] = "returned" THEN ret[c] ELSE None]
Once == INSTANCE CompileOnce WITH
            memo <- cache, arg <- uri, earlier <- ReturnedBefore, result <- Outcome
PublishesOnce == Once!Spec

-----------------------------------------------------------------------------
(* The inductive strengthening of the properties, conjunct by conjunct.      *)

\* A slot holds the record of the one call that owns it.
SlotInv ==
    /\ \A c \in Call : pc[c] = "idle" => uri[c] = None
    /\ \A c \in Call : (pc[c] \in Owning /\ uri[c] # None) => flight[uri[c]] = c
    /\ \A u \in URI : flight[u] # None => pc[flight[u]] \in Owning /\ uri[flight[u]] = u

\* While a call compiles u nothing is cached for u, and a schema that a call
\* holds to return, or has left for its waiters, is the one that is cached.
CacheInv ==
    /\ \A c \in Call :
          (uri[c] # None /\ pc[c] \in {"load", "snapshot", "seed", "compile", "store"}) =>
              cache[uri[c]] = None
    /\ \A c \in Call : pc[c] = "store" => ret[c] = c
    /\ \A c \in Call :
          (uri[c] # None /\ ret[c] \in Call /\ pc[c] # "store") => cache[uri[c]] = ret[c]
    /\ \A c \in Call : (uri[c] # None /\ rec[c] \in Call) => cache[uri[c]] = rec[c]

\* A waiter waits on a call for the same URI that was under way when the
\* waiter started, and a record is finished only when its owner has returned.
WaitInv ==
    /\ \A c \in Call : pc[c] \in {"wait"} => joined[c] # None
    /\ \A c \in Call :
          joined[c] # None =>
              /\ pc[c] \in {"wait", "returned"}
              /\ pc[joined[c]] # "idle"
              /\ uri[c] # None
              /\ uri[joined[c]] = uri[c]
              /\ joined[c] \notin before[c]
    /\ \A c \in Call : \A d \in before[c] : pc[d] = "returned"
    /\ \A c \in finished : pc[c] = "returned"
    /\ \A c \in Call :
          ((pc[c] \in {"delete", "done"} \/ c \in finished) /\ rec[c] = "nil") => ret[c] = "panicked"
    /\ \A c \in Call : pc[c] \in {"delete", "done"} => ret[c] # "nil"
    /\ \A c \in Call : pc[c] \in {"store", "delete", "done", "returned"} <=> ret[c] # None
    /\ \A c \in Call : pc[c] \notin {"delete", "done", "returned"} => rec[c] = "nil"

\* What a compile has walked is a prefix of the array it read.
SeedInv ==
    \A c \in Call :
        /\ pc[c] = "snapshot" => seeded[c] = <<>>
        /\ pc[c] \in {"idle", "lookup", "claim", "recheck", "load"} => seeded[c] = <<>>
        /\ pc[c] \in {"seed", "compile", "store"} =>
              /\ snap[c] \in 1..Len(arrays)
              /\ Len(seeded[c]) <= Len(arrays[snap[c]])
              /\ \A i \in 1..Len(seeded[c]) : seeded[c][i] = arrays[snap[c]][i]
        /\ pc[c] \in {"compile", "store"} => Len(seeded[c]) = Len(arrays[snap[c]])

IInv ==
    /\ SlotInv
    /\ CacheInv
    /\ WaitInv
    /\ SeedInv
    /\ OneEntryPerURI
    /\ LaterCallsHit
    /\ NothingOnlyAfterPanic

=============================================================================
