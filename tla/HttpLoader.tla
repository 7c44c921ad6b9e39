------------------------------ MODULE HttpLoader ------------------------------
(***************************************************************************)
(* httploader.Loader as goroutines share it (httploader/loader.go): the     *)
(* single-flight table around the round-trip, and the cache of responses    *)
(* with its time to live.                                                   *)
(*                                                                          *)
(* An element of Call is one invocation of Load.  A record in the flight    *)
(* table and a *cacheEntry are named by the call that made them.  What a    *)
(* server answers is a version number that grows whenever the document      *)
(* changes.                                                                 *)
(***************************************************************************)
EXTENDS Naturals, FiniteSets

CONSTANTS Call,        \* invocations of Load
          URI,         \* the URIs they ask for
          Rejected,    \* those with a scheme the Loader does not take
          TTL,         \* the values of Loader.Cache, in ticks; 0 disables the cache
          MaxVersion,  \* bound: versions a document has
          MaxTime,     \* bound: ticks of the clock
          None

ASSUME RejectedAssumption == Rejected \subseteq URI
ASSUME NatAssumption == TTL \cup {MaxTime} \subseteq Nat /\ MaxVersion \in Nat \ {0}
ASSUME NoneAssumption == None \notin Call \cup URI

VARIABLES ttl,       \* Loader.Cache
          pc,        \* pc[c]: the statement call c is about to execute
          uri,       \* uri[c]: its argument
          entries,   \* Loader.entries: URI -> [by, version, expires]
          flight,    \* Loader.flight: URI -> the inflight record in the slot
          seen,      \* seen[c]: the entry c read under cacheMu.RLock
          joined,    \* joined[c]: the inflight record c waits on
          rec,       \* rec[c]: data or err of the record c allocated
          finished,  \* the records whose WaitGroup reached zero
          ret,       \* ret[c]: what c returns, or returned
          served,    \* served[u]: the version the server of u has now
          now,       \* the clock
          returned   \* history: returned[c], the calls that had returned when c began

callVars == <<pc, uri, seen, joined, ret>>
flightVars == <<flight, rec, finished>>
world == <<served, now, ttl>>
vars == <<callVars, flightVars, entries, returned, world>>

\* No entry; and what Load returns: data of some version, 0 for none, and an
\* error or "none".
Absent == [by |-> None, version |-> 0, expires |-> 0]
Data(version) == [data |-> version, err |-> "none"]
Err(kind) == [data |-> 0, err |-> kind]
Empty == Data(0)

Init ==
    /\ ttl \in TTL
    /\ pc = [c \in Call |-> "idle"]
    /\ uri = [c \in Call |-> None]
    /\ entries = [u \in URI |-> Absent]
    /\ flight = [u \in URI |-> None]
    /\ seen = [c \in Call |-> Absent]
    /\ joined = [c \in Call |-> None]
    /\ rec = [c \in Call |-> Empty]
    /\ finished = {}
    /\ ret = [c \in Call |-> Empty]
    /\ served = [u \in URI |-> 1]
    /\ now = 0
    /\ returned = [c \in Call |-> {}]

Goto(c, label) == pc' = [pc EXCEPT ![c] = label]
Returns(c, result) == ret' = [ret EXCEPT ![c] = result] /\ Goto(c, "returned")

-----------------------------------------------------------------------------
(* Load *)

LoadBegins(c, u) ==
    /\ pc[c] = "idle"
    /\ uri' = [uri EXCEPT ![c] = u]
    /\ returned' = [returned EXCEPT ![c] = {d \in Call : pc[d] = "returned"}]
    /\ Goto(c, "parse")
    /\ UNCHANGED <<seen, joined, ret, flightVars, entries, world>>

\* An unparsable URI, or a scheme this Loader leaves to the next in its chain.
Reject(c) ==
    /\ pc[c] = "parse"
    /\ uri[c] \in Rejected
    /\ Returns(c, Err("rejected"))
    /\ UNCHANGED <<uri, seen, joined, flightVars, entries, returned, world>>

NoCache(c) ==
    /\ pc[c] = "parse"
    /\ uri[c] \notin Rejected
    /\ ttl = 0
    /\ Goto(c, "claim")
    /\ UNCHANGED <<uri, seen, joined, ret, flightVars, entries, returned, world>>

-----------------------------------------------------------------------------
(* cacheGet *)

\* The entry is read under RLock and judged after RUnlock.
Lookup(c) ==
    /\ pc[c] = "parse"
    /\ uri[c] \notin Rejected
    /\ ttl > 0
    /\ seen' = [seen EXCEPT ![c] = entries[uri[c]]]
    /\ Goto(c, IF entries[uri[c]] = Absent THEN "claim" ELSE "judge")
    /\ UNCHANGED <<uri, joined, ret, flightVars, entries, returned, world>>

Hit(c) ==
    /\ pc[c] = "judge"
    /\ now <= seen[c].expires
    /\ Returns(c, Data(seen[c].version))
    /\ UNCHANGED <<uri, seen, joined, flightVars, entries, returned, world>>

Expired(c) ==
    /\ pc[c] = "judge"
    /\ now > seen[c].expires
    /\ Goto(c, "evict")
    /\ UNCHANGED <<uri, seen, joined, ret, flightVars, entries, returned, world>>

\* Mutant: whatever entry is there is deleted.
WrongEvict(c) ==
    /\ pc[c] = "evict"
    /\ entries' = [entries EXCEPT ![uri[c]] = Absent]
    /\ Goto(c, "claim")
    /\ UNCHANGED <<uri, seen, joined, ret, flightVars, returned, world>>

\* Under Lock, the entry is deleted if it is still the one that was judged.
Evict(c) ==
    /\ pc[c] = "evict"
    /\ entries' = IF entries[uri[c]] = seen[c] THEN [entries EXCEPT ![uri[c]] = Absent] ELSE entries
    /\ Goto(c, "claim")
    /\ UNCHANGED <<uri, seen, joined, ret, flightVars, returned, world>>

-----------------------------------------------------------------------------
(* The flight *)

\* Mutant: a Store where LoadOrStore is needed.
WrongClaim(c) ==
    /\ pc[c] = "claim"
    /\ flight' = [flight EXCEPT ![uri[c]] = c]
    /\ Goto(c, "fetch")
    /\ UNCHANGED <<uri, seen, joined, ret, rec, finished, entries, returned, world>>

Claim(c) ==
    /\ pc[c] = "claim"
    /\ flight[uri[c]] = None
    /\ flight' = [flight EXCEPT ![uri[c]] = c]
    /\ Goto(c, "fetch")
    /\ UNCHANGED <<uri, seen, joined, ret, rec, finished, entries, returned, world>>

Join(c) ==
    /\ pc[c] = "claim"
    /\ flight[uri[c]] # None
    /\ joined' = [joined EXCEPT ![c] = flight[uri[c]]]
    /\ Goto(c, "wait")
    /\ UNCHANGED <<uri, seen, ret, flightVars, entries, returned, world>>

WaitDone(c) ==
    /\ pc[c] = "wait"
    /\ joined[c] \in finished
    /\ Returns(c, rec[joined[c]])
    /\ UNCHANGED <<uri, seen, joined, flightVars, entries, returned, world>>

\* fetch succeeds: the body is the document as the server had it.
Fetch(c) ==
    /\ pc[c] = "fetch"
    /\ rec' = [rec EXCEPT ![c] = Data(served[uri[c]])]
    /\ ret' = [ret EXCEPT ![c] = Data(served[uri[c]])]
    /\ Goto(c, IF ttl > 0 THEN "put" ELSE "delete")
    /\ UNCHANGED <<uri, seen, joined, flight, finished, entries, returned, world>>

\* Mutant: the error is not left for the waiters.
ErrorNotLeft(c) ==
    /\ pc[c] = "fetch"
    /\ ret' = [ret EXCEPT ![c] = Err("failed")]
    /\ Goto(c, "delete")
    /\ UNCHANGED <<uri, seen, joined, flightVars, entries, returned, world>>

\* A time-out, a status, a redirect or a body that fetch refuses.
FetchFails(c) ==
    /\ pc[c] = "fetch"
    /\ rec' = [rec EXCEPT ![c] = Err("failed")]
    /\ ret' = [ret EXCEPT ![c] = Err("failed")]
    /\ Goto(c, "delete")
    /\ UNCHANGED <<uri, seen, joined, flight, finished, entries, returned, world>>

\* Mutant: the clean-up is not deferred, and a panic skips it.
WrongFetchPanics(c) ==
    /\ pc[c] = "fetch"
    /\ Returns(c, Err("panicked"))
    /\ UNCHANGED <<uri, seen, joined, flightVars, entries, returned, world>>

\* RequestDecorator or Client panics: only the deferred function still runs.
FetchPanics(c) ==
    /\ pc[c] = "fetch"
    /\ ret' = [ret EXCEPT ![c] = Err("panicked")]
    /\ Goto(c, "delete")
    /\ UNCHANGED <<uri, seen, joined, flightVars, entries, returned, world>>

\* cachePut: the entries that have expired go, for every URI.
Put(c) ==
    /\ pc[c] = "put"
    /\ entries' = [u \in URI |->
                     IF u = uri[c] THEN [by |-> c, version |-> rec[c].data, expires |-> now + ttl]
                     ELSE IF now > entries[u].expires THEN Absent ELSE entries[u]]
    /\ Goto(c, "delete")
    /\ UNCHANGED <<uri, seen, joined, ret, flightVars, returned, world>>

\* Mutant: the slot is never emptied.
WrongDelete(c) ==
    /\ pc[c] = "delete"
    /\ Goto(c, "done")
    /\ UNCHANGED <<uri, seen, joined, ret, flightVars, entries, returned, world>>

\* The deferred function: empty the slot, then wake the waiters.
Delete(c) ==
    /\ pc[c] = "delete"
    /\ flight' = [flight EXCEPT ![uri[c]] = None]
    /\ Goto(c, "done")
    /\ UNCHANGED <<uri, seen, joined, ret, rec, finished, entries, returned, world>>

Done(c) ==
    /\ pc[c] = "done"
    /\ finished' = finished \cup {c}
    /\ Goto(c, "returned")
    /\ UNCHANGED <<uri, seen, joined, ret, flight, rec, entries, returned, world>>

-----------------------------------------------------------------------------
(* The world around the Loader *)

\* The document at u changes.
Change(u) ==
    /\ served[u] < MaxVersion
    /\ served' = [served EXCEPT ![u] = @ + 1]
    /\ UNCHANGED <<callVars, flightVars, entries, returned, now, ttl>>

\* Only the cache reads the clock.
Tick ==
    /\ ttl > 0
    /\ now < MaxTime
    /\ now' = now + 1
    /\ UNCHANGED <<callVars, flightVars, entries, returned, served, ttl>>

Step(c) ==
    \/ Reject(c) \/ NoCache(c) \/ Lookup(c) \/ Hit(c) \/ Expired(c) \/ Evict(c)
    \/ Claim(c) \/ Join(c) \/ WaitDone(c)
    \/ Fetch(c) \/ FetchFails(c) \/ FetchPanics(c) \/ Put(c) \/ Delete(c) \/ Done(c)

Next ==
    \/ \E c \in Call : Step(c)
    \/ \E c \in Call, u \in URI : LoadBegins(c, u)
    \/ \E u \in URI : Change(u)
    \/ Tick

\* A goroutine that can run is scheduled, and fetch ends by its time-out.
Fairness == \A c \in Call : WF_vars(Step(c))

Spec == Init /\ [][Next]_vars /\ Fairness

-----------------------------------------------------------------------------
(* Properties *)

Labels == {"idle", "parse", "judge", "evict", "claim", "wait", "fetch", "put", "delete",
           "done", "returned"}
Versions == 1..MaxVersion
Outcomes == [data : 0..MaxVersion, err : {"none", "failed", "panicked", "rejected"}]
EntryType == [by : Call, version : Versions, expires : Nat] \cup {Absent}

TypeOK ==
    /\ ttl \in TTL
    /\ pc \in [Call -> Labels]
    /\ uri \in [Call -> URI \cup {None}]
    /\ entries \in [URI -> EntryType]
    /\ flight \in [URI -> Call \cup {None}]
    /\ seen \in [Call -> EntryType]
    /\ joined \in [Call -> Call \cup {None}]
    /\ rec \in [Call -> Outcomes]
    /\ finished \subseteq Call
    /\ ret \in [Call -> Outcomes]
    /\ served \in [URI -> Versions]
    /\ now \in 0..MaxTime
    /\ returned \in [Call -> SUBSET Call]

\* The slot of a URI admits one round-trip at a time, and the response is in
\* the cache before the slot is free again.
OneRoundTrip ==
    \A c, d \in Call :
        (/\ c # d /\ uri[c] = uri[d]
         /\ pc[c] \in {"fetch", "put"}) => pc[d] \notin {"fetch", "put"}

\* A call that begins after another has returned a document never returns an
\* older version of it, though entries are read, judged, evicted and replaced
\* in separate steps and a response may be cached long after it was served.
NeverBack ==
    \A c, d \in Call :
        (/\ d \in returned[c] /\ uri[d] = uri[c]
         /\ pc[c] = "returned" /\ ret[c].data # 0) =>
            ret[c].data >= ret[d].data

\* An error is not kept, and not lost: a waiter that returns one waited on a
\* call that had not returned when the waiter began, and an empty body without
\* an error is what it gets when the request it waited on panicked, and nobody else.
FailuresExpire ==
    \A c \in Call :
        (pc[c] = "returned" /\ ret[c].err = "failed") => joined[c] \notin returned[c]
EmptyOnlyAfterPanic ==
    \A c \in Call :
        (pc[c] = "returned" /\ ret[c] = Empty) =>
            joined[c] # None /\ ret[joined[c]].err = "panicked"
ErrorsShared == FailuresExpire /\ EmptyOnlyAfterPanic

\* A response leaves the cache only when it has expired or a later one takes
\* its place: a goroutine that found an older entry expired cannot remove it.
EvictsOnlyExpired ==
    [][\A u \in URI :
          (entries[u] # Absent /\ entries'[u] # entries[u]) =>
              now > entries[u].expires \/ entries'[u] # Absent]_entries

\* Every call returns, whatever became of the request it waits on.
EveryLoadReturns ==
    \A c \in Call : (pc[c] # "idle") ~> (pc[c] = "returned")

-----------------------------------------------------------------------------
(* The inductive invariant *)

Owning == {"fetch", "put", "delete"}

\* What call c has seen, left in its record and returns is no newer than version.
NoNewer(c, version) ==
    /\ seen[c].version <= version
    /\ rec[c].data <= version
    /\ ret[c].data <= version

\* The slot of a URI holds the record of exactly the call that works on it.
SlotInv ==
    /\ \A c \in Call : pc[c] = "idle" <=> uri[c] = None
    /\ \A c \in Call : pc[c] \in Owning => flight[uri[c]] = c
    /\ \A u \in URI : flight[u] # None =>
           uri[flight[u]] = u /\ pc[flight[u]] \in Owning
    /\ \A c \in finished : pc[c] = "returned" /\ joined[c] = None

\* What is left in a record, by whom and for whom.
WaitInv ==
    /\ \A c \in Call : pc[c] \notin {"put", "delete", "done", "returned"} =>
           rec[c] = Empty /\ ret[c] = Empty
    /\ \A c \in Call : pc[c] = "idle" => seen[c] = Absent
    /\ \A c \in Call : pc[c] \in {"judge", "evict"} => seen[c] # Absent
    /\ \A c \in Call : pc[c] = "put" => ret[c] = rec[c] /\ rec[c].data # 0 /\ ttl > 0
    /\ \A c \in Call : (pc[c] \in {"delete", "done"} \/ c \in finished) =>
           /\ ret[c] # Empty
           /\ ret[c] = rec[c] \/ (rec[c] = Empty /\ ret[c].err = "panicked")
    /\ \A c \in Call : (pc[c] = "returned" /\ joined[c] = None) => ret[c] # Empty
    /\ \A c \in Call : pc[c] = "wait" => joined[c] # None
    /\ \A c \in Call : joined[c] # None =>
           /\ pc[c] \in {"wait", "returned"}
           /\ joined[c] \notin returned[c]
           /\ uri[joined[c]] = uri[c]
           /\ pc[joined[c]] \in Owning \cup {"done", "returned"}
           /\ joined[joined[c]] = None
           /\ pc[c] = "returned" => joined[c] \in finished /\ ret[c] = rec[joined[c]]
    /\ \A c, d \in Call : d \in returned[c] => pc[d] = "returned"

\* Nothing is newer than the server; nothing is newer than what the holder of
\* the slot has fetched, or than the cached response once it is put.
AgeInv ==
    /\ \A u \in URI : entries[u].version <= served[u]
    /\ \A c \in Call : uri[c] # None => NoNewer(c, served[uri[c]])
    /\ \A c \in Call : (pc[c] \in {"put", "delete"} /\ rec[c].data # 0) =>
           /\ entries[uri[c]].version <= rec[c].data
           /\ \A d \in Call : uri[d] = uri[c] => NoNewer(d, rec[c].data)
    /\ \A c \in Call : uri[c] # None /\ entries[uri[c]] # Absent =>
           /\ seen[c].version <= entries[uri[c]].version
           /\ pc[c] # "put" => NoNewer(c, entries[uri[c]].version)
    /\ ttl = 0 => \A u \in URI : entries[u] = Absent

\* What a call is about to return is no older than what it could know of.
ReturnInv ==
    /\ \A c, d \in Call : (d \in returned[c] /\ uri[d] = uri[c]) =>
           /\ pc[c] = "judge" => ret[d].data <= seen[c].version
           /\ rec[c].data # 0 => ret[d].data <= rec[c].data
           /\ ret[c].data # 0 => ret[d].data <= ret[c].data
           /\ pc[c] = "wait" /\ rec[joined[c]].data # 0 => ret[d].data <= rec[joined[c]].data
    /\ \A c \in Call : pc[c] = "evict" => now > seen[c].expires

IInv == TypeOK /\ OneRoundTrip /\ SlotInv /\ WaitInv /\ AgeInv /\ ReturnInv
=============================================================================
