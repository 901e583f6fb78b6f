--------------------------- MODULE SecurityManager ---------------------------
(***************************************************************************)
(* FetchAll of the security manager (src/internal/security/manager.go):    *)
(* the list, the preview and the badges ask for the findings of a context  *)
(* and namespace at about the same time, and one scan serves them all.     *)
(*                                                                         *)
(* Goroutines: one per call of FetchAll, on a worker of the scheduler that *)
(* may cancel it, and one per scan, which belongs to none of the calls.    *)
(* The group of flights is golang.org/x/sync/singleflight, as FetchAll     *)
(* uses it.  What a scan finds, and which of its sources failed, is left   *)
(* out: a result is known by the key it was scanned for.  AnyAvailable,    *)
(* Refresh and Index have no caller in the program.                        *)
(***************************************************************************)
EXTENDS Naturals

CONSTANTS
    Keys,     \* context and namespace
    Calls,    \* the calls of FetchAll in a behaviour
    NoKey     \* the empty cacheKey, and the lack of a result

ASSUME SecurityAssumption == NoKey \notin Keys

VARIABLES
    cache,     \* [key, fresh]: cacheKey, and whether its result is within its TTL
    flight,    \* key -> [pc, found]: the call of the group
    call,      \* call -> [pc, key, got]
    gone       \* calls whose own context is done

securityVars == <<cache, flight, call, gone>>

SecurityTypeOK ==
    /\ cache \in [key : Keys \cup {NoKey}, fresh : BOOLEAN]
    /\ flight \in [Keys -> [pc : {"none", "recheck", "scan", "deliver"},
                            found : Keys \cup {NoKey}]]
    /\ call \in [Calls -> [pc : {"idle", "lookup", "join", "wait", "answered", "returned"},
                           key : Keys \cup {NoKey}, got : Keys \cup {NoKey}]]
    /\ gone \subseteq Calls

NoFlight == [pc |-> "none", found |-> NoKey]

SecurityInit ==
    /\ cache = [key |-> NoKey, fresh |-> FALSE]
    /\ flight = [k \in Keys |-> NoFlight]
    /\ call = [c \in Calls |-> [pc |-> "idle", key |-> NoKey, got |-> NoKey]]
    /\ gone = {}

\* cachedFetch.
IsCached(k) == cache.key = k /\ cache.fresh

-----------------------------------------------------------------------------
FetchAll(c, k) ==
    /\ call[c].pc = "idle"
    /\ call' = [call EXCEPT ![c] = [pc |-> "lookup", key |-> k, got |-> NoKey]]
    /\ UNCHANGED <<cache, flight, gone>>

\* The first look at the cache.
Lookup(c) ==
    /\ call[c].pc = "lookup"
    /\ call' = [call EXCEPT ![c] =
         IF IsCached(@.key) THEN [@ EXCEPT !.pc = "returned", !.got = cache.key]
         ELSE [@ EXCEPT !.pc = "join"]]
    /\ UNCHANGED <<cache, flight, gone>>

\* DoChan: a flight of its key is joined, whatever it is at, or begun.
Join(c) ==
    /\ call[c].pc = "join"
    /\ call' = [call EXCEPT ![c].pc = "wait"]
    /\ flight' = IF flight[call[c].key].pc # "none" THEN flight
                 ELSE [flight EXCEPT ![call[c].key] =
                         [pc |-> "recheck", found |-> NoKey]]
    /\ UNCHANGED <<cache, gone>>

\* The flight's second look at the cache.
Recheck(k) ==
    /\ flight[k].pc = "recheck"
    /\ flight' = [flight EXCEPT ![k] =
         IF IsCached(k) THEN [@ EXCEPT !.pc = "deliver", !.found = cache.key]
         ELSE [@ EXCEPT !.pc = "scan"]]
    /\ UNCHANGED <<cache, call, gone>>

\* fetchAllScan ends: a result is always cached, a failed scan's for a shorter
\* time, and it takes the place of the result of any other key.
EndScan_withItsCallers(k) ==
    /\ flight[k].pc = "scan"
    /\ flight' = [flight EXCEPT ![k].pc = "deliver", ![k].found =
         IF \E c \in gone : call[c].pc = "wait" /\ call[c].key = k THEN NoKey ELSE k]
    /\ cache' = [key |-> k, fresh |-> TRUE]
    /\ UNCHANGED <<call, gone>>
EndScan(k) ==
    /\ flight[k].pc = "scan"
    /\ flight' = [flight EXCEPT ![k].pc = "deliver", ![k].found = k]
    /\ cache' = [key |-> k, fresh |-> TRUE]
    /\ UNCHANGED <<call, gone>>

\* The group forgets the flight and sends to the channel of each that joined.
Deliver(k) ==
    /\ flight[k].pc = "deliver"
    /\ call' = [c \in Calls |->
         IF call[c].pc = "wait" /\ call[c].key = k
         THEN [call[c] EXCEPT !.pc = "answered", !.got = flight[k].found]
         ELSE call[c]]
    /\ flight' = [flight EXCEPT ![k] = NoFlight]
    /\ UNCHANGED <<cache, gone>>

\* The caller is preempted, cancelled or out of time.
EndContext(c) ==
    /\ call[c].pc \notin {"idle", "returned"}
    /\ gone' = gone \cup {c}
    /\ UNCHANGED <<cache, flight, call>>

\* The select at the end: either case, when both are ready.
ReturnResult(c) ==
    /\ call[c].pc = "answered"
    /\ call' = [call EXCEPT ![c].pc = "returned"]
    /\ UNCHANGED <<cache, flight, gone>>

ReturnEmpty(c) ==
    /\ call[c].pc \in {"wait", "answered"} /\ c \in gone
    /\ call' = [call EXCEPT ![c].pc = "returned", ![c].got = NoKey]
    /\ UNCHANGED <<cache, flight, gone>>

\* The message or the list was made of it: the worker is free.
CallAgain(c) ==
    /\ call[c].pc = "returned"
    /\ call' = [call EXCEPT ![c] = [pc |-> "idle", key |-> NoKey, got |-> NoKey]]
    /\ gone' = gone \ {c}
    /\ UNCHANGED <<cache, flight>>

Expire ==
    /\ cache.fresh
    /\ cache' = [cache EXCEPT !.fresh = FALSE]
    /\ UNCHANGED <<flight, call, gone>>

\* The user's r, or Refresh in a finding's menu.
Invalidate ==
    /\ cache.key # NoKey
    /\ cache' = [cache EXCEPT !.key = NoKey]
    /\ UNCHANGED <<flight, call, gone>>

-----------------------------------------------------------------------------
SecurityNext ==
    \/ \E c \in Calls : \/ \E k \in Keys : FetchAll(c, k)
                        \/ Lookup(c) \/ Join(c) \/ EndContext(c)
                        \/ ReturnResult(c) \/ ReturnEmpty(c) \/ CallAgain(c)
    \/ \E k \in Keys : Recheck(k) \/ EndScan(k) \/ Deliver(k)
    \/ Expire \/ Invalidate

SecuritySpec == SecurityInit /\ [][SecurityNext]_securityVars

-----------------------------------------------------------------------------
\* A call that returns findings returns those of the context and namespace it
\* asked for; it returns none only when its own context was done, whatever
\* becomes of the call that began the scan it waits for.
FindingsAsAsked ==
    \A c \in Calls : call[c].pc = "returned" =>
        call[c].got = call[c].key \/ (call[c].got = NoKey /\ c \in gone)

\* No scan begins while the findings of its key are cached and fresh.
NoNeedlessScan ==
    [][\A k \in Keys : flight[k].pc # "scan" /\ flight'[k].pc = "scan" =>
          ~(cache.key = k /\ cache.fresh)]_securityVars
=============================================================================
