------------------------------ MODULE Icv6Search -----------------------------
(***************************************************************************)
(* The search of an ICV6 hub for its devices (icv6_api.py, _sync_discover).*)
(* The bus behind the hub sleeps and takes some primes to wake up; before  *)
(* that a query finds nothing.  Each prime and each query has a connection *)
(* of its own, which may fail.                                             *)
(***************************************************************************)
EXTENDS Naturals

CONSTANTS
    PrimesNeeded,  \* how many primes it may take to wake the bus
    MaxFailures    \* bound: connections that fail in one search

ASSUME SearchAssumption == PrimesNeeded \subseteq Nat /\ MaxFailures \in Nat

Areas    == 1..4
Burst    == 4                            \* primes before the first query
Attempts == 12

VARIABLES
    step,          \* of the worker thread
    tries,         \* attempts made in this step; in "area" the area
    primes,        \* primes the hub has received
    needed,
    occupied,      \* areas with devices
    found,         \* areas whose devices are in all_devices
    missed,        \* areas that were asked in vain
    failures

searchVars == <<step, tries, primes, needed, occupied, found, missed, failures>>

SearchInit ==
    /\ step = "burst" /\ tries = 0
    /\ primes = 0 /\ needed \in PrimesNeeded
    /\ occupied \in SUBSET Areas
    /\ found = {} /\ missed = {} /\ failures = 0

Goes(to, n) == step' = to /\ tries' = n
Listed(area) == IF primes >= needed THEN {area} \intersect occupied ELSE {}

(* A connection that is refused or breaks, or an answer that is late: what *)
(* came 0.5 s after the wait is not read.                                  *)
Fails == failures < MaxFailures /\ failures' = failures + 1

(* Phase 1.  A prime that fails is not made again.                         *)
BurstPrimes ==
    /\ step = "burst"
    /\ \/ primes' = primes + 1 /\ UNCHANGED failures
       \/ Fails /\ UNCHANGED primes
    /\ IF tries + 1 < Burst THEN Goes("burst", tries + 1) ELSE Goes("prime", 0)
    /\ UNCHANGED <<needed, occupied, found, missed>>

(* Phase 2: prime, query area 1, and again.                                *)
GivesUp   == Goes("done", 0)             \* faulty: an error ends the search
TriesNext == IF tries + 1 < Attempts THEN Goes("prime", tries + 1) ELSE Goes("done", 0)
Excepted  == TriesNext

Primes ==
    /\ step = "prime"
    /\ \/ primes' = primes + 1 /\ Goes("query", tries) /\ UNCHANGED failures
       \/ Fails /\ Excepted /\ UNCHANGED primes
    /\ UNCHANGED <<needed, occupied, found, missed>>

Queries ==
    /\ step = "query"
    /\ \/ /\ found' = Listed(1)
          /\ IF found' = {} THEN TriesNext ELSE Goes("area", 2)
          /\ UNCHANGED failures
       \/ Fails /\ Excepted /\ UNCHANGED found
    /\ UNCHANGED <<primes, needed, occupied, missed>>

(* The bus is awake: the other areas, each once.                           *)
AsksArea ==
    /\ step = "area"
    /\ \/ found' = found \union Listed(tries) /\ UNCHANGED <<missed, failures>>
       \/ Fails /\ missed' = missed \union {tries} /\ UNCHANGED found
    /\ IF tries < 4 THEN Goes("area", tries + 1) ELSE Goes("done", 0)
    /\ UNCHANGED <<primes, needed, occupied>>

SearchNext == BurstPrimes \/ Primes \/ Queries \/ AsksArea

SearchSpec == SearchInit /\ [][SearchNext]_searchVars
-----------------------------------------------------------------------------
(* A bus that sleeps is woken and its devices are found, also when         *)
(* connections fail on the way: as long as there is a device in area 1,    *)
(* not all attempts fail and the primes it takes and the failures together *)
(* are no more than the 16 primes of a search ("from a completely cold     *)
(* start this can require 10+ primes", _sync_discover), only areas whose   *)
(* own query failed are left out.                                          *)
Searchable == 1 \in occupied /\ failures < Attempts /\ needed + failures <= Burst + Attempts

ColdBusIsFound == step = "done" /\ Searchable => found = occupied \ missed

(* Why: an attempt that found nothing has failed, or had too few primes,   *)
(* and a prime that is not made has failed.                                *)
Fruitless == failures >= tries \/ needed + failures > Burst + tries

SearchInv ==
    /\ tries \in Nat /\ primes \in Nat /\ needed \in Nat /\ failures \in Nat
    /\ occupied \subseteq Areas /\ found \subseteq Areas /\ missed \subseteq Areas
    /\ step \in {"burst", "prime", "query", "area", "done"}
    /\ step = "burst" => tries < Burst /\ primes + failures >= tries
    /\ step = "prime" => tries < Attempts /\ primes + failures >= Burst + tries
    /\ step = "query" => tries < Attempts /\ primes + failures >= Burst + tries + 1
    /\ step \in {"burst", "prime", "query"} => found = {} /\ missed = {}
    /\ step \in {"prime", "query"} /\ 1 \in occupied => Fruitless
    /\ step = "area" =>
          /\ tries \in 2..4 /\ primes >= needed
          /\ found = {a \in occupied : a < tries} \ missed
          /\ \A a \in missed : a < tries
    /\ ColdBusIsFound
==============================================================================
