------------------------------ MODULE Lookups ------------------------------
(***************************************************************************)
(* The three caches of what a venue says of an instrument: the conId of    *)
(* ib/instrument_resolver.py, the price increments of ib/price_rules.py    *)
(* and the epic and metadata of ig/instrument_resolver.py.  Each is filled *)
(* by the coroutine that misses, after its requests are answered, and      *)
(* cleared when a corporate action has changed what the venue says; a      *)
(* clear may come while a coroutine awaits.                                *)
(*                                                                         *)
(* What the venue says is the number of the action it follows.             *)
(***************************************************************************)
EXTENDS Naturals

CONSTANTS
  Resolvers, LookedUp,   \* coroutines, instruments
  MaxTruth               \* bound: what the venue says last

VARIABLES
  service,    \* whose cache: "conid", "grid" or "market"
  truth,      \* what the venue says now
  known,      \* instruments in _conid_cache, _cache or _epic_cache
  kept,       \* what is cached, by key; 0 for nothing
  lookup,     \* what each coroutine awaits
  cleared,    \* history: what the venue said when an instrument was last cleared
  overlapped  \* history: and whether a lookup had an answer already

lookupVars == <<service, truth, known, kept, lookup, cleared, overlapped>>

(* Instruments that differ in tradability alone have one epic.             *)
Key(i) == IF service = "market" THEN "epic" ELSE i

Keys == LookedUp \cup {"epic"}

NoCall == [at |-> "idle", answered |-> FALSE, inst |-> CHOOSE i \in LookedUp : TRUE, got |-> 0]

LookupsInit ==
  /\ service \in {"conid", "grid", "market"}
  /\ truth = 1
  /\ known = {} /\ kept = [k \in Keys |-> 0]
  /\ lookup = [c \in Resolvers |-> NoCall]
  /\ cleared = [i \in LookedUp |-> 0] /\ overlapped = {}

CorporateAction ==
  /\ truth < MaxTruth
  /\ truth' = truth + 1
  /\ UNCHANGED <<service, known, kept, lookup, cleared, overlapped>>

cacheVars == <<service, truth, known, kept, cleared, overlapped>>
-----------------------------------------------------------------------------
Asks(c, at, i, got) ==
  lookup' = [lookup EXCEPT ![c] = [at |-> at, answered |-> FALSE, inst |-> i, got |-> got]]

First == [conid |-> "qualify", grid |-> "details", market |-> "guess"]

(* A miss: the instrument maps to a contract, or to an epic.               *)
Miss(c, i) ==
  /\ lookup[c].at = "idle" /\ i \notin known
  /\ Asks(c, First[service], i, 0)
  /\ UNCHANGED cacheVars

(* market_metadata of an epic that is known, its metadata gone.            *)
MissMetadata(c, i) ==
  /\ service = "market" /\ lookup[c].at = "idle"
  /\ i \in known /\ kept[Key(i)] = 0
  /\ Asks(c, "refetch", i, 0)
  /\ UNCHANGED cacheVars

(* The venue answers; the coroutine is not resumed yet.                    *)
Answer(c) ==
  /\ lookup[c].at # "idle" /\ ~lookup[c].answered
  /\ lookup' = [lookup EXCEPT ![c].answered = TRUE,
                          ![c].got = IF @ = 0 /\ lookup[c].at # "search" THEN truth ELSE @]
  /\ UNCHANGED cacheVars

Resumed(c, at) == lookup[c].at = at /\ lookup[c].answered

(* No candidate, several, a malformed answer, no usable increment.         *)
Raises(c) ==
  /\ lookup[c].answered
  /\ lookup' = [lookup EXCEPT ![c] = NoCall]
  /\ UNCHANGED cacheVars

(* The rule that governs, of the details; the search, when the guess is    *)
(* no instrument; the metadata of what the search found.                   *)
AsksMore(c) ==
  /\ \/ Resumed(c, "details") /\ Asks(c, "rule", lookup[c].inst, lookup[c].got)
     \/ Resumed(c, "guess") /\ Asks(c, "search", lookup[c].inst, 0)
     \/ Resumed(c, "search") /\ Asks(c, "fetch", lookup[c].inst, 0)
  /\ UNCHANGED cacheVars

(* The last answer is stored; a market rule that failed or is empty leaves *)
(* the minTick of the details.                                             *)
Stores(c) ==
  /\ \E at \in {"qualify", "details", "rule", "guess", "fetch"} : Resumed(c, at)
  /\ known' = known \cup {lookup[c].inst}
  /\ kept' = [kept EXCEPT ![Key(lookup[c].inst)] = lookup[c].got]
  /\ lookup' = [lookup EXCEPT ![c] = NoCall]
  /\ UNCHANGED <<service, truth, cleared, overlapped>>

StoresMetadata(c) ==
  /\ Resumed(c, "refetch")
  /\ kept' = [kept EXCEPT ![Key(lookup[c].inst)] = lookup[c].got]
  /\ lookup' = [lookup EXCEPT ![c] = NoCall]
  /\ UNCHANGED <<service, truth, known, cleared, overlapped>>
-----------------------------------------------------------------------------
(* History: which instruments were cleared under a lookup.                 *)
Overlaps(i) == \E c \in Resolvers : lookup[c].got # 0 /\ Key(lookup[c].inst) = Key(i)

Clears(gone) ==
  /\ cleared' = [i \in LookedUp |-> IF i \in gone THEN truth ELSE cleared[i]]
  /\ overlapped' = (overlapped \ gone) \cup {i \in gone : Overlaps(i)}
  /\ UNCHANGED <<service, truth, lookup>>

(* mutant: the entry stays.                                                *)
NoneForgotten(i) == UNCHANGED <<known, kept>>

Forgotten(i) ==
  /\ known' = known \ {i}
  /\ kept' = IF i \in known THEN [kept EXCEPT ![Key(i)] = 0] ELSE kept

(* clear_cache, of an instrument or of all.                                *)
ClearOne(i) == Forgotten(i) /\ Clears({i})

ClearAll ==
  /\ known' = {} /\ kept' = [k \in Keys |-> 0]
  /\ Clears(LookedUp)

LookupsNext ==
  \/ CorporateAction
  \/ \E c \in Resolvers :
       \/ \E i \in LookedUp : Miss(c, i) \/ MissMetadata(c, i)
       \/ Answer(c) \/ Raises(c) \/ AsksMore(c) \/ Stores(c) \/ StoresMetadata(c)
  \/ \E i \in LookedUp : ClearOne(i)
  \/ ClearAll

LookupsSpec == LookupsInit /\ [][LookupsNext]_lookupVars
-----------------------------------------------------------------------------
(* What is cached of an instrument is no older than its last clear, unless *)
(* a lookup that had its answer already was being resumed at that moment.  *)
ClearedMeansFresh ==
  \A i \in known \ overlapped : kept[Key(i)] # 0 => kept[Key(i)] >= cleared[i]
=============================================================================
