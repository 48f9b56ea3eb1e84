------------------------------ MODULE Campaign ------------------------------
(***************************************************************************)
(* A capture campaign: capture runs over one paper account, and            *)
(* scripts/flatten_ib_paper.py, which brings the account back to zero      *)
(* between them.  Flatten has a client id of its own, so it sees the       *)
(* positions of the account and none of the orders at work on it; it may   *)
(* be run again at once, and while a driver runs.                          *)
(***************************************************************************)
EXTENDS CaptureRun

CONSTANT MaxFlattens      \* bound: runs of flatten

ASSUME FlattenAssumption == MaxFlattens \in Nat /\ IsInjective(Tradables)

VARIABLES
  flatten,    \* where it is, the positions it saw, its orders and which of them filled
  flattens,   \* times it was started
  alone,      \* history: no other order has been at work on the account since it connected
  clean       \* history: the run started on a flat account, and flatten placed nothing since

flattenVars == <<flatten, flattens, alone, clean>>
campaignVars == <<refreshVars, captureVars, flattenVars>>

CampaignInit(started) ==
  /\ flatten = [pc |-> "idle", seen |-> Flat, orders |-> {}, filled |-> {}]
  /\ flattens = started /\ alone = FALSE /\ clean = FALSE
-----------------------------------------------------------------------------
StartFlatten(pc, seen, others) ==
  /\ flatten.pc = "idle" /\ flattens < MaxFlattens
  /\ flatten' = [pc |-> pc, seen |-> seen, orders |-> {}, filled |-> {}]
  /\ flattens' = flattens + 1
  /\ alone' = others
  /\ UNCHANGED <<clean, captureVars>>

(* No usable credentials, or no connection (2, 3).                         *)
FlattenRefused == StartFlatten("idle", Flat, FALSE)

(* connect reads the positions.                                            *)
FlattenConnects == StartFlatten("connected", position, working = {})

InScope == {s \in Symbols : flatten.seen[s] # 0}

(* Nothing to flatten, or --dry-run.                                       *)
FlattenReports ==
  /\ flatten.pc = "connected"
  /\ flatten' = [flatten EXCEPT !.pc = "idle"]
  /\ alone' = FALSE
  /\ UNCHANGED <<flattens, clean, captureVars>>

(* mutant: the action is taken from the sign of the position.              *)
SameSide(s) == flatten.seen[s]

Opposite(s) == -flatten.seen[s]

(* A market order for each position in scope; the loop does not await.     *)
FlattenSubmits ==
  /\ flatten.pc = "connected" /\ InScope # {}
  /\ placed + Len(Tradables) <= MaxPlaced
  /\ LET orders == {[id |-> placed + i, sym |-> Tradables[i],
                     qty |-> Opposite(Tradables[i]), by |-> "flatten"] :
                      i \in {i \in DOMAIN Tradables : Tradables[i] \in InScope}}
     IN  /\ working' = working \cup orders
         /\ flatten' = [flatten EXCEPT !.pc = "settling", !.orders = orders]
  /\ placed' = placed + Len(Tradables)
  /\ clean' = FALSE
  /\ UNCHANGED <<flattens, alone, runVars, position>>

(* --settle-seconds pass, whatever has filled; exit 0 either way, and the  *)
(* orders stay at the venue.                                               *)
FlattenEnds ==
  /\ flatten.pc = "settling"
  /\ flatten' = [flatten EXCEPT !.pc = "idle"]
  /\ UNCHANGED <<flattens, alone, clean, captureVars>>

FlattenNext ==
  \/ FlattenRefused \/ FlattenConnects \/ FlattenReports \/ FlattenSubmits \/ FlattenEnds

(* Its client, while connected, hears of its fills.                        *)
Hears(o) ==
  flatten' = IF flatten.pc = "settling" /\ o \in flatten.orders
               THEN [flatten EXCEPT !.filled = @ \cup {o}] ELSE flatten

VenueStep ==
  /\ \E o \in working :
       \/ VenueFills(o) /\ Hears(o)
       \/ VenueDrops(o) /\ UNCHANGED flatten
  /\ UNCHANGED <<flattens, alone, clean>>

CaptureStep ==
  /\ CaptureNext
  /\ alone' = (alone /\ working' \subseteq flatten.orders)
  /\ clean' = IF runs' # runs THEN position = Flat /\ working = {} ELSE clean
  /\ UNCHANGED <<flatten, flattens>>

CampaignNext ==
  \/ RefreshNext /\ UNCHANGED <<captureVars, flattenVars>>
  \/ (CaptureStep \/ VenueStep \/ FlattenNext) /\ UNCHANGED refreshVars

CampaignSpec ==
  /\ RefreshInit /\ CaptureInit(0, 0) /\ CampaignInit(0)
  /\ [][CampaignNext]_campaignVars
-----------------------------------------------------------------------------
(* After a flatten whose orders have all filled the account holds nothing, *)
(* unless other orders were at work when it connected or came since.       *)
SettledFlattenIsFlat ==
  alone /\ flatten.orders # {} /\ flatten.filled = flatten.orders => position = Flat

(* A run that starts from a flat account, with nothing at work on it, and  *)
(* gives no order up, trades on a view that is what the account holds.     *)
CleanStartTracksVenue ==
  clean /\ ~run.lost /\ run.pc \in {"trading", "ending"} => view = position

(* Flatten's orders at work never exceed the position they flatten.        *)
SweepCovered ==
  \A s \in Symbols :
    LET sold == MapThenSumSet(LAMBDA o : o.qty,
                              {o \in working : o.by = "flatten" /\ o.sym = s}) IN
    \/ sold = 0
    \/ sold < 0 /\ position[s] + sold >= 0
    \/ sold > 0 /\ position[s] + sold <= 0
=============================================================================
