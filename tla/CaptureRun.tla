----------------------------- MODULE CaptureRun -----------------------------
(***************************************************************************)
(* scripts/run_m2ib6_ib_paper.py: one capture run over the files the       *)
(* refresh scripts write, whenever they write them, and over the paper     *)
(* account, which outlives the run.  The run reads the bars and the        *)
(* signals, keeps the last Cap bars, connects, drives the pipeline from a  *)
(* view of the positions that starts empty, appends a row to the record    *)
(* and disconnects.                                                        *)
(*                                                                         *)
(* The pipeline (IBPipeline) is its outline: one order at a time, its fill *)
(* booked in the view or, after the deadlines, ignored.                    *)
(***************************************************************************)
EXTENDS DataRefresh, Integers, FiniteSets, FiniteSetsExt

CONSTANTS
  Tradables,      \* symbols traded, the canonical one first
  Cap,            \* --max-bars, 0 for all
  Targets,        \* quantities the weights may ask for
  MaxRuns,        \* bound: capture runs
  MaxPlaced       \* bound: orders placed

ASSUME CaptureAssumption ==
  /\ Tradables \in Seq(ToSet(Tickers)) /\ Tradables # <<>>
  /\ Cap \in Nat /\ Targets \subseteq Int /\ MaxRuns \in Nat /\ MaxPlaced \in Nat

VARIABLES
  run,        \* where the driver is, its arguments, what it has done
  input,      \* files read by the run, as they were then
  view,       \* positions of run_ib_multi_pipeline
  runs, rows, \* runs started; rows of runs.jsonl, by run
  position,   \* of the account
  working,    \* orders at the venue
  placed      \* orders placed so far, their ids

runVars == <<run, input, view, runs, rows>>
venueVars == <<position, working, placed>>
captureVars == <<runVars, venueVars>>

Symbols == ToSet(Tradables)
Canonical == Head(Tradables)
ReadOrder == Append(Tradables, Signals)

Flat == [s \in Symbols |-> 0]

NoOrder == [id |-> 0, sym |-> Canonical, qty |-> 0, by |-> "nobody"]

(* What run keeps: left is the instruments of the row or the steps after   *)
(* the pipeline; quiet, stale, lost and unwritten are history.             *)
NewRun(dry, records) ==
  [pc |-> "reading", dry |-> dry, records |-> records, quiet |-> TRUE, day |-> 0,
   left |-> <<>>, order |-> NoOrder, fate |-> "none", sent |-> FALSE, traded |-> FALSE,
   connected |-> FALSE, stale |-> FALSE, lost |-> FALSE, unwritten |-> FALSE,
   exit |-> Running]

CaptureInit(started, sent) ==
  /\ run = [NewRun(FALSE, FALSE) EXCEPT !.pc = "idle", !.exit = 2]
  /\ input = <<>> /\ view = Flat
  /\ runs = started /\ rows = {}
  /\ position = Flat /\ working = {} /\ placed = sent
-----------------------------------------------------------------------------
(* Bars kept of a file, by the last days of the canonical one; the days    *)
(* replayed, those of them the signals know.                               *)
LastDay == input[1].gen

Window == {d \in 1..LastDay : Cap = 0 \/ d > LastDay - Cap}

SignalDays == {d \in Window : d <= input[Len(ReadOrder)].gen}

KeptBars(i) == {d \in Window : d <= input[i].gen}

Replayed == {d \in SignalDays : \A i \in 1..Len(Tradables) : \E b \in KeptBars(i) : b <= d}

Stale(d) == \E i \in 1..Len(Tradables) : input[i].gen < d
-----------------------------------------------------------------------------
Ends(code) == run' = [run EXCEPT !.pc = "idle", !.exit = code, !.connected = FALSE]

Elsewhere == UNCHANGED <<input, view, runs, rows, venueVars>>

(* Every file must be there, whatever it holds.                            *)
StartRun ==
  /\ run.pc = "idle" /\ runs < MaxRuns
  /\ \E dry, records \in BOOLEAN :
       run' = IF \E f \in ToSet(ReadOrder) : files[f] = Missing
                THEN [NewRun(dry, records) EXCEPT !.pc = "idle", !.exit = 2]
                ELSE NewRun(dry, records)
  /\ runs' = runs + 1
  /\ input' = <<>> /\ view' = Flat
  /\ UNCHANGED <<rows, venueVars>>

NextFile == files[ReadOrder[Len(input) + 1]]

(* PaperMarketData of the tradables, then the signals.                     *)
Read ==
  /\ run.pc = "reading" /\ Len(input) < Len(ReadOrder)
  /\ NextFile.whole
  /\ input' = Append(input, NextFile)
  /\ run' = [run EXCEPT !.quiet = @ /\ trusted /\ refresh.pc # "writing"]
  /\ UNCHANGED <<view, runs, rows, venueVars>>

(* A torn file, or a bar that Bar refuses, raises out of the driver.       *)
ReadRaises ==
  /\ run.pc = "reading" /\ Len(input) < Len(ReadOrder)
  /\ Ends(1) /\ Elsewhere

NothingToReplay ==
  /\ run.pc = "reading" /\ Len(input) = Len(ReadOrder)
  /\ SignalDays = {}
  /\ Ends(5) /\ Elsewhere

Preview ==
  /\ run.pc = "reading" /\ Len(input) = Len(ReadOrder)
  /\ SignalDays # {} /\ run.dry
  /\ Ends(0) /\ Elsewhere

(* Credentials, then connect.                                              *)
NotConnected ==
  /\ run.pc = "reading" /\ Len(input) = Len(ReadOrder)
  /\ SignalDays # {} /\ ~run.dry
  /\ \E code \in {2, 3} : Ends(code)
  /\ Elsewhere

ConnectRun ==
  /\ run.pc = "reading" /\ Len(input) = Len(ReadOrder)
  /\ SignalDays # {} /\ ~run.dry
  /\ run' = [run EXCEPT !.pc = "trimming", !.connected = TRUE]
  /\ Elsewhere

(* The kept bars of an instrument are written and read again; without one  *)
(* the copy has no columns.  Raised here, nothing disconnects.             *)
NoBarsKept == LastDay > Cap /\ Cap > 0 /\ \E i \in 1..Len(Tradables) : KeptBars(i) = {}

Trim ==
  /\ run.pc = "trimming" /\ ~NoBarsKept
  /\ run' = [run EXCEPT !.pc = "trading"]
  /\ Elsewhere

TrimRaises ==
  /\ run.pc = "trimming" /\ Cap > 0 /\ LastDay > Cap
  /\ Ends(1) /\ Elsewhere
-----------------------------------------------------------------------------
(* run_ib_multi_pipeline.                                                  *)
StartRow ==
  /\ run.pc = "trading" /\ run.left = <<>>
  /\ \E d \in Replayed :
       /\ d > run.day /\ \A e \in Replayed : e > run.day => e >= d
       /\ run' = [run EXCEPT !.day = d, !.left = Tradables, !.stale = @ \/ Stale(d)]
  /\ Elsewhere

NothingToOrder ==
  /\ run.pc = "trading" /\ run.left # <<>>
  /\ run' = [run EXCEPT !.left = Tail(@)]
  /\ Elsewhere

(* The candidate of the next instrument, approved and submitted.           *)
PlaceOrder ==
  /\ run.pc = "trading" /\ run.left # <<>> /\ placed < MaxPlaced
  /\ \E target \in Targets :
       LET s == Head(run.left)
           o == [id |-> placed + 1, sym |-> s, qty |-> target - view[s], by |-> "run"]
       IN  /\ o.qty # 0
           /\ working' = working \cup {o}
           /\ run' = [run EXCEPT !.pc = "waiting", !.order = o, !.fate = "working",
                                 !.sent = TRUE, !.left = Tail(@)]
  /\ placed' = placed + 1
  /\ UNCHANGED <<input, view, runs, rows, position>>

BackToTrading == [run EXCEPT !.pc = "trading", !.order = NoOrder, !.fate = "none"]

(* mutant: the view is left alone.                                         *)
NothingBooked == view

Booked == IF run.fate = "filled" THEN [view EXCEPT ![run.order.sym] = @ + run.order.qty] ELSE view

(* A terminal event within the deadline.                                   *)
Settle ==
  /\ run.pc = "waiting" /\ run.fate # "working"
  /\ view' = Booked
  /\ run' = BackToTrading
  /\ UNCHANGED <<input, runs, rows, venueVars>>

(* Both deadlines pass, or the second drain ends with a fill it ignores.   *)
GiveUp ==
  /\ run.pc = "waiting"
  /\ run' = [BackToTrading EXCEPT !.lost = TRUE]
  /\ Elsewhere

(* The driver's handler disconnects and ignores how that ends.             *)
PipelineRaises ==
  /\ run.pc \in {"trading", "waiting"}
  /\ Ends(5) /\ Elsewhere

(* mutant: the row is appended after disconnect.                           *)
CloseFirst == <<"disconnect", "append">>

Epilogue == <<"append", "disconnect">>

PipelineReturns ==
  /\ run.pc = "trading" /\ run.left = <<>>
  /\ \A d \in Replayed : d <= run.day
  /\ run' = [run EXCEPT !.pc = "ending", !.left = Epilogue, !.traded = TRUE]
  /\ Elsewhere

At(step) == run.pc = "ending" /\ run.left # <<>> /\ Head(run.left) = step

AppendRow ==
  /\ At("append")
  /\ rows' = IF run.records THEN rows \cup {runs} ELSE rows
  /\ run' = [run EXCEPT !.left = Tail(@)]
  /\ UNCHANGED <<input, view, runs, venueVars>>

AppendRaises ==
  /\ At("append") /\ run.records
  /\ run' = [run EXCEPT !.pc = "idle", !.exit = 1, !.unwritten = TRUE]
  /\ Elsewhere

Disconnect ==
  /\ At("disconnect")
  /\ run' = [run EXCEPT !.left = Tail(@), !.connected = FALSE]
  /\ Elsewhere

DisconnectRaises ==
  /\ At("disconnect")
  /\ run' = [run EXCEPT !.pc = "idle", !.exit = 1]
  /\ Elsewhere

Return ==
  /\ run.pc = "ending" /\ run.left = <<>>
  /\ run' = [run EXCEPT !.pc = "idle", !.exit = 0]
  /\ Elsewhere

KillRun ==
  /\ run.pc # "idle"
  /\ Ends(Killed) /\ Elsewhere
-----------------------------------------------------------------------------
(* The venue, with orders of whoever placed them.                          *)
Told(o, fate) == IF run.order = o THEN [run EXCEPT !.fate = fate] ELSE run

VenueFills(o) ==
  /\ position' = [position EXCEPT ![o.sym] = @ + o.qty]
  /\ working' = working \ {o}
  /\ run' = Told(o, "filled")
  /\ UNCHANGED <<input, view, runs, rows, placed>>

(* Canceled or rejected.                                                   *)
VenueDrops(o) ==
  /\ working' = working \ {o}
  /\ run' = Told(o, "dead")
  /\ UNCHANGED <<input, view, runs, rows, position, placed>>

CaptureNext ==
  \/ StartRun \/ Read \/ ReadRaises \/ NothingToReplay \/ Preview \/ NotConnected
  \/ ConnectRun \/ Trim \/ TrimRaises
  \/ StartRow \/ NothingToOrder \/ PlaceOrder \/ Settle \/ GiveUp
  \/ PipelineRaises \/ PipelineReturns
  \/ AppendRow \/ AppendRaises \/ Disconnect \/ DisconnectRaises \/ Return \/ KillRun

VenueNext == \E o \in working : VenueFills(o) \/ VenueDrops(o)
-----------------------------------------------------------------------------
(* How a run ended tells what it left behind: nothing was placed or        *)
(* recorded after 2 or 3 or a preview, nothing recorded after 5; after 0   *)
(* the session is closed; and a run whose pipeline returned has its row,   *)
(* however disconnect went.                                                *)
ExitTellsRun ==
  /\ run.pc = "idle" /\ (run.exit \in {2, 3} \/ run.dry) => ~run.sent /\ runs \notin rows
  /\ run.pc = "idle" /\ run.exit = 5 => runs \notin rows
  /\ run.pc = "idle" /\ run.exit = 0 => ~run.connected
  /\ run.pc = "idle" /\ run.traded /\ run.records /\ run.exit # Killed
       => (runs \in rows \/ run.unwritten)
  /\ rows \subseteq 1..runs

(* An instrument is sized at a bar older than the day it is sized for only *)
(* when a refresh was writing while the run read, or one was not whole.    *)
StaleBarsNeedATear == run.stale => ~run.quiet
=============================================================================
