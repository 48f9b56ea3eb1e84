---------------------------- MODULE DataRefresh ----------------------------
(***************************************************************************)
(* The scripts that refresh the data a paper run reads:                    *)
(* scripts/refresh_eodhd_signals.py fetches every ticker, computes the     *)
(* signals and writes one file after the other, the signals last;          *)
(* scripts/refresh_eodhd_parquet.py does one ticker.  A write is not       *)
(* atomic, and a run may fail or be killed anywhere.                       *)
(*                                                                         *)
(* What a file holds is the generation that wrote it: generation g holds   *)
(* the days up to g.                                                       *)
(***************************************************************************)
EXTENDS Naturals, Sequences, SequencesExt

CONSTANTS
  Tickers,        \* _ALL_EODHD_TICKERS, by IB symbol, in their order
  MaxRefreshes    \* bound: runs of a refresh script

VARIABLES
  files,        \* the parquet files on disk
  refresh,      \* the script: where it is, the files it is about, --dry-run
  todo,         \* tickers to fetch, then files to write
  generation,   \* of the refresh that runs, or of the last one
  exitCode,     \* of the last refresh
  before,       \* history: the files when it started
  trusted       \* history: every refresh was of all files and ended with 0, 2, 3 or 4

refreshVars == <<files, refresh, todo, generation, exitCode, before, trusted>>

Signals == "signals"
Files == ToSet(Tickers) \cup {Signals}

ASSUME TickersAssumption ==
  /\ Tickers \in Seq(STRING) /\ Signals \notin ToSet(Tickers)
  /\ MaxRefreshes \in Nat

(* mutant: the signals are written first.                                  *)
SignalsFirst == <<Signals>> \o Tickers

(* The order of the writes: the tickers as they were fetched, the signals. *)
WriteOrder == Append(Tickers, Signals)

Missing == [gen |-> 0, whole |-> FALSE]
Written(g) == [gen |-> g, whole |-> TRUE]
Torn(g) == [gen |-> g, whole |-> FALSE]

Running == 100     \* the script has not exited yet
Killed == 130
TellsFiles == {0, 2, 3, 4}     \* codes after which no file is half of a refresh

IdleRefresh == [pc |-> "idle", order |-> WriteOrder, dry |-> TRUE]

RefreshInit ==
  /\ files = [f \in Files |-> Missing]
  /\ refresh = IdleRefresh
  /\ todo = <<>>
  /\ generation = 0 /\ exitCode = 0
  /\ before = files /\ trusted = TRUE
-----------------------------------------------------------------------------
(* main, up to the first request; --from/--to end at the day of the run.   *)
Starts(order, fetch, dry) ==
  /\ refresh.pc = "idle" /\ generation < MaxRefreshes
  /\ generation' = generation + 1
  /\ before' = files
  /\ refresh' = [pc |-> "fetching", order |-> order, dry |-> dry]
  /\ todo' = fetch
  /\ exitCode' = Running
  /\ UNCHANGED <<files, trusted>>

StartAll == \E dry \in BOOLEAN : Starts(WriteOrder, Tickers, dry)
StartOne == \E t \in ToSet(Tickers), dry \in BOOLEAN : Starts(<<t>>, <<t>>, dry)

OfAll == refresh.order = WriteOrder

Exit(code) ==
  /\ refresh' = [refresh EXCEPT !.pc = "idle"]
  /\ exitCode' = code
  /\ trusted' = (trusted /\ code \in TellsFiles /\ (code = 0 => OfAll \/ refresh.dry))
  /\ UNCHANGED <<todo, generation, before>>

(* Credentials or dates that cannot be used.                               *)
Unusable ==
  /\ refresh.pc = "idle"
  /\ exitCode' = 2 /\ before' = files
  /\ UNCHANGED <<files, refresh, todo, generation, trusted>>

(* mutant: a ticker is written as soon as it has been fetched.             *)
FetchAndWrite ==
  /\ refresh.pc = "fetching" /\ todo # <<>>
  /\ todo' = Tail(todo)
  /\ files' = [files EXCEPT ![Head(todo)] = Written(generation)]
  /\ UNCHANGED <<refresh, generation, exitCode, before, trusted>>

Fetch ==
  /\ refresh.pc = "fetching" /\ todo # <<>>
  /\ todo' = Tail(todo)
  /\ UNCHANGED <<files, refresh, generation, exitCode, before, trusted>>

(* A body that is no array (1), an HTTP error (3), no rows or none left    *)
(* (4), rows that do not parse (5).                                        *)
FetchFails ==
  /\ refresh.pc = "fetching" /\ todo # <<>>
  /\ \E code \in {1, 3, 4, 5} : Exit(code)
  /\ UNCHANGED files

(* Fewer aligned bars of the trend signals than the window of the average, *)
(* or closes the signals cannot be computed from.                          *)
NoSignals ==
  /\ refresh.pc = "fetching" /\ todo = <<>> /\ OfAll
  /\ Exit(5)
  /\ UNCHANGED files

DryRunEnds ==
  /\ refresh.pc = "fetching" /\ todo = <<>> /\ refresh.dry
  /\ Exit(0)
  /\ UNCHANGED files

BeginWrites ==
  /\ refresh.pc = "fetching" /\ todo = <<>> /\ ~refresh.dry
  /\ refresh' = [refresh EXCEPT !.pc = "writing"]
  /\ todo' = refresh.order
  /\ UNCHANGED <<files, generation, exitCode, before, trusted>>

(* A directory that cannot be made is caught by the script of one ticker.  *)
NoDirectory ==
  /\ refresh.pc = "writing" /\ todo # <<>>
  /\ Head(todo) \in {Head(refresh.order), Signals}
  /\ Exit(IF OfAll THEN 1 ELSE 5)
  /\ UNCHANGED files

WriteFile ==
  /\ refresh.pc = "writing" /\ todo # <<>>
  /\ files' = [files EXCEPT ![Head(todo)] = Written(generation)]
  /\ todo' = Tail(todo)
  /\ UNCHANGED <<refresh, generation, exitCode, before, trusted>>

(* The file being written keeps its old content or is left half written.   *)
Interrupted(f) == files' \in {files, [files EXCEPT ![f] = Torn(generation)]}

WriteFails ==
  /\ refresh.pc = "writing" /\ todo # <<>>
  /\ Interrupted(Head(todo))
  /\ Exit(5)

(* The bars are read back; the signals are not.                            *)
Validate ==
  /\ refresh.pc = "writing" /\ todo = <<>>
  /\ \E accepted \in BOOLEAN :
       /\ accepted => \A f \in ToSet(refresh.order) \ {Signals} : files[f].whole
       /\ Exit(IF accepted THEN 0 ELSE 5)
  /\ UNCHANGED files

(* The process is killed, in the middle of a write too.                    *)
KillRefresh ==
  /\ refresh.pc # "idle"
  /\ IF refresh.pc = "writing" /\ todo # <<>>
       THEN Interrupted(Head(todo)) ELSE UNCHANGED files
  /\ Exit(Killed)

RefreshNext ==
  \/ StartAll \/ StartOne \/ Unusable \/ Fetch \/ FetchFails \/ NoSignals \/ DryRunEnds
  \/ BeginWrites \/ NoDirectory \/ WriteFile \/ WriteFails \/ Validate \/ KillRefresh

RefreshSpec == RefreshInit /\ [][RefreshNext]_refreshVars
-----------------------------------------------------------------------------
(* The exit code tells what happened to the files: after 2, 3 or 4 and     *)
(* after a dry run each is as it was, after 0 each one the script is about *)
(* holds what it fetched; and as long as every refresh was of all files    *)
(* and ended so, they are all of one generation, whoever looks at them     *)
(* while nothing is being written.                                         *)
RefreshIsWhole ==
  /\ refresh.pc # "writing" /\ trusted => \E g \in 0..generation :
       files = [f \in Files |-> IF g = 0 THEN Missing ELSE Written(g)]
  /\ (exitCode \in {2, 3, 4} \/ (exitCode = 0 /\ refresh.dry)) => files = before
  /\ exitCode = 0 /\ ~refresh.dry =>
       \A f \in ToSet(refresh.order) : files[f] = Written(generation)

(* The signals are never newer than any file of bars, whatever failed or   *)
(* was killed: every day they speak of has its bars.                       *)
SignalsNeverNewer ==
  \A t \in ToSet(Tickers) : files[Signals].gen <= files[t].gen
=============================================================================
