---------------------------- MODULE IGBarStream ----------------------------
(***************************************************************************)
(* The bars of blive/adapters/ig/market_data.py: _bar_stream, which merges *)
(* the updates of one chart subscription until the venue closes a candle,  *)
(* and historical_bars, which reads the same candles over REST.            *)
(*                                                                         *)
(* The venue keeps the fields of the chart item; an update carries those   *)
(* that changed.  A field holds a number, the empty string (null in the    *)
(* JSON of REST), or a text that is no number.  Prices are counted in half *)
(* units, so that the midpoint of bid and offer is a whole number.         *)
(***************************************************************************)
EXTENDS Integers, SequencesExt

CONSTANTS
  Prices,     \* the prices of a candle in the order they are read
  PriceFields,  \* what an update may say of the prices: fields to values
  VolumeFields, \* and of the volume
  CandleLength, \* the timedelta of the bar frequency
  MaxUpdates    \* bound: updates the venue sends

Number(n) == [kind |-> "number", n |-> n]
Empty == [kind |-> "empty", n |-> 0]
Garbage == [kind |-> "garbage", n |-> 0]

UTM == <<"UTM", "">>
LTV == <<"LTV", "">>
CONS_END == <<"CONS_END", "">>

VARIABLES
  state,    \* fields merged since the last candle was closed
  bars,     \* bars yielded
  status,   \* of the generator: running, ended, or raised
  seen      \* history: the updates taken so far

vars == <<state, bars, status, seen>>
-----------------------------------------------------------------------------
(* Reading one value: it is good, or the bar is skipped, or an exception   *)
(* that nothing catches leaves the parser: Decimal raises InvalidOperation *)
(* on a text that is no number, and that is no ValueError.                 *)
Good(n) == [verdict |-> "good", n |-> n]
Skips == [verdict |-> "skip", n |-> 0]
Raises == [verdict |-> "raise", n |-> 0]

Has(fields, f) == f \in DOMAIN fields /\ fields[f] # Empty

MidFirst(fields, s) ==    \* mutant: the midpoint is preferred
  LET bid == <<"BID", s>>
      ofr == <<"OFR", s>>
      ltp == <<"LTP", s>>
  IN  IF Has(fields, bid) /\ Has(fields, ofr) THEN Good(fields[bid].n + fields[ofr].n)
      ELSE IF Has(fields, ltp) THEN Good(2 * fields[ltp].n) ELSE Skips

(* The last traded price when there is one, else the midpoint.             *)
StreamOhlc(fields, s) ==
  LET ltp == <<"LTP", s>>
      bid == <<"BID", s>>
      ofr == <<"OFR", s>>
  IN  IF Has(fields, ltp)
      THEN IF fields[ltp] = Garbage THEN Raises ELSE Good(2 * fields[ltp].n)
      ELSE IF ~Has(fields, bid) \/ ~Has(fields, ofr) THEN Skips
      ELSE IF Garbage \in {fields[bid], fields[ofr]} THEN Raises
      ELSE Good(fields[bid].n + fields[ofr].n)

CloseTime(fields) ==
  IF ~Has(fields, UTM) \/ fields[UTM] = Garbage THEN Skips ELSE Good(fields[UTM].n)

Volume(fields) ==
  IF LTV \notin DOMAIN fields THEN Good(0)
  ELSE IF fields[LTV].kind # "number" THEN Raises
  ELSE Good(IF fields[LTV].n < 0 THEN 0 ELSE fields[LTV].n)

(* The values of a bar, read in this order; the first that fails decides.  *)
Readings(fields) ==
  <<CloseTime(fields)>> \o [i \in DOMAIN Prices |-> StreamOhlc(fields, Prices[i])]
    \o <<Volume(fields)>>

VerdictOf(readings) ==
  LET first == SelectInSeq(readings, LAMBDA r : r.verdict # "good")
  IN  IF first = 0 THEN "good" ELSE readings[first].verdict

Bar(readings) == [i \in DOMAIN readings |-> readings[i].n]

(* historical_bars: an entry of the answer is one candle, with all keys.   *)
RestOhlc(price) ==
  IF price.lastTraded # Empty
  THEN IF price.lastTraded = Garbage THEN Raises ELSE Good(2 * price.lastTraded.n)
  ELSE IF Empty \in {price.bid, price.ask} THEN Skips
  ELSE IF Garbage \in {price.bid, price.ask} THEN Raises
  ELSE Good(price.bid.n + price.ask.n)

RestVolume(volume) ==
  IF volume.kind # "number" THEN Raises ELSE Good(IF volume.n < 0 THEN 0 ELSE volume.n)

(* The close of the bar is its snapshot time and the length of a candle.   *)
RestReadings(entry) ==
  <<IF entry.snapshotTime.kind # "number" THEN Skips
    ELSE Good(entry.snapshotTime.n + CandleLength)>>
  \o [i \in DOMAIN Prices |-> RestOhlc(entry.price[Prices[i]])]
  \o <<RestVolume(entry.lastTradedVolume)>>

(* An entry that is skipped leaves the others; an exception leaves none.   *)
HistoricalBars(entries) ==
  LET read == [i \in DOMAIN entries |-> RestReadings(entries[i])]
      good == SelectSeq(read, LAMBDA r : VerdictOf(r) = "good")
  IN  IF \E i \in DOMAIN read : VerdictOf(read[i]) = "raise" THEN <<>>
      ELSE SortSeq([i \in DOMAIN good |-> Bar(good[i])], LAMBDA x, y : x[1] < y[1])
-----------------------------------------------------------------------------
Closes(fields) == CONS_END \in DOMAIN fields /\ fields[CONS_END] = Number(1)

NothingMerged == [f \in {} |-> Empty]

KeepsState(merged) ==    \* mutant: a skipped bar leaves its fields behind
  state' = IF VerdictOf(Readings(merged)) = "skip" THEN merged ELSE NothingMerged

(* The fields of a closed candle are dropped, also when its bar is skipped. *)
Reset(merged) == state' = NothingMerged

Close(merged) ==
  /\ Reset(merged)
  /\ CASE VerdictOf(Readings(merged)) = "good" ->
            bars' = Append(bars, Bar(Readings(merged))) /\ UNCHANGED status
       [] VerdictOf(Readings(merged)) = "skip" -> UNCHANGED <<bars, status>>
       [] VerdictOf(Readings(merged)) = "raise" -> status' = "raised" /\ UNCHANGED bars

(* The source delivers an update.                                          *)
Update(update) ==
  /\ status = "running"
  /\ LET merged == update @@ state IN
       IF Closes(merged) THEN Close(merged)
       ELSE state' = merged /\ UNCHANGED <<bars, status>>
  /\ seen' = Append(seen, update)

(* The subscription is closed.                                             *)
EndOfStream ==
  /\ status = "running" /\ status' = "ended"
  /\ UNCHANGED <<state, bars, seen>>

(* What an update may say of the candle: nothing, that it is open, that it *)
(* is closed, at a time or without one.                                    *)
EndFields(now) ==
  {NothingMerged, CONS_END :> Number(0), CONS_END :> Number(1),
   CONS_END :> Number(1) @@ UTM :> Number(now)}

Init ==
  /\ state = NothingMerged /\ bars = <<>> /\ status = "running"
  /\ seen = <<>>

Next ==
  \/ /\ Len(seen) < MaxUpdates
     /\ \E p \in PriceFields, v \in VolumeFields, e \in EndFields(Len(seen) + 1) :
          Update(p @@ v @@ e)
  \/ EndOfStream

Spec == Init /\ [][Next]_vars
-----------------------------------------------------------------------------
(* Properties.                                                             *)

(* The update that closed the candle before the one of update i.           *)
Start(i) == SelectLastInSubSeq(seen, 1, i - 1, Closes)

(* The fields of the candle that update i closes: its own updates merged.  *)
Candle(i) ==
  FoldLeft(LAMBDA fields, update : update @@ fields, NothingMerged, SubSeq(seen, Start(i) + 1, i))

Closings == SelectSeq([i \in DOMAIN seen |-> i], LAMBDA i : Closes(seen[i]))

Yielded == SelectSeq(Closings, LAMBDA i : VerdictOf(Readings(Candle(i))) = "good")

(* Each candle that the venue closes gives the bar of its own updates, or  *)
(* none when a value is missing: no bar holds a value of another candle,   *)
(* and a close that was seen once is not seen again.                       *)
BarsMatchCandles ==
  bars = [k \in DOMAIN Yielded |-> Bar(Readings(Candle(Yielded[k])))]

(* The chart item after update i, and the entry REST serves for it: what   *)
(* was never sent is null, and so is the empty string.                     *)
ItemAt(i) == FoldLeft(LAMBDA fields, update : update @@ fields, NothingMerged, SubSeq(seen, 1, i))

Field(fields, kind, s) == IF <<kind, s>> \in DOMAIN fields THEN fields[<<kind, s>>] ELSE Empty

Entry(i) ==
  [snapshotTime |-> Number(ItemAt(i)[UTM].n - CandleLength),
   price |-> [s \in Range(Prices) |->
                [lastTraded |-> Field(ItemAt(i), "LTP", s), bid |-> Field(ItemAt(i), "BID", s),
                 ask |-> Field(ItemAt(i), "OFR", s)]],
   lastTradedVolume |-> Field(ItemAt(i), "LTV", "")]

(* The fields of the item that reading r looks at.                         *)
Uses(i, r) ==
  DOMAIN ItemAt(i) \cap
    (CASE r = 1 -> {UTM}
       [] r = Len(Prices) + 2 -> {LTV}
       [] OTHER -> {<<kind, Prices[r - 1]>> : kind \in {"LTP", "BID", "OFR"}})

Changed(i, r) == Uses(i, r) # {} /\ Uses(i, r) \subseteq DOMAIN Candle(i)

(* A value whose fields changed during the candle is the one that REST     *)
(* serves for it, so a strategy fed live decides as one fed from history;  *)
(* if all of them did in every candle, the two see the same bars.          *)
LiveEqualsHistory ==
  /\ \A k \in DOMAIN Yielded : \A r \in DOMAIN bars[k] :
       Changed(Yielded[k], r) => RestReadings(Entry(Yielded[k]))[r] = Good(bars[k][r])
  /\ (/\ status # "raised"
      /\ \A k \in DOMAIN Closings : \A r \in 1..(Len(Prices) + 2) : Changed(Closings[k], r))
     => bars = HistoricalBars([k \in DOMAIN Closings |-> Entry(Closings[k])])

(* What a comment in _bar_stream says of a malformed candle                *)
(* (market_data.py:320): the next bar starts clean even if this one was    *)
(* malformed.  It does when a value is missing; a volume or a price that   *)
(* is no number ends the generator.                                        *)
NextBarStartsClean == status # "raised"
=============================================================================
