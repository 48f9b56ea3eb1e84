--------------------------- MODULE Campaign_proofs ---------------------------
(***************************************************************************)
(* Proofs about the scripts: DataRefresh, the CaptureRun that reads its    *)
(* files and the Campaign over one account, for every list of tickers and  *)
(* of tradables, every cap, target and number of refreshes, runs and       *)
(* flattens; and, at the end, about Signals, for every window, every set   *)
(* of closes and every length of the tape.                                 *)
(***************************************************************************)
EXTENDS Campaign, Signals, SumLemmas, SequenceTheorems, TLAPS

(* The order of the writes lists every file, and the signals only at its   *)
(* end.                                                                    *)
LEMMA OrderFacts ==
  /\ WriteOrder \in Seq(Files) /\ Len(WriteOrder) = Len(Tickers) + 1
  /\ \A i \in 1..Len(Tickers) : WriteOrder[i] = Tickers[i] /\ WriteOrder[i] # Signals
  /\ WriteOrder[Len(Tickers) + 1] = Signals
  /\ Len(Tickers) \in Nat
  /\ \A t \in ToSet(Tickers) : \E i \in 1..Len(Tickers) : WriteOrder[i] = t
  /\ ToSet(WriteOrder) = Files
<1>1. /\ Tickers \in Seq(ToSet(Tickers)) /\ Len(Tickers) \in Nat
      /\ \A t \in ToSet(Tickers) : \E i \in 1..Len(Tickers) : Tickers[i] = t
      /\ \A i \in 1..Len(Tickers) : Tickers[i] \in ToSet(Tickers)
  BY TickersAssumption DEF ToSet
<1>2. \A i \in 1..Len(Tickers) : Tickers[i] # Signals
  BY <1>1, TickersAssumption
<1>3. Tickers \in Seq(Files) /\ Signals \in Files
  BY <1>1 DEF Files
<1>4. /\ WriteOrder \in Seq(Files) /\ Len(WriteOrder) = Len(Tickers) + 1
      /\ \A i \in 1..Len(Tickers) : WriteOrder[i] = Tickers[i]
      /\ WriteOrder[Len(Tickers) + 1] = Signals
  BY <1>1, <1>3 DEF WriteOrder
<1>5. ToSet(WriteOrder) = Files
  <2>1. ASSUME NEW f \in Files PROVE f \in ToSet(WriteOrder)
    <3>1. CASE f = Signals
      BY <3>1, <1>1, <1>4 DEF ToSet
    <3>2. CASE f \in ToSet(Tickers)
      <4>1. PICK i \in 1..Len(Tickers) : Tickers[i] = f
        BY <3>2, <1>1
      <4>2. i \in DOMAIN WriteOrder /\ WriteOrder[i] = f
        BY <4>1, <1>1, <1>4
      <4>3. QED
        BY <4>2 DEF ToSet
    <3>3. QED
      BY <3>1, <3>2 DEF Files
  <2>2. ToSet(WriteOrder) \subseteq Files
    BY <1>4 DEF ToSet
  <2>3. QED
    BY <2>1, <2>2
<1>6. QED
  BY <1>1, <1>2, <1>4, <1>5
-----------------------------------------------------------------------------
RefreshTypes ==
  /\ generation \in Nat
  /\ files \in [Files -> [gen : 0..generation, whole : BOOLEAN]]
  /\ refresh \in [pc : {"idle", "fetching", "writing"}, order : Seq(Files), dry : BOOLEAN]
  /\ \/ refresh.order = WriteOrder
     \/ \E t \in ToSet(Tickers) : refresh.order = <<t>>
  /\ todo \in Seq(Files)
  /\ trusted \in BOOLEAN
  /\ refresh.pc # "idle" => generation > 0 /\ exitCode = Running

(* While it fetches nothing has changed; while it writes, what is left to  *)
(* write ends the order, and what comes before has been written.           *)
WritesInOrder ==
  /\ refresh.pc = "fetching" => files = before
  /\ refresh.pc = "writing" =>
       /\ ~refresh.dry
       /\ Len(todo) <= Len(refresh.order)
       /\ \A i \in 1..Len(todo) :
            todo[i] = refresh.order[Len(refresh.order) - Len(todo) + i]
       /\ \A i \in 1..(Len(refresh.order) - Len(todo)) :
            files[refresh.order[i]] = Written(generation)

RefreshInv == RefreshTypes /\ WritesInOrder /\ RefreshIsWhole /\ SignalsNeverNewer

(* When the signals are the next to be written, every ticker has been.     *)
LEMMA SignalsComeLast ==
  ASSUME RefreshTypes, WritesInOrder, refresh.pc = "writing", todo # <<>>,
         Head(todo) = Signals
  PROVE  \A t \in ToSet(Tickers) : files[t] = Written(generation)
<1> DEFINE k == Len(refresh.order) - Len(todo) + 1
<1>1. /\ Len(todo) \in Nat /\ Len(todo) >= 1 /\ Len(refresh.order) \in Nat
      /\ Head(todo) = todo[1] /\ k \in 1..Len(refresh.order)
      /\ refresh.order[k] = Signals
  BY DEF RefreshTypes, WritesInOrder
<1>2. CASE refresh.order = WriteOrder
  <2>1. k = Len(Tickers) + 1
    BY <1>1, <1>2, OrderFacts
  <2>2. \A i \in 1..Len(Tickers) : files[WriteOrder[i]] = Written(generation)
    BY <2>1, <1>1, <1>2, OrderFacts DEF WritesInOrder
  <2>3. QED
    BY <2>2, OrderFacts
<1>3. CASE \E t \in ToSet(Tickers) : refresh.order = <<t>>
  BY <1>1, <1>3, TickersAssumption
<1>4. QED
  BY <1>2, <1>3 DEF RefreshTypes

(* An exit that leaves the files alone, from where they are as before.     *)
LEMMA ExitKeeping ==
  ASSUME RefreshInv, NEW code \in Nat, Exit(code), UNCHANGED files,
         refresh.pc = "fetching" \/ code \notin {2, 3, 4},
         code = 0 => refresh.dry \/ (refresh.pc = "writing" /\ todo = <<>>),
         code = 0 /\ refresh.dry => refresh.pc = "fetching",
         refresh.pc = "writing" /\ code \in TellsFiles => code = 0
  PROVE  RefreshInv'
<1> USE DEF RefreshInv
<1>1. /\ refresh'.pc = "idle" /\ refresh'.order = refresh.order /\ refresh'.dry = refresh.dry
      /\ refresh' \in [pc : {"idle", "fetching", "writing"}, order : Seq(Files), dry : BOOLEAN]
      /\ exitCode' = code /\ files' = files /\ before' = before /\ todo' = todo
      /\ generation' = generation
      /\ trusted' = (trusted /\ code \in TellsFiles /\ (code = 0 => OfAll \/ refresh.dry))
  BY DEF Exit, RefreshTypes
<1>2. RefreshTypes'
  BY <1>1 DEF RefreshTypes
<1>3. WritesInOrder'
  BY <1>1 DEF WritesInOrder
<1>4. SignalsNeverNewer'
  BY <1>1 DEF SignalsNeverNewer
<1>5. code = 0 /\ ~refresh.dry =>
        \A f \in ToSet(refresh.order) : files[f] = Written(generation)
  <2> SUFFICES ASSUME code = 0, ~refresh.dry
               PROVE  \A f \in ToSet(refresh.order) : files[f] = Written(generation)
    OBVIOUS
  <2>1. refresh.pc = "writing" /\ Len(todo) = 0 /\ Len(refresh.order) \in Nat
    BY DEF RefreshTypes
  <2>2. \A i \in 1..Len(refresh.order) : files[refresh.order[i]] = Written(generation)
    BY <2>1 DEF WritesInOrder
  <2>3. QED
    BY <2>2, <2>1 DEF ToSet, RefreshTypes
<1>6. trusted' => \E g \in 0..generation :
        files = [f \in Files |-> IF g = 0 THEN Missing ELSE Written(g)]
  <2>1. CASE refresh.pc = "writing"
    <3> SUFFICES ASSUME trusted'
                 PROVE  \E g \in 0..generation :
                          files = [f \in Files |-> IF g = 0 THEN Missing ELSE Written(g)]
      OBVIOUS
    <3>1. code = 0 /\ ~refresh.dry /\ refresh.order = WriteOrder
      BY <2>1, <1>1 DEF WritesInOrder, OfAll
    <3>2. \A f \in Files : files[f] = Written(generation)
      BY <3>1, <1>5, OrderFacts
    <3>3. files = [f \in Files |-> IF generation = 0 THEN Missing ELSE Written(generation)]
      BY <3>2, <2>1 DEF RefreshTypes
    <3>4. generation \in 0..generation
      BY DEF RefreshTypes
    <3>5. QED
      BY <3>3, <3>4
  <2>2. CASE refresh.pc # "writing"
    BY <2>2, <1>1 DEF RefreshIsWhole
  <2>3. QED
    BY <2>1, <2>2
<1>7. code \in {2, 3, 4} \/ (code = 0 /\ refresh.dry) => files = before
  BY DEF WritesInOrder
<1>8. RefreshIsWhole'
  BY <1>1, <1>5, <1>6, <1>7 DEF RefreshIsWhole
<1>9. QED
  BY <1>2, <1>3, <1>4, <1>8

(* An exit with an error in the middle of a write.                         *)
LEMMA ExitTearing ==
  ASSUME RefreshInv, NEW code \in {5, Killed}, Exit(code),
         refresh.pc = "writing", todo # <<>>, Interrupted(Head(todo))
  PROVE  RefreshInv'
<1> USE DEF RefreshInv
<1>1. /\ refresh'.pc = "idle" /\ refresh'.order = refresh.order /\ refresh'.dry = refresh.dry
      /\ refresh' \in [pc : {"idle", "fetching", "writing"}, order : Seq(Files), dry : BOOLEAN]
      /\ exitCode' = code /\ todo' = todo /\ generation' = generation
      /\ ~trusted' /\ trusted' \in BOOLEAN
  <2>1. code \notin TellsFiles
    BY DEF TellsFiles, Killed
  <2>2. /\ refresh' = [refresh EXCEPT !.pc = "idle"]
        /\ exitCode' = code /\ todo' = todo /\ generation' = generation
        /\ trusted' = (trusted /\ code \in TellsFiles /\ (code = 0 => OfAll \/ refresh.dry))
    BY DEF Exit
  <2>3. ~trusted' /\ trusted' \in BOOLEAN
    BY <2>1, <2>2, Zenon
  <2>4. QED
    BY <2>2, <2>3 DEF RefreshTypes
<1>2. Head(todo) \in Files /\ generation \in 0..generation
  BY DEF RefreshTypes
<1>3. files' \in [Files -> [gen : 0..generation, whole : BOOLEAN]]
  <2>1. files \in [Files -> [gen : 0..generation, whole : BOOLEAN]]
    BY DEF RefreshTypes
  <2>2. Torn(generation) \in [gen : 0..generation, whole : BOOLEAN]
    BY <1>2 DEF Torn
  <2>3. QED
    BY <2>1, <2>2 DEF Interrupted
<1>4. RefreshTypes' /\ WritesInOrder'
  BY <1>1, <1>3 DEF RefreshTypes, WritesInOrder
<1>5. RefreshIsWhole'
  BY <1>1 DEF RefreshIsWhole, Killed
<1>6. SignalsNeverNewer'
  <2>1. CASE files' = files
    BY <2>1 DEF SignalsNeverNewer
  <2>2. CASE files' = [files EXCEPT ![Head(todo)] = Torn(generation)]
    <3>1. CASE Head(todo) = Signals
      BY <3>1, <2>2, <1>2, SignalsComeLast, TickersAssumption
         DEF SignalsNeverNewer, Torn, Written, Files, RefreshTypes
    <3>2. CASE Head(todo) # Signals
      BY <3>2, <2>2, <1>2 DEF SignalsNeverNewer, Torn, Files, RefreshTypes
    <3>3. QED
      BY <3>1, <3>2
  <2>3. QED
    BY <2>1, <2>2 DEF Interrupted
<1>7. QED
  BY <1>4, <1>5, <1>6

(* A new refresh starts from what the last one left.                       *)
LEMMA StartKeeps ==
  ASSUME RefreshInv, StartAll \/ StartOne
  PROVE  RefreshInv'
<1> USE DEF RefreshInv
<1>1. PICK order \in Seq(Files), fetch \in Seq(Files), dry \in BOOLEAN :
        /\ Starts(order, fetch, dry)
        /\ order = WriteOrder \/ \E t \in ToSet(Tickers) : order = <<t>>
  <2>1. Tickers \in Seq(Files) /\ \A t \in ToSet(Tickers) : <<t>> \in Seq(Files)
    BY TickersAssumption DEF Files, ToSet
  <2>2. QED
    BY <2>1, OrderFacts DEF StartAll, StartOne
<1>2. /\ refresh.pc = "idle" /\ generation' = generation + 1 /\ generation \in Nat
      /\ before' = files /\ files' = files /\ trusted' = trusted /\ exitCode' = Running
      /\ refresh' = [pc |-> "fetching", order |-> order, dry |-> dry] /\ todo' = fetch
  BY <1>1 DEF Starts, RefreshTypes
<1>3. files \in [Files -> [gen : 0..(generation + 1), whole : BOOLEAN]]
  <2>1. \A f \in Files : files[f] \in [gen : 0..(generation + 1), whole : BOOLEAN]
    BY <1>2 DEF RefreshTypes
  <2>2. QED
    BY <2>1 DEF RefreshTypes
<1>4. RefreshTypes' /\ WritesInOrder' /\ SignalsNeverNewer'
  BY <1>1, <1>2, <1>3 DEF RefreshTypes, WritesInOrder, SignalsNeverNewer
<1>5. RefreshIsWhole'
  <2>1. 0..generation \subseteq 0..(generation + 1)
    BY <1>2
  <2>2. QED
    BY <1>2, <2>1 DEF RefreshIsWhole, Running
<1>6. QED
  BY <1>4, <1>5

(* A file written whole.                                                   *)
LEMMA WriteKeeps ==
  ASSUME RefreshInv, WriteFile
  PROVE  RefreshInv'
<1> USE DEF RefreshInv
<1> DEFINE f == Head(todo)  n == Len(refresh.order) - Len(todo)
<1>1. /\ refresh.pc = "writing" /\ todo # <<>> /\ todo' = Tail(todo)
      /\ files' = [files EXCEPT ![f] = Written(generation)]
      /\ refresh' = refresh /\ generation' = generation /\ exitCode' = exitCode
      /\ before' = before /\ trusted' = trusted
  BY DEF WriteFile
<1>2. /\ Len(todo) \in Nat /\ Len(todo) >= 1 /\ Len(todo') = Len(todo) - 1
      /\ \A i \in 1..Len(todo') : todo'[i] = todo[i + 1]
      /\ f \in Files /\ f = todo[1] /\ todo' \in Seq(Files)
      /\ Len(refresh.order) \in Nat /\ n \in Nat /\ f = refresh.order[n + 1]
  BY <1>1 DEF RefreshTypes, WritesInOrder
<1>3. Written(generation) \in [gen : 0..generation, whole : BOOLEAN]
  BY DEF Written, RefreshTypes
<1>4. RefreshTypes'
  BY <1>1, <1>2, <1>3 DEF RefreshTypes
<1>5. WritesInOrder'
  <2>1. Len(refresh'.order) - Len(todo') = n + 1
    BY <1>1, <1>2
  <2>2. \A i \in 1..Len(todo') : todo'[i] = refresh'.order[Len(refresh'.order) - Len(todo') + i]
    <3> TAKE i \in 1..Len(todo')
    <3>1. i + 1 \in 1..Len(todo) /\ todo'[i] = todo[i + 1]
      BY <1>2
    <3>2. todo[i + 1] = refresh.order[n + (i + 1)]
      BY <3>1, <1>1 DEF WritesInOrder
    <3>3. n + (i + 1) = Len(refresh'.order) - Len(todo') + i
      <4>1. i \in Nat /\ n \in Nat
        BY <1>2
      <4> HIDE DEF n
      <4>2. n + (i + 1) = (n + 1) + i
        BY <4>1
      <4>3. QED
        BY <4>2, <2>1
    <3>4. QED
      BY <3>1, <3>2, <3>3, <1>1
  <2>3. \A i \in 1..(n + 1) : files'[refresh.order[i]] = Written(generation)
    <3> TAKE i \in 1..(n + 1)
    <3>1. refresh.order[i] \in Files
      BY <1>2 DEF RefreshTypes
    <3>2. CASE refresh.order[i] = f
      BY <3>1, <3>2, <1>1 DEF RefreshTypes
    <3>3. CASE refresh.order[i] # f
      <4>1. i \in 1..n
        BY <3>3, <1>2
      <4>2. files[refresh.order[i]] = Written(generation)
        BY <4>1, <1>1 DEF WritesInOrder
      <4>3. QED
        BY <4>2, <3>1, <3>3, <1>1 DEF RefreshTypes
    <3>4. QED
      BY <3>2, <3>3
  <2>4. Written(generation)' = Written(generation)
    BY <1>1 DEF Written
  <2>5. /\ refresh'.pc = "writing" /\ ~refresh'.dry /\ Len(todo') <= Len(refresh'.order)
    BY <1>1, <1>2 DEF WritesInOrder
  <2>6. QED
    BY <2>1, <2>2, <2>3, <2>4, <2>5, <1>1 DEF WritesInOrder
<1>6. SignalsNeverNewer'
  <2>1. CASE f = Signals
    BY <2>1, <1>1, <1>2, SignalsComeLast, TickersAssumption
       DEF SignalsNeverNewer, Written, Files, RefreshTypes
  <2>2. CASE f # Signals
    BY <2>2, <1>1, <1>2 DEF SignalsNeverNewer, Written, Files, RefreshTypes
  <2>3. QED
    BY <2>1, <2>2
<1>7. RefreshIsWhole'
  BY <1>1 DEF RefreshIsWhole, Running, RefreshTypes
<1>8. QED
  BY <1>4, <1>5, <1>6, <1>7

(* The fetches, and the step to the first write.                           *)
LEMMA FetchKeeps ==
  ASSUME RefreshInv, Fetch \/ BeginWrites
  PROVE  RefreshInv'
<1> USE DEF RefreshInv
<1>1. /\ refresh.pc = "fetching" /\ files' = files /\ before' = before
      /\ generation' = generation /\ exitCode' = exitCode /\ trusted' = trusted
  BY DEF Fetch, BeginWrites
<1>2. SignalsNeverNewer'
  BY <1>1 DEF SignalsNeverNewer
<1>3. CASE Fetch
  <2>1. refresh' = refresh /\ todo' \in Seq(Files)
    BY <1>3 DEF Fetch, RefreshTypes
  <2>2. QED
    BY <1>1, <1>2, <2>1 DEF RefreshTypes, WritesInOrder, RefreshIsWhole
<1>4. CASE BeginWrites
  <2>1. /\ refresh'.pc = "writing" /\ refresh'.order = refresh.order
        /\ refresh'.dry = refresh.dry /\ ~refresh.dry /\ todo' = refresh.order
        /\ refresh' \in [pc : {"idle", "fetching", "writing"}, order : Seq(Files),
                          dry : BOOLEAN]
        /\ todo' \in Seq(Files) /\ Len(todo') \in Nat
    <3>1. refresh \in [pc : {"idle", "fetching", "writing"}, order : Seq(Files), dry : BOOLEAN]
      BY DEF RefreshTypes
    <3>2. /\ refresh' = [refresh EXCEPT !.pc = "writing"]
          /\ ~refresh.dry /\ todo' = refresh.order
      BY <1>4 DEF BeginWrites
    <3>3. refresh.order \in Seq(Files) /\ Len(refresh.order) \in Nat
      BY <3>1
    <3>4. QED
      BY <3>1, <3>2, <3>3
  <2>2. RefreshTypes'
    <3>1. \/ refresh'.order = WriteOrder
          \/ \E t \in ToSet(Tickers) : refresh'.order = <<t>>
      BY <1>1, <2>1 DEF RefreshTypes
    <3>2. generation' \in Nat /\ files' \in [Files -> [gen : 0..generation', whole : BOOLEAN]]
          /\ trusted' \in BOOLEAN
      BY <1>1 DEF RefreshTypes
    <3>3. refresh'.pc # "idle" => generation' > 0 /\ exitCode' = Running
      BY <1>1, <2>1 DEF RefreshTypes
    <3>4. QED
      BY <2>1, <3>1, <3>2, <3>3 DEF RefreshTypes
  <2>3. WritesInOrder'
    BY <1>1, <2>1 DEF WritesInOrder
  <2>4. RefreshIsWhole'
    BY <1>1, <2>1 DEF RefreshIsWhole, RefreshTypes, Running
  <2>5. QED
    BY <1>2, <2>2, <2>3, <2>4
<1>5. QED
  BY <1>3, <1>4

(* Arguments that cannot be used: nothing happens but an exit code.        *)
LEMMA UnusableKeeps ==
  ASSUME RefreshInv, Unusable
  PROVE  RefreshInv'
BY DEF RefreshInv, Unusable, RefreshTypes, WritesInOrder, RefreshIsWhole, SignalsNeverNewer

(* Every exit.                                                             *)
LEMMA ExitKeeps ==
  ASSUME RefreshInv,
         FetchFails \/ NoSignals \/ DryRunEnds \/ NoDirectory \/ WriteFails \/ Validate
           \/ KillRefresh
  PROVE  RefreshInv'
<1>1. CASE FetchFails
  <2>1. PICK code \in {1, 3, 4, 5} : Exit(code)
    BY <1>1 DEF FetchFails
  <2>2. QED
    BY <2>1, <1>1, ExitKeeping DEF FetchFails
<1>2. CASE NoSignals
  BY <1>2, ExitKeeping DEF NoSignals
<1>3. CASE DryRunEnds
  BY <1>3, ExitKeeping DEF DryRunEnds
<1>4. CASE NoDirectory
  <2>1. PICK code \in {1, 5} : Exit(code)
    BY <1>4 DEF NoDirectory
  <2>2. QED
    BY <2>1, <1>4, ExitKeeping DEF NoDirectory, TellsFiles
<1>5. CASE WriteFails
  BY <1>5, ExitTearing DEF WriteFails
<1>6. CASE Validate
  <2>1. PICK code \in {0, 5} : Exit(code)
    BY <1>6 DEF Validate
  <2>2. QED
    BY <2>1, <1>6, ExitKeeping DEF Validate, TellsFiles, RefreshInv, WritesInOrder
<1>7. CASE KillRefresh
  <2>1. CASE refresh.pc = "writing" /\ todo # <<>>
    BY <2>1, <1>7, ExitTearing DEF KillRefresh
  <2>2. CASE ~(refresh.pc = "writing" /\ todo # <<>>)
    BY <2>2, <1>7, ExitKeeping DEF KillRefresh, Killed, TellsFiles
  <2>3. QED
    BY <2>1, <2>2
<1>8. QED
  BY <1>1, <1>2, <1>3, <1>4, <1>5, <1>6, <1>7
-----------------------------------------------------------------------------
LEMMA RefreshInitHolds ==
  ASSUME RefreshInit
  PROVE  RefreshInv
<1>1. /\ files = [f \in Files |-> Missing] /\ Signals \in Files /\ generation = 0
      /\ refresh = IdleRefresh /\ todo = <<>> /\ exitCode = 0 /\ before = files
      /\ trusted = TRUE /\ 0 \in 0..generation
  BY DEF RefreshInit, Files
<1>2. RefreshTypes /\ WritesInOrder
  BY <1>1, OrderFacts DEF RefreshTypes, WritesInOrder, IdleRefresh, Missing
<1>3. RefreshIsWhole
  BY <1>1 DEF RefreshIsWhole, IdleRefresh
<1>4. SignalsNeverNewer
  BY <1>1 DEF SignalsNeverNewer, Missing, Files
<1>5. QED
  BY <1>2, <1>3, <1>4 DEF RefreshInv

LEMMA RefreshStep ==
  ASSUME RefreshInv, RefreshNext
  PROVE  RefreshInv'
BY StartKeeps, WriteKeeps, FetchKeeps, UnusableKeeps, ExitKeeps DEF RefreshNext

LEMMA RefreshStutters ==
  ASSUME RefreshInv, UNCHANGED refreshVars
  PROVE  RefreshInv'
BY DEF RefreshInv, refreshVars, RefreshTypes, WritesInOrder, RefreshIsWhole,
       SignalsNeverNewer, Written

LEMMA RefreshInvHolds == RefreshSpec => []RefreshInv
<1>1. RefreshInit => RefreshInv
  BY RefreshInitHolds
<1>2. RefreshInv /\ [RefreshNext]_refreshVars => RefreshInv'
  BY RefreshStep, RefreshStutters
<1>3. QED
  BY <1>1, <1>2, PTL DEF RefreshSpec

(* The signals are never newer than the bars of any ticker, whatever       *)
(* fails, is killed or refreshes one ticker alone.                         *)
THEOREM SignalsFollowBars == RefreshSpec => []SignalsNeverNewer
BY RefreshInvHolds, PTL DEF RefreshInv

(* The exit code tells what happened to the files, and refreshes of all    *)
(* files that ended well leave files of one generation.                    *)
THEOREM WholeRefreshes == RefreshSpec => []RefreshIsWhole
BY RefreshInvHolds, PTL DEF RefreshInv
-----------------------------------------------------------------------------
VenueOrders ==
  [id : Nat, sym : Symbols, qty : Int, by : {"nobody", "run", "flatten"}]

Steps == Symbols \cup {"append", "disconnect"}

RunRecord ==
  [pc : {"idle", "reading", "trimming", "trading", "waiting", "ending"},
   dry : BOOLEAN, records : BOOLEAN, quiet : BOOLEAN, day : Int, left : Seq(Steps),
   order : VenueOrders, fate : {"none", "working", "filled", "dead"},
   sent : BOOLEAN, traded : BOOLEAN, connected : BOOLEAN, stale : BOOLEAN,
   lost : BOOLEAN, unwritten : BOOLEAN, exit : Nat]

RunTypes ==
  /\ run \in RunRecord
  /\ runs \in Nat /\ rows \subseteq 1..runs
  /\ run.pc # "idle" => runs > 0

FlattenRecord ==
  [pc : {"idle", "connected", "settling"}, seen : [Symbols -> Int],
   orders : SUBSET VenueOrders, filled : SUBSET VenueOrders]

AccountTypes ==
  /\ view \in [Symbols -> Int] /\ position \in [Symbols -> Int]
  /\ working \subseteq VenueOrders /\ placed \in Nat
  /\ flatten \in FlattenRecord
  /\ alone \in BOOLEAN /\ clean \in BOOLEAN

(* Nothing is placed before the pipeline and nothing recorded before it    *)
(* has returned; then the row comes before disconnect.                     *)
RunSoFar ==
  /\ run.pc \in {"reading", "trimming"} => ~run.sent /\ run.left = <<>>
  /\ run.pc \notin {"idle", "reading"} => ~run.dry
  /\ run.pc \in {"trading", "waiting"} => run.left \in Seq(Symbols)
  /\ run.pc \in {"reading", "trimming", "trading", "waiting"} =>
       runs \notin rows /\ ~run.traded
  /\ run.pc = "ending" =>
       \/ run.left = Epilogue
       \/ run.left = <<"disconnect">> /\ (run.records => runs \in rows)
       \/ run.left = <<>> /\ (run.records => runs \in rows) /\ ~run.connected

RunInv == RunTypes /\ RunSoFar /\ ExitTellsRun

LEMMA TradableFacts ==
  /\ Tradables \in Seq(Symbols) /\ Tradables \in Seq(Steps) /\ Tradables \in Seq(Files)
  /\ Len(Tradables) \in Nat /\ Len(Tradables) >= 1
  /\ Canonical \in Symbols
  /\ Flat \in [Symbols -> Int] /\ NoOrder \in VenueOrders
<1>1. Tradables \in Seq(ToSet(Tickers)) /\ Tradables # <<>>
  BY CaptureAssumption
<1>2. /\ Len(Tradables) \in Nat /\ Len(Tradables) >= 1
      /\ \A i \in 1..Len(Tradables) : Tradables[i] \in ToSet(Tickers)
  BY <1>1
<1>3. /\ Symbols \subseteq ToSet(Tickers) /\ Tradables \in Seq(Symbols)
      /\ Canonical = Tradables[1] /\ Canonical \in Symbols
  BY <1>1, <1>2 DEF Symbols, ToSet, Canonical
<1>4. Tradables \in Seq(Steps)
  BY <1>3 DEF Steps
<1>5. Flat \in [Symbols -> Int] /\ NoOrder \in VenueOrders
  BY <1>3 DEF Flat, NoOrder, VenueOrders
<1>6. QED
  BY <1>1, <1>2, <1>3, <1>4, <1>5 DEF Files

LEMMA ElementFacts ==
  ASSUME NEW S, NEW s \in Seq(S)
  PROVE  Len(s) \in Nat /\ \A i \in 1..Len(s) : s[i] \in S
OBVIOUS

LEMMA TailFacts ==
  ASSUME NEW S, NEW s \in Seq(S), s # <<>>
  PROVE  Head(s) \in S /\ Tail(s) \in Seq(S)
OBVIOUS

LEMMA NewRunFacts ==
  ASSUME NEW dry \in BOOLEAN, NEW records \in BOOLEAN
  PROVE  LET r == NewRun(dry, records) IN
         /\ r \in RunRecord /\ r.pc = "reading" /\ r.left = <<>> /\ r.quiet
         /\ ~r.sent /\ ~r.traded /\ ~r.connected /\ ~r.stale /\ ~r.lost
<1>1. <<>> \in Seq(Steps)
  OBVIOUS
<1>2. QED
  BY <1>1, TradableFacts DEF NewRun, Running, RunRecord

(* A run ends with a code that tells what it has not done.                 *)
LEMMA EndsKeeps ==
  ASSUME RunInv, NEW code \in Nat \ {Running}, Ends(code), UNCHANGED <<runs, rows>>,
         run.pc # "idle", run.dry => run.pc = "reading",
         code \in {2, 3} => run.pc = "reading",
         code = 0 => run.pc = "reading",
         code = Killed \/ run.pc # "ending"
  PROVE  RunInv'
<1>1. run' = [run EXCEPT !.pc = "idle", !.exit = code, !.connected = FALSE]
  BY DEF Ends
<1>2. RunTypes'
  BY <1>1 DEF RunInv, RunRecord, RunTypes
<1>3. RunSoFar'
  BY <1>1 DEF RunInv, RunRecord, RunTypes, RunSoFar
<1>4. ExitTellsRun'
  BY <1>1 DEF RunInv, RunRecord, RunTypes, RunSoFar, ExitTellsRun, Killed
<1>5. QED
  BY <1>2, <1>3, <1>4 DEF RunInv

(* A run goes on: to a state of its own that is not the end.               *)
LEMMA GoesOn ==
  ASSUME RunTypes', RunSoFar', run'.pc # "idle"
  PROVE  RunInv'
BY DEF RunInv, ExitTellsRun, RunRecord, RunTypes

LEMMA StartRunKeeps ==
  ASSUME RunInv, StartRun
  PROVE  RunInv'
<1>1. PICK dry \in BOOLEAN, records \in BOOLEAN :
        run' = IF \E f \in ToSet(ReadOrder) : files[f] = Missing
                 THEN [NewRun(dry, records) EXCEPT !.pc = "idle", !.exit = 2]
                 ELSE NewRun(dry, records)
  BY DEF StartRun
<1>2. runs' = runs + 1 /\ rows' = rows /\ runs' \notin rows' /\ rows' \subseteq 1..runs'
      /\ runs' \in Nat /\ runs' > 0
  BY DEF StartRun, RunInv, RunRecord, RunTypes
<1>3. CASE run' = NewRun(dry, records)
  <2>1. RunTypes' /\ RunSoFar' /\ run'.pc # "idle"
    BY <1>2, <1>3, NewRunFacts DEF RunTypes, RunSoFar
  <2>2. QED
    BY <2>1, GoesOn
<1>4. CASE run' = [NewRun(dry, records) EXCEPT !.pc = "idle", !.exit = 2]
  <2> DEFINE r == NewRun(dry, records)
  <2>1. RunTypes'
    <3>1. r \in RunRecord /\ run' = [r EXCEPT !.pc = "idle", !.exit = 2]
      BY <1>4, NewRunFacts
    <3> HIDE DEF r
    <3>2. run' \in RunRecord /\ run'.pc = "idle"
      BY <3>1 DEF RunRecord
    <3>3. QED
      BY <1>2, <3>2 DEF RunTypes
  <2>2. RunSoFar' /\ ExitTellsRun'
    BY <1>2, <1>4, NewRunFacts DEF RunRecord, RunSoFar, ExitTellsRun
  <2>3. QED
    BY <2>1, <2>2 DEF RunInv
<1>5. QED
  BY <1>1, <1>3, <1>4

(* Up to the pipeline.                                                     *)
LEMMA BeforePipelineKeeps ==
  ASSUME RunInv,
         Read \/ ReadRaises \/ NothingToReplay \/ Preview \/ NotConnected
           \/ ConnectRun \/ Trim \/ TrimRaises
  PROVE  RunInv'
<1> USE DEF Elsewhere
<1>1. CASE Read
  <2>1. /\ run' = [run EXCEPT !.quiet = @ /\ trusted /\ refresh.pc # "writing"]
        /\ UNCHANGED <<runs, rows>> /\ run.pc = "reading"
    BY <1>1 DEF Read
  <2>2. /\ run'.quiet \in BOOLEAN
    BY <2>1 DEF RunInv, RunRecord, RunTypes
  <2>3. RunTypes'
    BY <2>1, <2>2 DEF RunInv, RunRecord, RunTypes
  <2>4. RunSoFar' /\ run'.pc # "idle"
    BY <2>1 DEF RunInv, RunRecord, RunTypes, RunSoFar
  <2>5. QED
    BY <2>3, <2>4, GoesOn
<1>2. CASE ReadRaises
  BY <1>2, EndsKeeps DEF ReadRaises, Running
<1>3. CASE NothingToReplay
  BY <1>3, EndsKeeps DEF NothingToReplay, Running
<1>4. CASE Preview
  BY <1>4, EndsKeeps DEF Preview, Running
<1>5. CASE NotConnected
  <2>1. PICK code \in {2, 3} : Ends(code)
    BY <1>5 DEF NotConnected
  <2>2. QED
    BY <2>1, <1>5, EndsKeeps DEF NotConnected, Running
<1>6. CASE ConnectRun
  BY <1>6, GoesOn DEF ConnectRun, RunInv, RunRecord, RunTypes, RunSoFar
<1>7. CASE Trim
  BY <1>7, GoesOn DEF Trim, RunInv, RunRecord, RunTypes, RunSoFar
<1>8. CASE TrimRaises
  BY <1>8, EndsKeeps DEF TrimRaises, Running, RunInv, RunSoFar
<1>9. QED
  BY <1>1, <1>2, <1>3, <1>4, <1>5, <1>6, <1>7, <1>8
-----------------------------------------------------------------------------
(* The pipeline, and what follows it.                                      *)
LEMMA PipelineKeeps ==
  ASSUME RunInv, AccountTypes,
         StartRow \/ NothingToOrder \/ PlaceOrder \/ Settle \/ GiveUp \/ PipelineRaises
           \/ PipelineReturns
  PROVE  RunInv'
<1> USE DEF Elsewhere
<1>1. CASE StartRow
  <2>1. PICK d \in Replayed :
          run' = [run EXCEPT !.day = d, !.left = Tradables, !.stale = @ \/ Stale(d)]
    BY <1>1 DEF StartRow
  <2>2. d \in Int /\ (run.stale \/ Stale(d)) \in BOOLEAN
    BY DEF Replayed, SignalDays, Window, RunInv, RunRecord, RunTypes
  <2>3. run' \in RunRecord /\ run'.pc = "trading"
    BY <1>1, <2>1, <2>2, TradableFacts DEF StartRow, RunInv, RunRecord, RunTypes
  <2>4. RunTypes' /\ RunSoFar'
    BY <1>1, <2>1, <2>3, TradableFacts DEF StartRow, RunInv, RunRecord, RunTypes, RunSoFar
  <2>5. QED
    BY <2>3, <2>4, GoesOn
<1>2. CASE NothingToOrder
  <2>1. /\ run.left \in Seq(Symbols) /\ run.left # <<>> /\ run.left \in Seq(Steps)
        /\ run.pc = "trading"
    BY <1>2 DEF NothingToOrder, RunInv, RunSoFar, RunTypes, RunRecord
  <2>2. Tail(run.left) \in Seq(Symbols) /\ Tail(run.left) \in Seq(Steps)
    BY <2>1, TailFacts
  <2>3. QED
    BY <1>2, <2>1, <2>2, GoesOn DEF NothingToOrder, RunInv, RunRecord, RunTypes, RunSoFar
<1>3. CASE PlaceOrder
  <2>1. /\ run.left \in Seq(Symbols) /\ run.left # <<>> /\ run.left \in Seq(Steps)
        /\ run.pc = "trading"
    BY <1>3 DEF PlaceOrder, RunInv, RunSoFar, RunTypes, RunRecord
  <2>2. /\ Tail(run.left) \in Seq(Symbols) /\ Tail(run.left) \in Seq(Steps)
        /\ Head(run.left) \in Symbols
    BY <2>1, TailFacts
  <2>3. PICK target, o :
          /\ target \in Targets
          /\ o = [id |-> placed + 1, sym |-> Head(run.left),
                  qty |-> target - view[Head(run.left)], by |-> "run"]
          /\ run' = [run EXCEPT !.pc = "waiting", !.order = o, !.fate = "working",
                                !.sent = TRUE, !.left = Tail(@)]
    BY <1>3 DEF PlaceOrder
  <2>4. o \in VenueOrders
    <3>1. view[Head(run.left)] \in Int /\ target \in Int /\ placed \in Nat
      BY <2>2, <2>3, CaptureAssumption DEF AccountTypes
    <3>2. QED
      BY <2>2, <2>3, <3>1 DEF VenueOrders
  <2>5. QED
    BY <1>3, <2>1, <2>2, <2>3, <2>4, GoesOn
       DEF PlaceOrder, RunInv, RunRecord, RunTypes, RunSoFar
<1>4. CASE Settle
  BY <1>4, TradableFacts, GoesOn
     DEF Settle, BackToTrading, RunInv, RunRecord, RunTypes, RunSoFar
<1>5. CASE GiveUp
  BY <1>5, TradableFacts, GoesOn
     DEF GiveUp, BackToTrading, RunInv, RunRecord, RunTypes, RunSoFar
<1>6. CASE PipelineRaises
  BY <1>6, EndsKeeps DEF PipelineRaises, Running, RunInv, RunSoFar
<1>7. CASE PipelineReturns
  <2>1. Epilogue \in Seq(Steps)
    BY DEF Epilogue, Steps
  <2>2. QED
    BY <1>7, <2>1, GoesOn DEF PipelineReturns, RunInv, RunRecord, RunTypes, RunSoFar
<1>8. QED
  BY <1>1, <1>2, <1>3, <1>4, <1>5, <1>6, <1>7

(* What the steps left say of the one that is next.                        *)
LEMMA EpilogueFacts ==
  ASSUME RunInv, run.pc = "ending"
  PROVE  /\ At("append") => Tail(run.left) = <<"disconnect">>
         /\ At("disconnect") =>
              Tail(run.left) = <<>> /\ (run.records => runs \in rows)
         /\ run.left = <<>> => (run.records => runs \in rows) /\ ~run.connected
<1>1. /\ Epilogue # <<>> /\ Head(Epilogue) = "append" /\ Tail(Epilogue) = <<"disconnect">>
      /\ <<"disconnect">> # <<>> /\ Head(<<"disconnect">>) = "disconnect"
      /\ Tail(<<"disconnect">>) = <<>>
  BY DEF Epilogue
<1>2. QED
  BY <1>1 DEF RunInv, RunSoFar, At

LEMMA EpilogueKeeps ==
  ASSUME RunInv, AppendRow \/ AppendRaises \/ Disconnect \/ DisconnectRaises \/ Return
  PROVE  RunInv'
<1> USE DEF Elsewhere
<1>1. /\ run.pc = "ending" /\ ~run.dry /\ runs' = runs
      /\ <<"disconnect">> \in Seq(Steps) /\ <<>> \in Seq(Steps)
  <2>1. run.pc = "ending" /\ runs' = runs
    BY DEF AppendRow, AppendRaises, Disconnect, DisconnectRaises, Return, At
  <2>2. QED
    BY <2>1 DEF RunInv, RunSoFar, Steps
<1>2. CASE AppendRow
  <2>1. /\ run' = [run EXCEPT !.left = <<"disconnect">>]
        /\ rows' = IF run.records THEN rows \cup {runs} ELSE rows
    BY <1>1, <1>2, EpilogueFacts DEF AppendRow
  <2>2. rows' \subseteq 1..runs' /\ (run.records => runs' \in rows')
    BY <2>1, <1>1 DEF RunInv, RunTypes
  <2>3. QED
    BY <1>1, <2>1, <2>2, GoesOn DEF RunInv, RunRecord, RunTypes, RunSoFar
<1>3. CASE Disconnect
  BY <1>1, <1>3, EpilogueFacts, GoesOn DEF Disconnect, RunInv, RunRecord, RunTypes, RunSoFar
<1>4. CASE AppendRaises
  <2>1. RunTypes' /\ RunSoFar'
    BY <1>1, <1>4 DEF AppendRaises, RunInv, RunRecord, RunTypes, RunSoFar
  <2>2. ExitTellsRun'
    BY <1>1, <1>4 DEF AppendRaises, RunInv, RunRecord, RunTypes, RunSoFar, ExitTellsRun
  <2>3. QED
    BY <2>1, <2>2 DEF RunInv
<1>5. CASE DisconnectRaises
  <2>1. run.records => runs \in rows
    BY <1>1, <1>5, EpilogueFacts DEF DisconnectRaises
  <2>2. RunTypes' /\ RunSoFar'
    BY <1>1, <1>5 DEF DisconnectRaises, RunInv, RunRecord, RunTypes, RunSoFar
  <2>3. ExitTellsRun'
    BY <1>1, <1>5, <2>1 DEF DisconnectRaises, RunInv, RunRecord, RunTypes, ExitTellsRun
  <2>4. QED
    BY <2>2, <2>3 DEF RunInv
<1>6. CASE Return
  <2>1. (run.records => runs \in rows) /\ ~run.connected
    BY <1>1, <1>6, EpilogueFacts DEF Return
  <2>2. RunTypes' /\ RunSoFar'
    BY <1>1, <1>6 DEF Return, RunInv, RunRecord, RunTypes, RunSoFar
  <2>3. ExitTellsRun'
    BY <1>1, <1>6, <2>1 DEF Return, RunInv, RunRecord, RunTypes, ExitTellsRun
  <2>4. QED
    BY <2>2, <2>3 DEF RunInv
<1>7. QED
  BY <1>2, <1>3, <1>4, <1>5, <1>6

(* The venue changes the fate of the order and nothing else.               *)
LEMMA VenueKeepsRun ==
  ASSUME RunInv, NEW o \in working, VenueFills(o) \/ VenueDrops(o)
  PROVE  RunInv'
<1>1. \E fate \in {"filled", "dead"} : run' = [run EXCEPT !.fate = fate] \/ run' = run
  BY DEF VenueFills, VenueDrops, Told
<1>2. UNCHANGED <<runs, rows>>
  BY DEF VenueFills, VenueDrops
<1>3. RunTypes'
  BY <1>1, <1>2 DEF RunInv, RunRecord, RunTypes
<1>4. RunSoFar' /\ ExitTellsRun'
  BY <1>1, <1>2 DEF RunInv, RunRecord, RunTypes, RunSoFar, ExitTellsRun
<1>5. QED
  BY <1>3, <1>4 DEF RunInv

LEMMA CaptureKeepsRun ==
  ASSUME RunInv, AccountTypes, CaptureNext
  PROVE  RunInv'
<1>1. CASE KillRun
  BY <1>1, EndsKeeps DEF KillRun, Killed, Running, Elsewhere, RunInv, RunSoFar
<1>2. QED
  BY <1>1, StartRunKeeps, BeforePipelineKeeps, PipelineKeeps, EpilogueKeeps DEF CaptureNext
-----------------------------------------------------------------------------
(* What a run read in quiet came in the order it was written, and is still *)
(* no newer than any file as long as every refresh is whole.               *)
QuietRead ==
  /\ input \in Seq([gen : Nat, whole : BOOLEAN]) /\ Len(input) <= Len(ReadOrder)
  /\ run.pc \notin {"idle", "reading"} => Len(input) = Len(ReadOrder)
  /\ run.quiet => \A i, j \in 1..Len(input) : i <= j => input[i].gen <= input[j].gen
  /\ run.quiet /\ trusted =>
       \A i \in 1..Len(input), f \in Files : input[i].gen <= files[f].gen

ReadInv == QuietRead /\ StaleBarsNeedATear

LEMMA ReadOrderFacts ==
  /\ ReadOrder \in Seq(Files) /\ Len(ReadOrder) = Len(Tradables) + 1
BY TradableFacts DEF ReadOrder, Files

(* A file is read: the newest thing read so far.                           *)
LEMMA ReadKeepsRead ==
  ASSUME RunInv, RefreshInv, ReadInv, Read, UNCHANGED refreshVars
  PROVE  ReadInv'
<1> DEFINE n == Len(input)  r == files[ReadOrder[n + 1]]
<1>1. /\ n \in Nat /\ n < Len(ReadOrder) /\ run.pc = "reading"
      /\ ReadOrder[n + 1] \in Files /\ input' = Append(input, r)
      /\ files' = files /\ trusted' = trusted
      /\ run'.pc = run.pc /\ run'.stale = run.stale
      /\ run'.quiet <=> run.quiet /\ trusted /\ refresh.pc # "writing"
  <2>1. /\ n < Len(ReadOrder) /\ run.pc = "reading" /\ input' = Append(input, r)
        /\ files' = files /\ trusted' = trusted
        /\ run' = [run EXCEPT !.quiet = @ /\ trusted /\ refresh.pc # "writing"]
    BY DEF Read, NextFile, refreshVars
  <2>2. n \in Nat
    BY DEF ReadInv, QuietRead
  <2>3. ReadOrder[n + 1] \in Files
    BY <2>1, <2>2, ReadOrderFacts
  <2>4. run \in RunRecord
    BY DEF RunInv, RunTypes
  <2>5. /\ run'.pc = run.pc /\ run'.stale = run.stale
        /\ run'.quiet = (run.quiet /\ trusted /\ refresh.pc # "writing")
    BY <2>1, <2>4 DEF RunRecord
  <2>6. QED
    BY <2>1, <2>2, <2>3, <2>5
<1>2. /\ r \in [gen : Nat, whole : BOOLEAN]
      /\ \A f \in Files : files[f].gen \in Nat
  BY <1>1 DEF RefreshInv, RefreshTypes
<1>3. /\ input' \in Seq([gen : Nat, whole : BOOLEAN]) /\ Len(input') = n + 1
      /\ input'[n + 1] = r /\ \A i \in 1..n : input'[i] = input[i]
  BY <1>1, <1>2 DEF ReadInv, QuietRead
<1>4. run'.quiet => \A f \in Files : files[f].gen = r.gen
  BY <1>1 DEF RefreshInv, RefreshIsWhole, Missing, Written
<1>5. run'.quiet => \A i \in 1..n : input[i].gen <= r.gen
  BY <1>1 DEF ReadInv, QuietRead
<1>6. run'.quiet =>
        \A i, j \in 1..Len(input') : i <= j => input'[i].gen <= input'[j].gen
  <2> SUFFICES ASSUME run'.quiet, NEW i \in 1..(n + 1), NEW j \in 1..(n + 1), i <= j
               PROVE  input'[i].gen <= input'[j].gen
    BY <1>3
  <2>1. CASE j = n + 1
    <3>1. i \in 1..n \/ i = n + 1
      BY <1>1
    <3>2. QED
      BY <2>1, <3>1, <1>2, <1>3, <1>5
  <2>2. CASE j # n + 1
    <3>1. i \in 1..n /\ j \in 1..n
      BY <2>2, <1>1
    <3>2. QED
      BY <3>1, <1>1, <1>3 DEF ReadInv, QuietRead
  <2>3. QED
    BY <2>1, <2>2
<1>7. run'.quiet /\ trusted' =>
        \A i \in 1..Len(input'), f \in Files : input'[i].gen <= files'[f].gen
  <2> SUFFICES ASSUME run'.quiet, NEW i \in 1..(n + 1), NEW f \in Files
               PROVE  input'[i].gen <= files[f].gen
    BY <1>1, <1>3
  <2>1. i \in 1..n \/ i = n + 1
    BY <1>1
  <2>2. QED
    BY <2>1, <1>2, <1>3, <1>4, <1>5
<1>8. QED
  BY <1>1, <1>3, <1>6, <1>7 DEF ReadInv, QuietRead, StaleBarsNeedATear

(* A day that is replayed has bars of its own in everything read in quiet. *)
LEMMA QuietDaysAreFresh ==
  ASSUME ReadInv, run.quiet, run.pc = "trading", NEW d \in Replayed
  PROVE  ~Stale(d)
<1>1. /\ Len(input) = Len(Tradables) + 1 /\ Len(Tradables) \in Nat /\ Len(Tradables) >= 1
      /\ \A i \in 1..Len(input) : input[i].gen \in Nat
  <2>1. input \in Seq([gen : Nat, whole : BOOLEAN]) /\ Len(input) = Len(ReadOrder)
    BY DEF ReadInv, QuietRead
  <2>2. \A i \in 1..Len(input) : input[i] \in [gen : Nat, whole : BOOLEAN]
    BY <2>1, ElementFacts
  <2>3. QED
    BY <2>1, <2>2, ReadOrderFacts, TradableFacts
<1>2. d \in Nat /\ d <= input[1].gen
  BY <1>1 DEF Replayed, SignalDays, Window, LastDay
<1>3. \A i \in 1..Len(Tradables) : input[1].gen <= input[i].gen
  BY <1>1 DEF ReadInv, QuietRead
<1>4. QED
  BY <1>1, <1>2, <1>3 DEF Stale

LEMMA CaptureKeepsRead ==
  ASSUME RunInv, RefreshInv, ReadInv, CaptureNext, UNCHANGED refreshVars
  PROVE  ReadInv'
<1>1. files' = files /\ trusted' = trusted
  BY DEF refreshVars
<1>2. CASE Read
  BY <1>2, ReadKeepsRead
<1>3. CASE StartRun
  <2>1. input' = <<>> /\ input' \in Seq([gen : Nat, whole : BOOLEAN]) /\ Len(input') = 0
    BY <1>3 DEF StartRun
  <2>2. PICK dry \in BOOLEAN, records \in BOOLEAN :
          run' = IF \E f \in ToSet(ReadOrder) : files[f] = Missing
                   THEN [NewRun(dry, records) EXCEPT !.pc = "idle", !.exit = 2]
                   ELSE NewRun(dry, records)
    BY <1>3 DEF StartRun
  <2>3. run'.pc \in {"idle", "reading"} /\ ~run'.stale
    BY <2>2, NewRunFacts DEF RunRecord
  <2>4. QED
    BY <2>1, <2>3, ReadOrderFacts, TradableFacts DEF ReadInv, QuietRead, StaleBarsNeedATear
<1>4. CASE StartRow
  <2>1. PICK d \in Replayed :
          run' = [run EXCEPT !.day = d, !.left = Tradables, !.stale = @ \/ Stale(d)]
    BY <1>4 DEF StartRow
  <2>2. /\ run'.quiet = run.quiet /\ run'.pc = run.pc /\ input' = input
        /\ run'.stale => run.stale \/ Stale(d)
    BY <1>4, <2>1 DEF StartRow, Elsewhere, RunInv, RunTypes, RunRecord
  <2>3. StaleBarsNeedATear'
    BY <1>4, <2>2, QuietDaysAreFresh DEF StartRow, ReadInv, StaleBarsNeedATear
  <2>4. QED
    BY <1>1, <2>2, <2>3 DEF ReadInv, QuietRead
<1>5. ASSUME CaptureNext, ~Read, ~StartRun, ~StartRow
      PROVE  /\ input' = input /\ run'.quiet = run.quiet /\ run'.stale = run.stale
             /\ run'.pc \notin {"idle", "reading"} =>
                  run.pc \notin {"idle", "reading"} \/ Len(input) = Len(ReadOrder)
  BY <1>5 DEF CaptureNext, ReadRaises, NothingToReplay, Preview, NotConnected, ConnectRun,
     Trim, TrimRaises, NothingToOrder, PlaceOrder, Settle, GiveUp, BackToTrading,
     PipelineRaises, PipelineReturns, AppendRow, AppendRaises, Disconnect, DisconnectRaises,
     Return, KillRun, At, Ends, Elsewhere, RunInv, RunTypes, RunRecord
<1>6. CASE ~Read /\ ~StartRun /\ ~StartRow
  BY <1>1, <1>5, <1>6 DEF ReadInv, QuietRead, StaleBarsNeedATear
<1>7. QED
  BY <1>2, <1>3, <1>4, <1>6

(* Refreshes never take a file back.                                       *)
LEMMA RefreshKeepsRead ==
  ASSUME RefreshInv, ReadInv, RefreshNext, UNCHANGED captureVars
  PROVE  ReadInv'
<1>1. run' = run /\ input' = input
  BY DEF captureVars, runVars
<1>2. trusted' => trusted
  BY DEF RefreshNext, StartAll, StartOne, Starts, Unusable, Fetch, FetchFails, NoSignals,
     DryRunEnds, BeginWrites, NoDirectory, WriteFile, WriteFails, Validate, KillRefresh, Exit
<1>3. \A f \in Files : files[f].gen \in Nat /\ files[f].gen <= generation /\ generation \in Nat
  BY DEF RefreshInv, RefreshTypes
<1>4. \/ files' = files
      \/ /\ Head(todo) \in Files
         /\ files' \in {[files EXCEPT ![Head(todo)] = Written(generation)],
                        [files EXCEPT ![Head(todo)] = Torn(generation)]}
  <2>1. CASE refresh.pc = "writing" /\ todo # <<>>
    <3>1. Head(todo) \in Files
      BY <2>1, TailFacts DEF RefreshInv, RefreshTypes
    <3>2. QED
      BY <3>1 DEF RefreshNext, StartAll, StartOne, Starts, Unusable, Fetch, FetchFails,
         NoSignals, DryRunEnds, BeginWrites, NoDirectory, WriteFile, WriteFails, Validate,
         KillRefresh, Interrupted
  <2>2. CASE ~(refresh.pc = "writing" /\ todo # <<>>)
    BY <2>2 DEF RefreshNext, StartAll, StartOne, Starts, Unusable, Fetch, FetchFails,
       NoSignals, DryRunEnds, BeginWrites, NoDirectory, WriteFile, WriteFails, Validate,
       KillRefresh
  <2>3. QED
    BY <2>1, <2>2
<1>5. \A f \in Files : files[f].gen <= files'[f].gen /\ files'[f].gen \in Nat
  <2> TAKE f \in Files
  <2>1. CASE files' = files
    BY <2>1, <1>3
  <2>2. CASE files' = [files EXCEPT ![Head(todo)] = Written(generation)]
    BY <2>2, <1>3 DEF Written, RefreshInv, RefreshTypes
  <2>3. CASE files' = [files EXCEPT ![Head(todo)] = Torn(generation)]
    BY <2>3, <1>3 DEF Torn, RefreshInv, RefreshTypes
  <2>4. QED
    BY <1>4, <2>1, <2>2, <2>3
<1>6. run.quiet /\ trusted' =>
        \A i \in 1..Len(input), f \in Files : input[i].gen <= files'[f].gen
  <2> SUFFICES ASSUME run.quiet, trusted', NEW i \in 1..Len(input), NEW f \in Files
               PROVE  input[i].gen <= files'[f].gen
    OBVIOUS
  <2>1. input[i].gen <= files[f].gen /\ input \in Seq([gen : Nat, whole : BOOLEAN])
    BY <1>2 DEF ReadInv, QuietRead
  <2>2. input[i] \in [gen : Nat, whole : BOOLEAN]
    BY <2>1, ElementFacts
  <2>3. QED
    BY <2>1, <2>2, <1>3, <1>5
<1>7. QED
  BY <1>1, <1>6 DEF ReadInv, QuietRead, StaleBarsNeedATear
-----------------------------------------------------------------------------
(* A clean run is the only one to move the account: between orders its     *)
(* view is the position, and in between they differ by the order's fill.   *)
OneView ==
  clean =>
    /\ run.pc \in {"reading", "trimming"} => view = Flat /\ position = Flat /\ working = {}
    /\ run.pc \in {"trading", "ending"} /\ ~run.lost => working = {} /\ view = position
    /\ run.pc = "waiting" /\ ~run.lost =>
         /\ run.order \in VenueOrders
         /\ \/ run.fate = "working" /\ working = {run.order} /\ view = position
            \/ run.fate = "filled" /\ working = {} /\ position = Booked
            \/ run.fate = "dead" /\ working = {} /\ view = position

LEMMA CaptureKeepsView ==
  ASSUME RunInv, AccountTypes, OneView, CaptureStep
  PROVE  OneView'
<1>1. run \in RunRecord
  BY DEF RunInv, RunTypes
<1>2. CASE StartRun
  <2>1. PICK dry \in BOOLEAN, records \in BOOLEAN :
          run' = IF \E f \in ToSet(ReadOrder) : files[f] = Missing
                   THEN [NewRun(dry, records) EXCEPT !.pc = "idle", !.exit = 2]
                   ELSE NewRun(dry, records)
    BY <1>2 DEF StartRun
  <2>2. run'.pc \in {"idle", "reading"}
    BY <2>1, NewRunFacts DEF RunRecord
  <2>3. /\ runs' # runs /\ view' = Flat /\ position' = position /\ working' = working
        /\ clean' = (position = Flat /\ working = {})
    BY <1>2 DEF StartRun, venueVars, CaptureStep, RunInv, RunTypes
  <2>4. QED
    BY <2>2, <2>3 DEF OneView
<1>3. CASE PlaceOrder
  <2>1. PICK o :
          /\ run' = [run EXCEPT !.pc = "waiting", !.order = o, !.fate = "working",
                                !.sent = TRUE, !.left = Tail(@)]
          /\ working' = working \cup {o}
    BY <1>3 DEF PlaceOrder
  <2>2. /\ run'.pc = "waiting" /\ run'.order = o /\ run'.fate = "working"
        /\ run'.lost = run.lost /\ run.pc = "trading"
        /\ runs' = runs /\ view' = view /\ position' = position
    BY <1>1, <1>3, <2>1 DEF PlaceOrder, RunRecord
  <2>3. clean' = clean
    BY <2>2 DEF CaptureStep
  <2>4. run'.order \in VenueOrders
    BY <1>3, CaptureKeepsRun DEF CaptureStep, RunInv, RunTypes, RunRecord
  <2>5. QED
    BY <2>1, <2>2, <2>3, <2>4 DEF OneView
<1>4. CASE Settle
  <2>1. /\ run'.pc = "trading" /\ run'.lost = run.lost /\ run.pc = "waiting"
        /\ run.fate # "working" /\ view' = Booked
        /\ runs' = runs /\ position' = position /\ working' = working
    BY <1>1, <1>4 DEF Settle, BackToTrading, RunRecord, venueVars
  <2>2. clean' = clean
    BY <2>1 DEF CaptureStep
  <2>3. QED
    BY <2>1, <2>2 DEF OneView, Booked
<1>5. CASE GiveUp
  <2>1. run'.pc = "trading" /\ run'.lost /\ runs' = runs
    BY <1>1, <1>5 DEF GiveUp, BackToTrading, RunRecord, Elsewhere
  <2>2. clean' = clean
    BY <2>1 DEF CaptureStep
  <2>3. QED
    BY <2>1, <2>2 DEF OneView
<1>6. CASE ~StartRun /\ ~PlaceOrder /\ ~Settle /\ ~GiveUp
  <2>1. CaptureNext
    BY DEF CaptureStep
  <2>2. /\ runs' = runs /\ view' = view /\ position' = position /\ working' = working
        /\ run'.lost = run.lost
        /\ \/ run'.pc = "idle" \/ run'.pc = run.pc
           \/ run.pc = "reading" /\ run'.pc = "trimming"
           \/ run.pc = "trimming" /\ run'.pc = "trading"
           \/ run.pc = "trading" /\ run'.pc = "ending"
        /\ run'.fate = run.fate /\ run'.order = run.order
    BY <1>1, <1>6, <2>1 DEF CaptureNext, Read, ReadRaises, NothingToReplay, Preview,
       NotConnected, ConnectRun, Trim, TrimRaises, StartRow, NothingToOrder, PipelineRaises,
       PipelineReturns, AppendRow, AppendRaises, Disconnect, DisconnectRaises, Return,
       KillRun, At, Ends, Elsewhere, venueVars, RunRecord
  <2>3. clean' = clean
    BY <2>2 DEF CaptureStep
  <2>4. QED
    BY <2>2, <2>3 DEF OneView, Booked
<1>7. QED
  BY <1>2, <1>3, <1>4, <1>5, <1>6

LEMMA VenueKeepsView ==
  ASSUME RunInv, AccountTypes, OneView, VenueStep
  PROVE  OneView'
<1>1. PICK o \in working : VenueFills(o) \/ VenueDrops(o)
  BY DEF VenueStep
<1>2. run \in RunRecord /\ clean' = clean /\ view' = view /\ working' = working \ {o}
  BY <1>1 DEF RunInv, RunTypes, VenueStep, VenueFills, VenueDrops
<1> SUFFICES ASSUME clean PROVE OneView'
  BY <1>2 DEF OneView
<1>3. /\ run'.pc = run.pc /\ run'.lost = run.lost /\ run'.order = run.order
  BY <1>1, <1>2 DEF VenueFills, VenueDrops, Told, RunRecord
<1>4. CASE run.pc = "waiting" /\ ~run.lost
  <2>1. run.fate = "working" /\ o = run.order /\ view = position /\ working' = {}
    BY <1>2, <1>4 DEF OneView
  <2>2. CASE VenueFills(o)
    <3>1. run'.fate = "filled"
      BY <1>2, <2>1, <2>2 DEF VenueFills, Told, RunRecord
    <3>2. position' = Booked'
      BY <1>2, <1>3, <2>1, <2>2, <3>1 DEF VenueFills, Booked
    <3>3. QED
      BY <1>3, <1>4, <2>1, <3>1, <3>2 DEF OneView
  <2>3. CASE VenueDrops(o)
    <3>1. run'.fate = "dead" /\ position' = position
      BY <1>2, <2>1, <2>3 DEF VenueDrops, Told, RunRecord
    <3>2. QED
      BY <1>2, <1>3, <1>4, <2>1, <3>1 DEF OneView
  <2>4. QED
    BY <1>1, <2>2, <2>3
<1>5. CASE ~(run.pc = "waiting" /\ ~run.lost)
  BY <1>2, <1>3, <1>5 DEF OneView
<1>6. QED
  BY <1>4, <1>5

LEMMA FlattenKeepsView ==
  ASSUME OneView, FlattenNext
  PROVE  OneView'
<1>1. /\ run' = run /\ view' = view /\ position' = position
      /\ clean' => clean /\ working' = working
  BY DEF FlattenNext, FlattenRefused, FlattenConnects, StartFlatten, FlattenReports,
     FlattenSubmits, FlattenEnds, captureVars, runVars, venueVars
<1>2. QED
  BY <1>1 DEF OneView, Booked
-----------------------------------------------------------------------------
(* Alone, flatten's orders are one for each symbol it saw, each at work    *)
(* for all of the position or done with it.                                *)
OneOrderEach ==
  /\ \A s \in Symbols :
       (flatten.seen[s] = 0 /\ position[s] = 0) \/ \E o \in flatten.orders : o.sym = s
  /\ \A o, p \in flatten.orders : o.sym = p.sym => o = p
  /\ \A o \in working : position[o.sym] = -o.qty
  /\ \A o \in flatten.filled : o \notin working /\ position[o.sym] = 0

Sweeping ==
  /\ flatten.filled \subseteq flatten.orders
  /\ \A o \in flatten.orders : o.by = "flatten"
  /\ flatten.pc = "connected" => flatten.orders = {}
  /\ alone => working \subseteq flatten.orders
  /\ alone /\ flatten.pc = "connected" => position = flatten.seen
  /\ alone /\ flatten.pc # "connected" => OneOrderEach

LEMMA CaptureKeepsSweep ==
  ASSUME Sweeping, CaptureStep
  PROVE  Sweeping'
<1>1. /\ flatten' = flatten
      /\ alone' = (alone /\ working' \subseteq flatten.orders)
  BY DEF CaptureStep
<1>2. position' = position
  BY DEF CaptureStep, CaptureNext, StartRun, Read, ReadRaises, NothingToReplay, Preview,
     NotConnected, ConnectRun, Trim, TrimRaises, StartRow, NothingToOrder, PlaceOrder,
     Settle, GiveUp, PipelineRaises, PipelineReturns, AppendRow, AppendRaises, Disconnect,
     DisconnectRaises, Return, KillRun, Elsewhere, venueVars
<1>3. working' = working \/ \E o \in working' : o.by = "run"
  <2>1. CASE PlaceOrder
    <3>1. PICK o : o.by = "run" /\ working' = working \cup {o}
      BY <2>1 DEF PlaceOrder
    <3>2. QED
      BY <3>1
  <2>2. CASE ~PlaceOrder
    BY <2>2 DEF CaptureStep, CaptureNext, StartRun, Read, ReadRaises, NothingToReplay,
       Preview, NotConnected, ConnectRun, Trim, TrimRaises, StartRow, NothingToOrder,
       Settle, GiveUp, PipelineRaises, PipelineReturns, AppendRow, AppendRaises,
       Disconnect, DisconnectRaises, Return, KillRun, Elsewhere, venueVars
  <2>3. QED
    BY <2>1, <2>2
<1>4. alone' => alone /\ working' = working
  BY <1>1, <1>3 DEF Sweeping
<1>5. QED
  BY <1>1, <1>2, <1>4 DEF Sweeping, OneOrderEach

LEMMA VenueKeepsSweep ==
  ASSUME AccountTypes, Sweeping, VenueStep
  PROVE  Sweeping'
<1>1. PICK o \in working :
        \/ VenueFills(o) /\ Hears(o)
        \/ VenueDrops(o) /\ UNCHANGED flatten
  BY DEF VenueStep
<1>2. /\ alone' = alone /\ working' = working \ {o} /\ o \in VenueOrders
      /\ flatten'.pc = flatten.pc /\ flatten'.seen = flatten.seen
      /\ flatten'.orders = flatten.orders
      /\ flatten'.filled \subseteq flatten.filled \cup ({o} \cap flatten.orders)
  BY <1>1 DEF VenueStep, VenueFills, VenueDrops, Hears, AccountTypes, FlattenRecord
<1>3. CASE alone
  <2>1. flatten.pc # "connected" /\ OneOrderEach /\ o \in flatten.orders
    BY <1>3 DEF Sweeping
  <2>2. \A p \in working \cup flatten.filled : p # o => p.sym # o.sym
    BY <1>3, <2>1 DEF Sweeping, OneOrderEach
  <2>3. CASE VenueFills(o)
    <3>1. /\ o.sym \in Symbols /\ o.qty \in Int /\ position[o.sym] = -o.qty
          /\ position' = [position EXCEPT ![o.sym] = @ + o.qty]
      BY <1>2, <2>1, <2>3 DEF VenueOrders, VenueFills, OneOrderEach
    <3>2. /\ position'[o.sym] = 0
          /\ \A s : s # o.sym => position'[s] = position[s]
      BY <3>1 DEF AccountTypes, FlattenRecord
    <3>3. OneOrderEach'
      BY <1>2, <2>1, <2>2, <3>1, <3>2 DEF OneOrderEach
    <3>4. QED
      BY <1>2, <1>3, <2>1, <3>3 DEF Sweeping
  <2>4. CASE VenueDrops(o) /\ UNCHANGED flatten
    <3>1. position' = position
      BY <2>4 DEF VenueDrops
    <3>2. OneOrderEach'
      BY <1>2, <2>1, <2>4, <3>1 DEF OneOrderEach
    <3>3. QED
      BY <1>2, <1>3, <2>1, <2>4, <3>2 DEF Sweeping
  <2>5. QED
    BY <1>1, <2>3, <2>4
<1>4. CASE ~alone
  BY <1>2, <1>4 DEF Sweeping
<1>5. QED
  BY <1>3, <1>4

(* The orders of a flatten: one for each position in scope.                *)
LEMMA SubmitKeepsSweep ==
  ASSUME AccountTypes, Sweeping, FlattenSubmits
  PROVE  Sweeping'
<1> DEFINE In == {i \in DOMAIN Tradables : Tradables[i] \in InScope}
           Order(i) == [id |-> placed + i, sym |-> Tradables[i],
                        qty |-> Opposite(Tradables[i]), by |-> "flatten"]
           orders == {Order(i) : i \in In}
<1>1. /\ flatten.pc = "connected" /\ working' = working \cup orders
      /\ flatten' = [flatten EXCEPT !.pc = "settling", !.orders = orders]
      /\ alone' = alone /\ position' = position
  BY DEF FlattenSubmits
<1>2. /\ flatten'.pc = "settling" /\ flatten'.orders = orders
      /\ flatten'.seen = flatten.seen /\ flatten'.filled = {} /\ flatten.orders = {}
  BY <1>1 DEF AccountTypes, FlattenRecord, Sweeping
<1>3. \A o \in orders : \E i \in DOMAIN Tradables :
        /\ o.sym = Tradables[i] /\ o = Order(i) /\ o.by = "flatten"
        /\ o.qty = -flatten.seen[Tradables[i]] /\ Tradables[i] \in Symbols
  BY DEF Opposite, InScope
<1>4. \A o, p \in orders : o.sym = p.sym => o = p
  <2> HIDE DEF orders, Order
  <2> TAKE o, p \in orders
  <2>1. PICK i \in DOMAIN Tradables : o.sym = Tradables[i] /\ o = Order(i)
    BY <1>3
  <2>2. PICK j \in DOMAIN Tradables : p.sym = Tradables[j] /\ p = Order(j)
    BY <1>3
  <2>3. QED
    BY <2>1, <2>2, FlattenAssumption DEF IsInjective
<1>5. \A s \in Symbols : flatten.seen[s] = 0 \/ \E o \in orders : o.sym = s
  <2> SUFFICES ASSUME NEW s \in Symbols, flatten.seen[s] # 0 PROVE \E o \in orders : o.sym = s
    OBVIOUS
  <2>1. PICK i \in DOMAIN Tradables : Tradables[i] = s
    BY DEF Symbols, ToSet
  <2>2. i \in In
    BY <2>1 DEF InScope
  <2>3. Order(i).sym = s /\ Order(i) \in orders
    BY <2>1, <2>2
  <2>4. QED
    BY <2>3
<1> HIDE DEF orders
<1>6. CASE alone
  <2>1. working' = orders /\ position = flatten.seen
    BY <1>1, <1>2, <1>6 DEF Sweeping
  <2>2. \A o \in orders : position[o.sym] = -o.qty
    BY <2>1, <1>3 DEF AccountTypes, FlattenRecord
  <2>3. OneOrderEach'
    BY <1>1, <1>2, <1>4, <1>5, <2>1, <2>2 DEF OneOrderEach
  <2>4. QED
    BY <1>1, <1>2, <1>3, <2>1, <2>3 DEF Sweeping
<1>7. CASE ~alone
  BY <1>1, <1>2, <1>3, <1>7 DEF Sweeping
<1>8. QED
  BY <1>6, <1>7

LEMMA FlattenKeepsSweep ==
  ASSUME AccountTypes, Sweeping, FlattenNext
  PROVE  Sweeping'
<1>1. CASE FlattenRefused
  BY <1>1 DEF FlattenRefused, StartFlatten, Sweeping
<1>2. CASE FlattenConnects
  <2>1. /\ flatten'.pc = "connected" /\ flatten'.orders = {} /\ flatten'.filled = {}
        /\ flatten'.seen = position /\ alone' = (working = {})
        /\ position' = position /\ working' = working
    BY <1>2 DEF FlattenConnects, StartFlatten, captureVars, venueVars
  <2>2. QED
    BY <2>1 DEF Sweeping
<1>3. CASE FlattenReports
  <2>1. /\ ~alone' /\ flatten'.pc = "idle" /\ flatten'.orders = flatten.orders
        /\ flatten'.filled = flatten.filled
    BY <1>3 DEF FlattenReports, AccountTypes, FlattenRecord
  <2>2. QED
    BY <2>1 DEF Sweeping
<1>4. CASE FlattenSubmits
  BY <1>4, SubmitKeepsSweep
<1>5. CASE FlattenEnds
  <2>1. /\ flatten.pc = "settling" /\ flatten'.pc = "idle"
        /\ flatten'.orders = flatten.orders /\ flatten'.seen = flatten.seen
        /\ flatten'.filled = flatten.filled /\ alone' = alone
        /\ position' = position /\ working' = working
    BY <1>5 DEF FlattenEnds, AccountTypes, FlattenRecord, captureVars, venueVars
  <2>2. QED
    BY <2>1 DEF Sweeping, OneOrderEach
<1>6. QED
  BY <1>1, <1>2, <1>3, <1>4, <1>5 DEF FlattenNext
-----------------------------------------------------------------------------
LEMMA CaptureKeepsAccount ==
  ASSUME RunInv, AccountTypes, CaptureStep
  PROVE  AccountTypes'
<1>1. RunInv'
  BY CaptureKeepsRun DEF CaptureStep
<1>2. /\ flatten' = flatten /\ alone' \in BOOLEAN /\ clean' \in BOOLEAN
  BY DEF CaptureStep, AccountTypes
<1>3. CASE StartRun
  BY <1>2, <1>3, TradableFacts DEF StartRun, venueVars, AccountTypes
<1>4. CASE PlaceOrder
  <2>1. PICK o : working' = working \cup {o} /\ run' = [run EXCEPT !.pc = "waiting",
                   !.order = o, !.fate = "working", !.sent = TRUE, !.left = Tail(@)]
    BY <1>4 DEF PlaceOrder
  <2>2. o = run'.order /\ o \in VenueOrders
    BY <1>1, <2>1 DEF RunInv, RunTypes, RunRecord
  <2>3. view' = view /\ position' = position /\ placed' = placed + 1
    BY <1>4 DEF PlaceOrder
  <2>4. QED
    BY <1>2, <2>1, <2>2, <2>3 DEF AccountTypes
<1>5. CASE Settle
  <2>1. view' = Booked /\ UNCHANGED venueVars
    BY <1>5 DEF Settle
  <2>2. run.order.sym \in Symbols /\ run.order.qty \in Int
    BY DEF RunInv, RunTypes, RunRecord, VenueOrders
  <2>3. view' \in [Symbols -> Int]
    BY <2>1, <2>2 DEF Booked, AccountTypes
  <2>4. QED
    BY <1>2, <2>1, <2>3 DEF AccountTypes, venueVars
<1>6. CASE ~StartRun /\ ~PlaceOrder /\ ~Settle
  <2>1. CaptureNext
    BY DEF CaptureStep
  <2>2. view' = view /\ UNCHANGED venueVars
    BY <1>6, <2>1 DEF CaptureNext, Read, ReadRaises, NothingToReplay, Preview,
       NotConnected, ConnectRun, Trim, TrimRaises, StartRow, NothingToOrder, GiveUp,
       PipelineRaises, PipelineReturns, AppendRow, AppendRaises, Disconnect,
       DisconnectRaises, Return, KillRun, Elsewhere
  <2>3. QED
    BY <1>2, <2>2 DEF AccountTypes, venueVars
<1>7. QED
  BY <1>3, <1>4, <1>5, <1>6

LEMMA VenueKeepsAccount ==
  ASSUME AccountTypes, VenueStep
  PROVE  AccountTypes'
<1>1. PICK o \in working :
        \/ VenueFills(o) /\ Hears(o)
        \/ VenueDrops(o) /\ UNCHANGED flatten
  BY DEF VenueStep
<1>2. /\ o \in VenueOrders /\ o.sym \in Symbols /\ o.qty \in Int
      /\ view' = view /\ placed' = placed /\ alone' = alone /\ clean' = clean
      /\ working' \subseteq VenueOrders
      /\ position' = position \/ position' = [position EXCEPT ![o.sym] = @ + o.qty]
  BY <1>1 DEF VenueStep, VenueFills, VenueDrops, AccountTypes, FlattenRecord, VenueOrders
<1>3. position' \in [Symbols -> Int]
  BY <1>2 DEF AccountTypes, FlattenRecord
<1>4. flatten' = flatten \/ flatten' = [flatten EXCEPT !.filled = @ \cup {o}]
  BY <1>1 DEF Hears
<1>5. flatten' \in FlattenRecord
  BY <1>2, <1>4 DEF AccountTypes, FlattenRecord
<1>6. QED
  BY <1>2, <1>3, <1>5 DEF AccountTypes, FlattenRecord

LEMMA FlattenKeepsAccount ==
  ASSUME AccountTypes, FlattenNext
  PROVE  AccountTypes'
<1>1. CASE FlattenRefused \/ FlattenConnects
  <2>1. Flat \in [Symbols -> Int] /\ position \in [Symbols -> Int]
    BY TradableFacts DEF AccountTypes
  <2>2. flatten' \in FlattenRecord
    BY <1>1, <2>1 DEF FlattenRefused, FlattenConnects, StartFlatten, FlattenRecord
  <2>3. alone' \in BOOLEAN
    BY <1>1, Zenon DEF FlattenRefused, FlattenConnects, StartFlatten
  <2>4. UNCHANGED <<clean, captureVars>>
    BY <1>1 DEF FlattenRefused, FlattenConnects, StartFlatten
  <2>5. QED
    BY <2>2, <2>3, <2>4 DEF captureVars, runVars, venueVars, AccountTypes
<1>2. CASE FlattenReports \/ FlattenEnds
  <2>1. flatten' = [flatten EXCEPT !.pc = "idle"] /\ UNCHANGED <<clean, captureVars>>
        /\ alone' \in BOOLEAN
    BY <1>2 DEF FlattenReports, FlattenEnds, AccountTypes
  <2>2. flatten' \in FlattenRecord
    BY <2>1 DEF AccountTypes, FlattenRecord
  <2>3. view' = view /\ position' = position /\ working' = working /\ placed' = placed
        /\ clean' = clean
    BY <2>1 DEF captureVars, runVars, venueVars
  <2>4. QED
    BY <2>1, <2>2, <2>3 DEF AccountTypes
<1>3. CASE FlattenSubmits
  <2> DEFINE orders == {[id |-> placed + i, sym |-> Tradables[i],
                         qty |-> Opposite(Tradables[i]), by |-> "flatten"] :
                          i \in {i \in DOMAIN Tradables : Tradables[i] \in InScope}}
  <2>1. orders \subseteq VenueOrders
    <3> SUFFICES ASSUME NEW i \in DOMAIN Tradables, Tradables[i] \in InScope
                 PROVE  [id |-> placed + i, sym |-> Tradables[i],
                         qty |-> Opposite(Tradables[i]), by |-> "flatten"] \in VenueOrders
      OBVIOUS
    <3>1. i \in Nat /\ placed + i \in Nat /\ Tradables[i] \in Symbols
      <4>1. i \in Nat /\ Tradables[i] \in Symbols
        BY TradableFacts
      <4>2. QED
        BY <4>1 DEF AccountTypes
    <3>2. Opposite(Tradables[i]) \in Int
      BY <3>1 DEF Opposite, AccountTypes, FlattenRecord
    <3>3. QED
      BY <3>1, <3>2 DEF VenueOrders
  <2>2. /\ working' = working \cup orders
        /\ flatten' = [flatten EXCEPT !.pc = "settling", !.orders = orders]
        /\ placed' = placed + Len(Tradables) /\ clean' = FALSE
        /\ alone' = alone /\ view' = view /\ position' = position
    BY <1>3 DEF FlattenSubmits, runVars
  <2> HIDE DEF orders
  <2>3. flatten' \in FlattenRecord
    BY <2>1, <2>2 DEF AccountTypes, FlattenRecord
  <2>4. placed' \in Nat /\ working' \subseteq VenueOrders
    BY <2>1, <2>2, TradableFacts DEF AccountTypes
  <2>5. alone' \in BOOLEAN /\ clean' \in BOOLEAN
    BY <2>2 DEF AccountTypes
  <2>6. QED
    BY <2>2, <2>3, <2>4, <2>5 DEF AccountTypes
<1>4. QED
  BY <1>1, <1>2, <1>3 DEF FlattenNext
-----------------------------------------------------------------------------
CampaignInv == RefreshInv /\ RunInv /\ ReadInv /\ AccountTypes /\ OneView /\ Sweeping

LEMMA InitCampaign ==
  ASSUME RefreshInit, CaptureInit(0, 0), CampaignInit(0)
  PROVE  CampaignInv
<1>1. RefreshInv
  BY RefreshInitHolds
<1>2. /\ run.pc = "idle" /\ run.exit = 2 /\ ~run.sent /\ ~run.traded /\ ~run.stale
      /\ run \in RunRecord
  <2> DEFINE r == NewRun(FALSE, FALSE)
  <2>1. r \in RunRecord /\ ~r.sent /\ ~r.traded /\ ~r.stale
    BY NewRunFacts
  <2>2. run = [r EXCEPT !.pc = "idle", !.exit = 2]
    BY DEF CaptureInit
  <2> HIDE DEF r
  <2>3. QED
    BY <2>1, <2>2 DEF RunRecord
<1>3. runs = 0 /\ rows = {} /\ input = <<>>
  BY DEF CaptureInit
<1>4. RunInv
  BY <1>2, <1>3 DEF RunInv, RunTypes, RunSoFar, ExitTellsRun
<1>5. ReadInv
  <2>1. input \in Seq([gen : Nat, whole : BOOLEAN]) /\ Len(input) = 0
    BY <1>3
  <2>2. QED
    BY <1>2, <2>1, ReadOrderFacts, TradableFacts DEF ReadInv, QuietRead, StaleBarsNeedATear
<1>6. AccountTypes /\ OneView /\ Sweeping
  BY <1>2, TradableFacts DEF CaptureInit, CampaignInit, AccountTypes, FlattenRecord, OneView, Sweeping
<1>7. QED
  BY <1>1, <1>4, <1>5, <1>6 DEF CampaignInv

LEMMA CampaignStep ==
  ASSUME CampaignInv, CampaignNext
  PROVE  CampaignInv'
<1> USE DEF CampaignInv
<1>1. CASE RefreshNext /\ UNCHANGED <<captureVars, flattenVars>>
  <2>1. RefreshInv' /\ ReadInv'
    BY <1>1, RefreshStep, RefreshKeepsRead DEF captureVars
  <2>2. RunInv' /\ AccountTypes' /\ OneView' /\ Sweeping'
    BY <1>1 DEF captureVars, runVars, venueVars, flattenVars, RunInv, RunTypes, RunSoFar,
       ExitTellsRun, AccountTypes, OneView, Booked, Sweeping, OneOrderEach
  <2>3. QED
    BY <2>1, <2>2
<1>2. CASE CaptureStep /\ UNCHANGED refreshVars
  <2>1. RefreshInv'
    BY <1>2, RefreshStutters
  <2>2. RunInv' /\ ReadInv'
    BY <1>2, CaptureKeepsRun, CaptureKeepsRead DEF CaptureStep
  <2>3. AccountTypes' /\ OneView' /\ Sweeping'
    BY <1>2, CaptureKeepsAccount, CaptureKeepsView, CaptureKeepsSweep
  <2>4. QED
    BY <2>1, <2>2, <2>3
<1>3. CASE VenueStep /\ UNCHANGED refreshVars
  <2>1. RefreshInv'
    BY <1>3, RefreshStutters
  <2>2. PICK o \in working : VenueFills(o) \/ VenueDrops(o)
    BY <1>3 DEF VenueStep
  <2>3. RunInv'
    BY <2>2, VenueKeepsRun
  <2>4. input' = input /\ trusted' = trusted /\ files' = files
    BY <1>3, <2>2 DEF VenueFills, VenueDrops, refreshVars
  <2>5. run'.pc = run.pc /\ run'.quiet = run.quiet /\ run'.stale = run.stale
    BY <2>2 DEF VenueFills, VenueDrops, Told, RunInv, RunTypes, RunRecord
  <2>6. ReadInv'
    BY <2>4, <2>5 DEF ReadInv, QuietRead, StaleBarsNeedATear
  <2>7. AccountTypes' /\ OneView' /\ Sweeping'
    BY <1>3, VenueKeepsAccount, VenueKeepsView, VenueKeepsSweep
  <2>8. QED
    BY <2>1, <2>3, <2>6, <2>7
<1>4. CASE FlattenNext /\ UNCHANGED refreshVars
  <2>1. RefreshInv'
    BY <1>4, RefreshStutters
  <2>2. UNCHANGED runVars /\ trusted' = trusted /\ files' = files
    BY <1>4 DEF FlattenNext, FlattenRefused, FlattenConnects, StartFlatten, FlattenReports,
       FlattenSubmits, FlattenEnds, captureVars, refreshVars
  <2>3. RunInv' /\ ReadInv'
    BY <2>2 DEF runVars, RunInv, RunTypes, RunSoFar, ExitTellsRun, ReadInv, QuietRead,
       StaleBarsNeedATear
  <2>4. AccountTypes' /\ OneView' /\ Sweeping'
    BY <1>4, FlattenKeepsAccount, FlattenKeepsView, FlattenKeepsSweep
  <2>5. QED
    BY <2>1, <2>3, <2>4
<1>5. QED
  BY <1>1, <1>2, <1>3, <1>4 DEF CampaignNext

LEMMA CampaignStutters ==
  ASSUME CampaignInv, UNCHANGED campaignVars
  PROVE  CampaignInv'
<1>1. UNCHANGED refreshVars
  BY DEF campaignVars
<1>2. RefreshInv'
  BY <1>1, RefreshStutters DEF CampaignInv
<1>3. RunInv' /\ AccountTypes' /\ OneView' /\ Sweeping'
  BY DEF CampaignInv, campaignVars, captureVars, runVars, venueVars, flattenVars, RunInv,
     RunTypes, RunSoFar, ExitTellsRun, AccountTypes, OneView, Booked, Sweeping, OneOrderEach
<1>4. ReadInv'
  BY <1>1 DEF CampaignInv, campaignVars, captureVars, runVars, refreshVars, ReadInv,
     QuietRead, StaleBarsNeedATear
<1>5. QED
  BY <1>2, <1>3, <1>4 DEF CampaignInv

LEMMA CampaignInvHolds == CampaignSpec => []CampaignInv
<1>1. RefreshInit /\ CaptureInit(0, 0) /\ CampaignInit(0) => CampaignInv
  BY InitCampaign
<1>2. CampaignInv /\ [CampaignNext]_campaignVars => CampaignInv'
  BY CampaignStep, CampaignStutters
<1>3. QED
  BY <1>1, <1>2, PTL DEF CampaignSpec

(* The exit code of a capture run tells what it left behind, however its   *)
(* pipeline, the row of the record and disconnect ended.                   *)
THEOREM RunsTellTheirEnd == CampaignSpec => []ExitTellsRun
BY CampaignInvHolds, PTL DEF CampaignInv, RunInv

(* A run is never sized at a bar older than its day, unless a refresh was  *)
(* writing while it read or one before was not whole.                      *)
THEOREM QuietRunsAreFresh == CampaignSpec => []StaleBarsNeedATear
BY CampaignInvHolds, PTL DEF CampaignInv, ReadInv

(* A run that starts on a flat account with nothing at work, shares it     *)
(* with no flatten and gives no order up, trades on the positions the      *)
(* account holds.                                                          *)
THEOREM CleanRunsSeeTheAccount == CampaignSpec => []CleanStartTracksVenue
<1>1. CampaignInv => CleanStartTracksVenue
  BY DEF CampaignInv, OneView, CleanStartTracksVenue
<1>2. QED
  BY <1>1, CampaignInvHolds, PTL

(* A flatten that is alone on the account and whose orders have all filled *)
(* leaves nothing in it.                                                   *)
THEOREM FlattenFlattens == CampaignSpec => []SettledFlattenIsFlat
<1>1. CampaignInv => SettledFlattenIsFlat
  <2> SUFFICES ASSUME CampaignInv, alone, flatten.orders # {},
                      flatten.filled = flatten.orders
               PROVE  position = Flat
    BY DEF SettledFlattenIsFlat
  <2>1. OneOrderEach
    BY DEF CampaignInv, Sweeping
  <2>2. \A s \in Symbols : position[s] = 0
    BY <2>1 DEF OneOrderEach
  <2>3. QED
    BY <2>2 DEF CampaignInv, AccountTypes, Flat
<1>2. QED
  BY <1>1, CampaignInvHolds, PTL
-----------------------------------------------------------------------------
(* The signals of a tape: the sums are of any window, and what a day's     *)
(* state is follows by induction along the days.                           *)
Tapes == Seq([Trends -> Closes])

(* Two windows of n days, k days apart: the same sums, the same values.    *)
SameSums(f, g, a, k, n) ==
  SumFunctionOnSet(g, (a - k + 1)..(a - k + n)) = SumFunctionOnSet(f, (a + 1)..(a + n))

Shifted(f, g, a, k, n) ==
  \A e \in (a + 1)..(a + n) : f[e] \in Int /\ g[e - k] = f[e]

(* The sum of a window does not depend on where the window lies.           *)
LEMMA SumShift ==
  ASSUME NEW f, NEW g, NEW a \in Int, NEW k \in Int, NEW n \in Nat,
         Shifted(f, g, a, k, n)
  PROVE  SameSums(f, g, a, k, n)
<1> USE DEF Shifted
<1> DEFINE Here(m) == (a + 1)..(a + m)
           There(m) == (a - k + 1)..(a - k + m)
           Same(m) == m <= n => SumFunctionOnSet(g, There(m)) = SumFunctionOnSet(f, Here(m))
           T == {m \in Nat : Same(m)}
<1>1. 0 \in T
  <2>1. Here(0) = {} /\ There(0) = {} OBVIOUS
  <2> HIDE DEF Here, There
  <2> QED BY <2>1, SumEmpty
<1>2. ASSUME NEW m \in Nat, m \in T PROVE m + 1 \in T
  <2> SUFFICES ASSUME m + 1 <= n
               PROVE  SumFunctionOnSet(g, There(m + 1)) = SumFunctionOnSet(f, Here(m + 1))
    OBVIOUS
  <2>1. SumFunctionOnSet(g, There(m)) = SumFunctionOnSet(f, Here(m)) BY <1>2
  <2>2. /\ a + m + 1 \in Here(m + 1) /\ Here(m + 1) \ {a + m + 1} = Here(m)
        /\ a - k + m + 1 \in There(m + 1) /\ There(m + 1) \ {a - k + m + 1} = There(m)
    OBVIOUS
  <2>3. IsFiniteSet(Here(m + 1)) /\ IsFiniteSet(There(m + 1)) BY FS_Interval
  <2>4. \A e \in Here(m + 1) : f[e] \in Int OBVIOUS
  <2>5. ASSUME NEW e \in There(m + 1) PROVE g[e] \in Int
    <3>1. e + k \in (a + 1)..(a + n) /\ (e + k) - k = e OBVIOUS
    <3> QED BY <3>1
  <2>6. g[a - k + m + 1] = f[a + m + 1]
    <3>1. a + m + 1 \in (a + 1)..(a + n) /\ (a + m + 1) - k = a - k + m + 1 OBVIOUS
    <3> QED BY <3>1
  <2> HIDE DEF Here, There
  <2>7. SumFunctionOnSet(f, Here(m + 1)) = f[a + m + 1] + SumFunctionOnSet(f, Here(m))
    BY <2>2, <2>3, <2>4, SumRemove
  <2>8. SumFunctionOnSet(g, There(m + 1)) = g[a - k + m + 1] + SumFunctionOnSet(g, There(m))
    BY <2>2, <2>3, <2>5, SumRemove
  <2> QED BY <2>1, <2>6, <2>7, <2>8
<1> HIDE DEF T
<1>3. n \in T BY <1>1, <1>2, SetInduction
<1> QED BY <1>3 DEF T, SameSums

(* What a day is compared with is a number, from the first full window.   *)
LEMMA WindowSum ==
  ASSUME NEW t \in Tapes, NEW leg \in Trends, NEW d \in SmaWindow..Len(t)
  PROVE  /\ t[d][leg] \in Nat
         /\ Sum(t, leg, d) \in Nat
         /\ \A e \in (d - SmaWindow + 1)..d : e \in DOMAIN t /\ t[e][leg] \in Nat
<1> DEFINE W == (d - SmaWindow + 1)..d
           f == [e \in W |-> t[e][leg]]
<1>1. Len(t) \in Nat /\ \A e \in 1..Len(t) : t[e] \in [Trends -> Closes] /\ e \in DOMAIN t
  BY DEF Tapes
<1>2. \A e \in W : e \in 1..Len(t) BY <1>1, SignalsAssumption
<1>3. \A e \in W : t[e][leg] \in Nat BY <1>1, <1>2, SignalsAssumption
<1>4. d \in W BY <1>1, SignalsAssumption
<1>5. IsFiniteSet(W) BY <1>1, SignalsAssumption, FS_Interval
<1>6. Sum(t, leg, d) = SumFunctionOnSet(f, W) BY DEF Sum, SumFunction, Averaged, Trailing
<1>7. \A e \in W : f[e] \in Int /\ f[e] \in Nat BY <1>3
<1> HIDE DEF W, f
<1>8. SumFunctionOnSet(f, W) \in Nat BY <1>5, <1>7, SumType
<1> QED BY <1>1, <1>2, <1>3, <1>4, <1>6, <1>8 DEF W

(* Two windows with the same closes are compared alike.                    *)
SameCloses(t, d, u, i) == \A e \in (d - SmaWindow + 1)..d : u[e - (d - i)] = t[e]

LEMMA Slide ==
  \A w, d, i, e \in Int : e \in (d - w + 1)..d => e - (d - i) \in (i - w + 1)..i
OBVIOUS

LEMMA SameWindow ==
  ASSUME NEW t \in Tapes, NEW u \in Tapes, NEW leg \in Trends,
         NEW d \in DOMAIN t, NEW i \in DOMAIN u,
         d >= SmaWindow, i >= SmaWindow, SameCloses(t, d, u, i)
  PROVE  /\ Sum(u, leg, i) = Sum(t, leg, d)
         /\ u[i][leg] = t[d][leg]
         /\ Below(u, leg, i) <=> Below(t, leg, d)
         /\ Clear(u, leg, i) <=> Clear(t, leg, d)
<1> DEFINE a == d - SmaWindow
           k == d - i
           f == [e \in (d - SmaWindow + 1)..d |-> t[e][leg]]
           g == [e \in (i - SmaWindow + 1)..i |-> u[e][leg]]
<1>1. /\ d \in Int /\ i \in Int /\ a \in Int /\ k \in Int /\ SmaWindow \in Nat
      /\ d \in SmaWindow..Len(t)
  BY SignalsAssumption DEF Tapes
<1>2. /\ (a + 1)..(a + SmaWindow) = (d - SmaWindow + 1)..d
      /\ (a - k + 1)..(a - k + SmaWindow) = (i - SmaWindow + 1)..i
  BY <1>1
<1>3. ASSUME NEW e \in (a + 1)..(a + SmaWindow) PROVE f[e] \in Int /\ g[e - k] = f[e]
  <2>1. e \in (d - SmaWindow + 1)..d BY <1>1, <1>2
  <2>2. e \in Int /\ d \in Int /\ i \in Int /\ SmaWindow \in Int BY <1>1, <2>1
  <2>3. e - (d - i) \in (i - SmaWindow + 1)..i BY <2>1, <2>2, Slide
  <2>4. e \in Int /\ e - k \in (i - SmaWindow + 1)..i BY <2>2, <2>3
  <2>5. t[e][leg] \in Nat BY <1>1, <2>1, WindowSum
  <2>6. u[e - k] = t[e] BY <2>1 DEF SameCloses
  <2> QED BY <2>1, <2>4, <2>5, <2>6
<1>4. /\ Sum(t, leg, d) = SumFunctionOnSet(f, (d - SmaWindow + 1)..d)
      /\ Sum(u, leg, i) = SumFunctionOnSet(g, (i - SmaWindow + 1)..i)
  BY DEF Sum, SumFunction, Averaged, Trailing
<1>5. SumFunctionOnSet(g, (a - k + 1)..(a - k + SmaWindow))
        = SumFunctionOnSet(f, (a + 1)..(a + SmaWindow))
  <2>1. Shifted(f, g, a, k, SmaWindow) BY <1>3 DEF Shifted
  <2>2. a \in Int /\ k \in Int /\ SmaWindow \in Nat BY <1>1
  <2> HIDE DEF f, g, a, k
  <2>3. SameSums(f, g, a, k, SmaWindow) BY <2>1, <2>2, SumShift
  <2> QED BY <2>3 DEF SameSums
<1>6. Sum(u, leg, i) = Sum(t, leg, d) BY <1>2, <1>4, <1>5
<1>7. d \in (d - SmaWindow + 1)..d /\ d - (d - i) = i BY <1>1, SignalsAssumption
<1>8. u[i][leg] = t[d][leg] BY <1>7 DEF SameCloses
<1>9. i >= SmaWindow /\ d >= SmaWindow OBVIOUS
<1> QED BY <1>6, <1>8, <1>9 DEF Below, Clear

(* No close is both below its average and clear of it.                    *)
LEMMA NotBoth ==
  ASSUME NEW t \in Tapes, NEW leg \in Trends, NEW d \in DOMAIN t
  PROVE  ~(Below(t, leg, d) /\ Clear(t, leg, d))
<1> SUFFICES ASSUME Below(t, leg, d), Clear(t, leg, d) PROVE FALSE OBVIOUS
<1>1. d \in SmaWindow..Len(t) BY SignalsAssumption DEF Below, Tapes
<1>2. PICK c \in Nat, s \in Nat : c = t[d][leg] /\ s = Sum(t, leg, d) BY <1>1, WindowSum
<1>3. SmaWindow * c < s /\ 20 * SmaWindow * c > 21 * s BY <1>2 DEF Below, Clear
<1>4. SmaWindow * c \in Nat BY <1>2, SignalsAssumption
<1>5. 20 * SmaWindow * c = 20 * (SmaWindow * c) BY <1>2, SignalsAssumption
<1> QED BY <1>2, <1>3, <1>4, <1>5

(* What the state machine does on a day.                                   *)
LEMMA StatesUnfold ==
  ASSUME NEW t \in Tapes, NEW leg \in Trends
  PROVE  \A d \in 0..Len(t) : States(t, leg)[d] =
           (IF d < SmaWindow THEN TRUE
            ELSE Hysteresis(States(t, leg)[d - 1], Below(t, leg, d), Clear(t, leg, d)))
<1> DEFINE Step(g, d) == IF d < SmaWindow THEN TRUE
                         ELSE Hysteresis(g[d - 1], Below(t, leg, d), Clear(t, leg, d))
           Upto(n, g) == g = [d \in 0..n |-> Step(g, d)]
           T == {n \in Nat : \E g : Upto(n, g)}
<1>0. SmaWindow \in Nat /\ SmaWindow >= 2 BY SignalsAssumption
<1>1. 0 \in T
  <2> DEFINE g == [d \in 0..0 |-> TRUE]
  <2>1. \A d \in 0..0 : Step(g, d) = TRUE BY <1>0
  <2> HIDE DEF Step
  <2>2. Upto(0, g) BY <2>1
  <2> QED BY <2>2
<1>2. ASSUME NEW n \in Nat, n \in T PROVE n + 1 \in T
  <2>1. PICK g : Upto(n, g) BY <1>2
  <2> DEFINE h == [d \in 0..(n + 1) |-> Step(g, d)]
  <2>2. \A d \in 0..n : h[d] = g[d]
    <3> HIDE DEF Step
    <3> QED BY <2>1
  <2>3. \A d \in 0..(n + 1) : ~(d < SmaWindow) => d - 1 \in 0..n BY <1>0
  <2>4. \A d \in 0..(n + 1) : Step(h, d) = Step(g, d)
    <3> HIDE DEF h
    <3> QED BY <2>2, <2>3
  <2>5. Upto(n + 1, h)
    <3> HIDE DEF Step
    <3> QED BY <2>4
  <2> HIDE DEF h, Upto
  <2> QED BY <2>5
<1>3. Len(t) \in Nat BY DEF Tapes
<1>4. \E g : Upto(Len(t), g)
  <2> HIDE DEF T
  <2>1. Len(t) \in T BY <1>1, <1>2, <1>3, SetInduction
  <2> QED BY <2>1 DEF T
<1>5. States(t, leg) = CHOOSE g : Upto(Len(t), g) BY DEF States
<1>6. Upto(Len(t), States(t, leg))
  <2> HIDE DEF Upto
  <2> QED BY <1>4, <1>5
<1> HIDE DEF Step
<1>7. \A d \in 0..Len(t) : States(t, leg)[d] = Step(States(t, leg), d) BY <1>6
<1> QED BY <1>7 DEF Step

(* A leg moves on a crossing only, and is in before the averages begin.    *)
LEMMA EligibleStep ==
  ASSUME NEW t \in Tapes, NEW leg \in Trends
  PROVE  /\ DOMAIN Eligible(t, leg) = DOMAIN t
         /\ \A d \in DOMAIN t :
              /\ Eligible(t, leg)[d] \in BOOLEAN
              /\ d - 1 \notin DOMAIN t => Eligible(t, leg)[d]
              /\ Below(t, leg, d) => ~Eligible(t, leg)[d]
              /\ Clear(t, leg, d) => Eligible(t, leg)[d]
              /\ ~Crossed(t, leg, d) /\ d - 1 \in DOMAIN t =>
                   Eligible(t, leg)[d] = Eligible(t, leg)[d - 1]
<1> DEFINE s == States(t, leg)
<1>1. Len(t) \in Nat /\ DOMAIN t = 1..Len(t) /\ SmaWindow \in Nat /\ SmaWindow >= 2
  BY SignalsAssumption DEF Tapes
<1>2. ASSUME NEW d \in 0..Len(t)
      PROVE  /\ d < SmaWindow => s[d]
             /\ ~(d < SmaWindow) =>
                  s[d] = Hysteresis(s[d - 1], Below(t, leg, d), Clear(t, leg, d))
             /\ d < SmaWindow => s[d] \in BOOLEAN
  <2>1. s[d] = (IF d < SmaWindow THEN TRUE
                ELSE Hysteresis(s[d - 1], Below(t, leg, d), Clear(t, leg, d)))
    BY StatesUnfold
  <2>2. CASE d < SmaWindow
    <3>1. s[d] = TRUE BY <2>1, <2>2
    <3> HIDE DEF s
    <3> QED BY <3>1, <2>2
  <2>3. CASE ~(d < SmaWindow) BY <2>1, <2>3
  <2> QED BY <2>2, <2>3
<1>3. \A d \in DOMAIN t : Eligible(t, leg)[d] = s[d] BY DEF Eligible
<1>4. DOMAIN Eligible(t, leg) = DOMAIN t BY DEF Eligible
<1>5. \A d \in DOMAIN t : Below(t, leg, d) \in BOOLEAN /\ Clear(t, leg, d) \in BOOLEAN
  BY DEF Below, Clear
<1> HIDE DEF s
<1>6. \A d \in 0..Len(t) : s[d] \in BOOLEAN
  <2> DEFINE T == {n \in Nat : n <= Len(t) => s[n] \in BOOLEAN}
  <2>1. 0 \in T BY <1>1, <1>2
  <2>2. ASSUME NEW n \in Nat, n \in T PROVE n + 1 \in T
    <3> SUFFICES ASSUME n + 1 <= Len(t) PROVE s[n + 1] \in BOOLEAN OBVIOUS
    <3>1. n + 1 \in DOMAIN t /\ (n + 1) - 1 = n /\ s[n] \in BOOLEAN BY <1>1, <2>2
    <3>2. CASE n + 1 < SmaWindow BY <1>1, <1>2, <3>1, <3>2
    <3>3. CASE ~(n + 1 < SmaWindow)
      <4>1. s[n + 1] = Hysteresis(s[n], Below(t, leg, n + 1), Clear(t, leg, n + 1))
        BY <1>1, <1>2, <3>1, <3>3
      <4> QED BY <4>1, <3>1, <1>5 DEF Hysteresis
    <3> QED BY <3>2, <3>3
  <2> HIDE DEF T
  <2>3. Nat \subseteq T BY <2>1, <2>2, SetInduction
  <2> QED BY <2>3, <1>1 DEF T
<1>7. ASSUME NEW d \in DOMAIN t
      PROVE  /\ s[d] \in BOOLEAN
             /\ d - 1 \notin DOMAIN t => s[d]
             /\ Below(t, leg, d) => ~s[d]
             /\ Clear(t, leg, d) => s[d]
             /\ ~Crossed(t, leg, d) /\ d - 1 \in DOMAIN t => s[d] = s[d - 1]
  <2>1. CASE d < SmaWindow
    <3>1. d \in 0..Len(t) /\ (d - 1 \in DOMAIN t => d - 1 \in 0..Len(t) /\ d - 1 < SmaWindow)
      BY <1>1, <2>1
    <3>2. s[d] /\ (d - 1 \in DOMAIN t => s[d - 1]) BY <1>2, <2>1, <3>1
    <3>3. s[d] \in BOOLEAN /\ (d - 1 \in DOMAIN t => s[d - 1] \in BOOLEAN)
      BY <1>2, <2>1, <3>1
    <3>4. ~Below(t, leg, d) /\ ~Clear(t, leg, d)
      BY <1>1, <2>1 DEF Below, Clear
    <3> QED BY <3>2, <3>3, <3>4
  <2>2. CASE ~(d < SmaWindow)
    <3>1. s[d] = Hysteresis(s[d - 1], Below(t, leg, d), Clear(t, leg, d))
      BY <1>1, <1>2, <2>2
    <3>2. ~(Below(t, leg, d) /\ Clear(t, leg, d)) BY NotBoth
    <3>3. d - 1 \in DOMAIN t /\ s[d - 1] \in BOOLEAN BY <1>1, <1>6, <2>2
    <3> QED BY <3>1, <3>2, <3>3, <1>5 DEF Hysteresis, Crossed
  <2> QED BY <2>1, <2>2
<1>8. \A d \in DOMAIN t : d - 1 \in DOMAIN t => Eligible(t, leg)[d - 1] = s[d - 1] BY <1>3
<1> QED BY <1>3, <1>4, <1>7, <1>8

(* Along the days: out exactly since the last fall.                       *)
LEMMA FallFacts ==
  ASSUME NEW t \in Tapes, NEW leg \in Trends, NEW d \in DOMAIN t
  PROVE  ~Eligible(t, leg)[d]
           <=> \E e \in 1..d : /\ Below(t, leg, e)
                               /\ \A f \in (e + 1)..d : ~Clear(t, leg, f)
<1> DEFINE Fell(n) == \E e \in 1..n : /\ Below(t, leg, e)
                                      /\ \A f \in (e + 1)..n : ~Clear(t, leg, f)
           T == {n \in Nat : n \in DOMAIN t => (~Eligible(t, leg)[n] <=> Fell(n))}
<1>1. Len(t) \in Nat /\ DOMAIN t = 1..Len(t) BY DEF Tapes
<1>2. 0 \in T BY <1>1
<1>3. ASSUME NEW n \in Nat, n \in T PROVE n + 1 \in T
  <2> SUFFICES ASSUME n + 1 \in DOMAIN t
               PROVE  ~Eligible(t, leg)[n + 1] <=> Fell(n + 1)
    OBVIOUS
  <2>1. CASE Below(t, leg, n + 1)
    <3>1. Fell(n + 1)
      <4>1. n + 1 \in 1..(n + 1) /\ (n + 1 + 1)..(n + 1) = {} OBVIOUS
      <4> QED BY <4>1, <2>1
    <3> QED BY <3>1, <2>1, EligibleStep
  <2>2. CASE ~Below(t, leg, n + 1) /\ Clear(t, leg, n + 1)
    <3>1. ~Fell(n + 1)
      <4> SUFFICES ASSUME NEW e \in 1..(n + 1), Below(t, leg, e),
                          \A f \in (e + 1)..(n + 1) : ~Clear(t, leg, f)
                   PROVE  FALSE
        OBVIOUS
      <4>1. e # n + 1 BY <2>2
      <4>2. n + 1 \in (e + 1)..(n + 1) BY <4>1
      <4> QED BY <2>2, <4>2
    <3> QED BY <3>1, <2>2, EligibleStep
  <2>3. CASE ~Below(t, leg, n + 1) /\ ~Clear(t, leg, n + 1)
    <3>1. Fell(n + 1) <=> Fell(n)
      <4>1. ASSUME NEW e \in 1..n
            PROVE  (\A f \in (e + 1)..(n + 1) : ~Clear(t, leg, f))
                     <=> (\A f \in (e + 1)..n : ~Clear(t, leg, f))
        <5>1. (e + 1)..(n + 1) = ((e + 1)..n) \cup {n + 1} OBVIOUS
        <5> QED BY <5>1, <2>3
      <4>2. 1..(n + 1) = (1..n) \cup {n + 1} OBVIOUS
      <4> QED BY <4>1, <4>2, <2>3
    <3> HIDE DEF Fell
    <3>2. (n + 1) - 1 = n OBVIOUS
    <3>3. CASE n = 0
      <4>1. ~Fell(0) BY DEF Fell
      <4>2. (n + 1) - 1 \notin DOMAIN t BY <1>1, <3>3
      <4>3. Eligible(t, leg)[n + 1] BY <4>2, EligibleStep
      <4> QED BY <3>1, <4>1, <3>3, <4>3
    <3>4. CASE n # 0
      <4>1. n \in DOMAIN t BY <1>1, <3>4
      <4>2. ~Eligible(t, leg)[n] <=> Fell(n) BY <1>3, <4>1
      <4>3. ~Crossed(t, leg, n + 1) BY <2>3 DEF Crossed
      <4>4. Eligible(t, leg)[n + 1] = Eligible(t, leg)[n] BY <4>1, <4>3, <3>2, EligibleStep
      <4> QED BY <3>1, <4>2, <4>4
    <3> QED BY <3>3, <3>4
  <2> QED BY <2>1, <2>2, <2>3
<1> HIDE DEF T
<1>4. Nat \subseteq T BY <1>2, <1>3, SetInduction
<1>5. d \in Nat BY <1>1
<1> QED BY <1>4, <1>5 DEF T

(* A later start agrees from its first crossing on.                        *)
LEMMA LateFacts ==
  ASSUME NEW t \in Tapes, NEW leg \in Trends, NEW from \in 1..Len(t), NEW d \in from..Len(t),
         \E e \in from..d : Crossed(SubSeq(t, from, Len(t)), leg, e - from + 1)
  PROVE  Eligible(SubSeq(t, from, Len(t)), leg)[d - from + 1] = Eligible(t, leg)[d]
<1> DEFINE late == SubSeq(t, from, Len(t))
           Day(e) == e - from + 1
           Met(n) == \E e \in from..n : Crossed(late, leg, Day(e))
           Agree(n) == n \in from..Len(t) /\ Met(n) =>
                         Eligible(late, leg)[Day(n)] = Eligible(t, leg)[n]
           T == {n \in Nat : Agree(n)}
<1>1. Len(t) \in Nat /\ DOMAIN t = 1..Len(t) /\ from \in Nat /\ from >= 1 /\ from <= Len(t)
      /\ SmaWindow \in Nat /\ SmaWindow >= 2
  BY SignalsAssumption DEF Tapes
<1>2. /\ late \in Tapes
      /\ DOMAIN late = 1..(Len(t) - from + 1)
      /\ \A i \in 1..(Len(t) - from + 1) : late[i] = t[from + i - 1]
  <2>1. t \in Seq([Trends -> Closes]) BY DEF Tapes
  <2>2. \A i \in from..Len(t) : t[i] \in [Trends -> Closes] BY <2>1, <1>1
  <2>3. late \in Seq([Trends -> Closes]) BY <1>1, <2>2, SubSeqProperties
  <2>4. /\ Len(late) = (IF from <= Len(t) THEN Len(t) - from + 1 ELSE 0)
        /\ \A i \in 1..(Len(t) - from + 1) : late[i] = t[from + i - 1]
    BY <1>1, <2>1, SubSeqProperties
  <2> HIDE DEF late
  <2> QED BY <1>1, <2>3, <2>4 DEF Tapes
<1>3. /\ \A e \in from..Len(t) : Day(e) \in DOMAIN late /\ Day(e) \in Nat /\ e \in DOMAIN t
      /\ \A e \in from..Len(t) : Day(e) <= e
      /\ \A n \in Nat : n + 1 \in from..Len(t) /\ n \in from..Len(t) =>
                          Day(n + 1) - 1 = Day(n)
      /\ \A e, n \in from..Len(t) : e <= n => Day(e) <= Day(n)
  BY <1>1, <1>2
<1>4. ASSUME NEW e \in from..Len(t), Day(e) >= SmaWindow
      PROVE  /\ Below(late, leg, Day(e)) <=> Below(t, leg, e)
             /\ Clear(late, leg, Day(e)) <=> Clear(t, leg, e)
  <2>1. ASSUME NEW i \in (e - SmaWindow + 1)..e PROVE late[i - (e - Day(e))] = t[i]
    <3>1. i - (e - Day(e)) \in 1..(Len(t) - from + 1) /\ from + (i - (e - Day(e))) - 1 = i
      BY <1>1, <1>4
    <3> HIDE DEF Day, late
    <3> QED BY <3>1, <1>2
  <2>2. SameCloses(t, e, late, Day(e)) BY <2>1 DEF SameCloses
  <2> HIDE DEF Day, late
  <2>3. e >= SmaWindow BY <1>1, <1>3, <1>4
  <2> QED BY <1>2, <1>3, <1>4, <2>2, <2>3, SameWindow
<1> HIDE DEF late, Day
<1>5. ASSUME NEW e \in from..Len(t), Crossed(late, leg, Day(e))
      PROVE  Day(e) >= SmaWindow
  BY <1>5 DEF Crossed, Below, Clear
<1>6. 0 \in T BY <1>1
<1>7. ASSUME NEW n \in Nat, n \in T PROVE n + 1 \in T
  <2>1. SUFFICES ASSUME n + 1 \in from..Len(t), Met(n + 1)
                 PROVE  Eligible(late, leg)[Day(n + 1)] = Eligible(t, leg)[n + 1]
    <3> HIDE DEF Met
    <3> QED OBVIOUS
  <2>2. CASE Crossed(late, leg, Day(n + 1))
    <3>1. /\ Below(late, leg, Day(n + 1)) <=> Below(t, leg, n + 1)
          /\ Clear(late, leg, Day(n + 1)) <=> Clear(t, leg, n + 1)
      BY <1>4, <1>5, <2>1, <2>2
    <3>2. /\ Eligible(t, leg)[n + 1] \in BOOLEAN
          /\ Below(t, leg, n + 1) => ~Eligible(t, leg)[n + 1]
          /\ Clear(t, leg, n + 1) => Eligible(t, leg)[n + 1]
      BY <1>3, <2>1, EligibleStep
    <3>3. /\ Eligible(late, leg)[Day(n + 1)] \in BOOLEAN
          /\ Below(late, leg, Day(n + 1)) => ~Eligible(late, leg)[Day(n + 1)]
          /\ Clear(late, leg, Day(n + 1)) => Eligible(late, leg)[Day(n + 1)]
      BY <1>2, <1>3, <2>1, EligibleStep
    <3>4. Below(late, leg, Day(n + 1)) \/ Clear(late, leg, Day(n + 1)) BY <2>2 DEF Crossed
    <3> QED BY <3>1, <3>2, <3>3, <3>4
  <2>3. CASE ~Crossed(late, leg, Day(n + 1))
    <3>1. PICK e \in from..(n + 1) : Crossed(late, leg, Day(e)) BY <2>1
    <3>2. e # n + 1 BY <2>3, <3>1
    <3>3. e \in from..n /\ e \in from..Len(t) /\ n \in from..Len(t) /\ e <= n + 1
      BY <1>1, <2>1, <3>2
    <3>4. Day(e) >= SmaWindow BY <1>5, <3>1, <3>3
    <3>5. Day(e) <= Day(n + 1) /\ Day(n + 1) - 1 = Day(n) BY <1>3, <2>1, <3>3
    <3>6. Day(e) \in Nat /\ Day(n + 1) \in Nat BY <1>3, <2>1, <3>3
    <3>7. Day(n + 1) >= SmaWindow BY <3>4, <3>5, <3>6, <1>1
    <3>8. Eligible(late, leg)[Day(n)] = Eligible(t, leg)[n] BY <1>7, <3>1, <3>3
    <3>9. ~Crossed(t, leg, n + 1) BY <1>4, <2>1, <2>3, <3>7 DEF Crossed
    <3>10. Eligible(t, leg)[n + 1] = Eligible(t, leg)[n]
      <4>1. (n + 1) - 1 = n /\ n \in DOMAIN t /\ n + 1 \in DOMAIN t BY <1>3, <2>1, <3>3
      <4> QED BY <4>1, <3>9, EligibleStep
    <3>11. Eligible(late, leg)[Day(n + 1)] = Eligible(late, leg)[Day(n + 1) - 1]
      <4>1. Day(n + 1) \in DOMAIN late /\ Day(n + 1) - 1 \in DOMAIN late
        BY <1>3, <2>1, <3>3, <3>5
      <4> QED BY <4>1, <1>2, <2>3, EligibleStep
    <3> QED BY <3>5, <3>8, <3>10, <3>11
  <2> QED BY <2>2, <2>3
<1> HIDE DEF T, Met
<1>8. Nat \subseteq T BY <1>6, <1>7, SetInduction
<1>9. d \in Nat /\ d \in from..Len(t) BY <1>1
<1>10. Met(d) BY DEF Met, late, Day
<1>11. Eligible(late, leg)[Day(d)] = Eligible(t, leg)[d] BY <1>8, <1>9, <1>10 DEF T
<1> QED BY <1>11 DEF late, Day

LEMMA LegFacts ==
  /\ "qqq" # "tlt" /\ "qqq" # "ief" /\ "tlt" # "ief"
  /\ Trends = {"qqq", "tlt"} /\ Legs = {"qqq", "tlt", "ief"}
  /\ Cardinality({"ief"}) = 1 /\ 2 \div 1 = 2 /\ 2 \div 2 = 1
  /\ Cardinality({"qqq", "tlt"}) = 2
  /\ Cardinality({"qqq", "ief"}) = 2
  /\ Cardinality({"tlt", "ief"}) = 2
<1>1. "qqq" # "tlt" /\ "qqq" # "ief" /\ "tlt" # "ief" OBVIOUS
<1>2. /\ Cardinality({"ief"}) = 1 /\ Cardinality({"qqq"}) = 1 /\ Cardinality({"tlt"}) = 1
      /\ IsFiniteSet({"ief"}) /\ IsFiniteSet({"qqq"}) /\ IsFiniteSet({"tlt"})
  BY FS_Singleton
<1>3. Cardinality({"qqq"} \cup {"tlt"}) = 2 BY <1>1, <1>2, FS_AddElement
<1>4. Cardinality({"qqq"} \cup {"ief"}) = 2 BY <1>1, <1>2, FS_AddElement
<1>5. Cardinality({"tlt"} \cup {"ief"}) = 2 BY <1>1, <1>2, FS_AddElement
<1>6. /\ {"qqq", "tlt"} = {"qqq"} \cup {"tlt"}
      /\ {"qqq", "ief"} = {"qqq"} \cup {"ief"}
      /\ {"tlt", "ief"} = {"tlt"} \cup {"ief"}
  OBVIOUS
<1>7. 2 \div 1 = 2 /\ 2 \div 2 = 1 OBVIOUS
<1>8. Trends = {"qqq", "tlt"} /\ Legs = {"qqq", "tlt", "ief"} BY DEF Trends, Legs
<1> QED BY <1>1, <1>2, <1>3, <1>4, <1>5, <1>6, <1>7, <1>8

(* What a row invests, by the two legs of which the signals are computed.  *)
LEMMA WeightFacts ==
  ASSUME NEW t \in Tapes, NEW d \in DOMAIN t
  PROVE  /\ DOMAIN Weights(t) = DOMAIN t
         /\ Weights(t)[d] \in [Legs -> Int]
         /\ Weights(t)[d]["qqq"] + Weights(t)[d]["tlt"] + Weights(t)[d]["ief"] = 2
         /\ Weights(t)[d]["qqq"] > 0 <=> Eligible(t, "qqq")[d]
<1> DEFINE q == Eligible(t, "qqq")[d]
           b == Eligible(t, "tlt")[d]
           S == Eligibility(t)[d]
           w == Weights(t)[d]
<1>1. q \in BOOLEAN /\ b \in BOOLEAN BY LegFacts, EligibleStep
<1>2. S = {leg \in Trends : IF leg = "qqq" THEN q ELSE b} \cup {leg \in {"ief"} : ~(q /\ b)}
  BY DEF Eligibility
<1>3. w = [leg \in Legs |-> IF leg \in S THEN 2 \div Cardinality(S) ELSE 0]
  BY DEF Weights
<1>4. DOMAIN Weights(t) = DOMAIN t BY DEF Weights
<1> HIDE DEF q, b, S, w
<1>5. /\ q /\ b => S = {"qqq", "tlt"}
      /\ q /\ ~b => S = {"qqq", "ief"}
      /\ ~q /\ b => S = {"tlt", "ief"}
      /\ ~q /\ ~b => S = {"ief"}
  <2>1. "qqq" \in S <=> q BY <1>2, LegFacts
  <2>2. "tlt" \in S <=> b BY <1>2, LegFacts
  <2>3. "ief" \in S <=> ~(q /\ b) BY <1>2, LegFacts
  <2>4. S \subseteq {"qqq", "tlt", "ief"} BY <1>2, LegFacts
  <2> QED BY <2>1, <2>2, <2>3, <2>4, LegFacts
<1>6. /\ w["qqq"] = (IF "qqq" \in S THEN 2 \div Cardinality(S) ELSE 0)
      /\ w["tlt"] = (IF "tlt" \in S THEN 2 \div Cardinality(S) ELSE 0)
      /\ w["ief"] = (IF "ief" \in S THEN 2 \div Cardinality(S) ELSE 0)
      /\ DOMAIN w = Legs
  BY <1>3, LegFacts
<1>7. CASE q /\ b
  <2>1. w["qqq"] = 1 /\ w["tlt"] = 1 /\ w["ief"] = 0 BY <1>5, <1>6, <1>7, LegFacts
  <2>2. w \in [Legs -> Int] BY <1>3, <1>6, <2>1, LegFacts
  <2> QED BY <1>4, <1>7, <2>1, <2>2 DEF w, q
<1>8. CASE q /\ ~b
  <2>1. w["qqq"] = 1 /\ w["tlt"] = 0 /\ w["ief"] = 1 BY <1>5, <1>6, <1>8, LegFacts
  <2>2. w \in [Legs -> Int] BY <1>3, <1>6, <2>1, LegFacts
  <2> QED BY <1>4, <1>8, <2>1, <2>2 DEF w, q
<1>9. CASE ~q /\ b
  <2>1. w["qqq"] = 0 /\ w["tlt"] = 1 /\ w["ief"] = 1 BY <1>5, <1>6, <1>9, LegFacts
  <2>2. w \in [Legs -> Int] BY <1>3, <1>6, <2>1, LegFacts
  <2> QED BY <1>4, <1>9, <2>1, <2>2 DEF w, q
<1>10. CASE ~q /\ ~b
  <2>1. w["qqq"] = 0 /\ w["tlt"] = 0 /\ w["ief"] = 2 BY <1>5, <1>6, <1>10, LegFacts
  <2>2. w \in [Legs -> Int] BY <1>3, <1>6, <2>1, LegFacts
  <2> QED BY <1>4, <1>10, <2>1, <2>2 DEF w, q
<1> QED BY <1>1, <1>7, <1>8, <1>9, <1>10

LEMMA SumOfLegs ==
  ASSUME NEW w \in [Legs -> Int]
  PROVE  SumFunction(w) = w["qqq"] + w["tlt"] + w["ief"]
<1>1. DOMAIN w = Legs /\ \A leg \in Legs : w[leg] \in Int OBVIOUS
<1>2. IsFiniteSet({"ief"}) BY FS_Singleton
<1>3. IsFiniteSet({"tlt", "ief"})
  <2>1. {"tlt", "ief"} = {"ief"} \cup {"tlt"} OBVIOUS
  <2> QED BY <1>2, <2>1, FS_AddElement
<1>4. IsFiniteSet(Legs)
  <2>1. Legs = {"tlt", "ief"} \cup {"qqq"} BY LegFacts
  <2> QED BY <1>3, <2>1, FS_AddElement
<1>5. /\ Legs \ {"qqq"} = {"tlt", "ief"}
      /\ {"tlt", "ief"} \ {"tlt"} = {"ief"}
      /\ {"ief"} \ {"ief"} = {}
  BY LegFacts
<1>6. SumFunctionOnSet(w, Legs) = w["qqq"] + SumFunctionOnSet(w, {"tlt", "ief"})
  BY <1>1, <1>4, <1>5, LegFacts, SumRemove
<1>7. SumFunctionOnSet(w, {"tlt", "ief"}) = w["tlt"] + SumFunctionOnSet(w, {"ief"})
  BY <1>1, <1>3, <1>5, LegFacts, SumRemove
<1>8. SumFunctionOnSet(w, {"ief"}) = w["ief"] + SumFunctionOnSet(w, {})
  BY <1>1, <1>2, <1>5, LegFacts, SumRemove
<1>9. SumFunctionOnSet(w, {}) = 0 BY SumEmpty
<1>10. w["qqq"] \in Int /\ w["tlt"] \in Int /\ w["ief"] \in Int BY <1>1, LegFacts
<1> QED BY <1>1, <1>6, <1>7, <1>8, <1>9, <1>10 DEF SumFunction

(* Without a fall a leg that is in stays in, so it comes in at most once.  *)
LEMMA OneFlip ==
  ASSUME NEW t \in Tapes, NEW first \in DOMAIN t, NEW last \in DOMAIN t,
         \A d \in first..last : ~Below(t, "qqq", d)
  PROVE  RegimeFlips(t, first, last) <= 1
<1> DEFINE In(d) == Eligible(t, "qqq")[d]
           Flips == {d \in (first + 1)..last :
                       (Weights(t)[d]["qqq"] > 0) # (Weights(t)[d - 1]["qqq"] > 0)}
           T == {n \in Nat : \A d \in first..last : d + n <= last /\ In(d) => In(d + n)}
<1>1. Len(t) \in Nat /\ DOMAIN t = 1..Len(t) /\ first \in Nat /\ last \in Nat /\ first >= 1
  BY DEF Tapes
<1>2. \A d \in first..last : d \in DOMAIN t BY <1>1
<1>3. \A d \in first..last : In(d) \in BOOLEAN BY <1>2, LegFacts, EligibleStep
<1>4. ASSUME NEW d \in first..last, d + 1 <= last, In(d) PROVE In(d + 1)
  <2>1. d + 1 \in first..last /\ d + 1 \in DOMAIN t /\ (d + 1) - 1 = d /\ d \in DOMAIN t
    BY <1>1, <1>4
  <2>2. ~Below(t, "qqq", d + 1) BY <2>1
  <2>3. CASE Clear(t, "qqq", d + 1) BY <2>1, <2>3, LegFacts, EligibleStep
  <2>4. CASE ~Clear(t, "qqq", d + 1)
    <3>1. ~Crossed(t, "qqq", d + 1) BY <2>2, <2>4 DEF Crossed
    <3>2. In(d + 1) = In(d) BY <2>1, <3>1, LegFacts, EligibleStep
    <3> QED BY <3>2, <1>4
  <2> QED BY <2>3, <2>4
<1>5. \A d \in first..last : Weights(t)[d]["qqq"] > 0 <=> In(d)
  BY <1>2, WeightFacts
<1> HIDE DEF In
<1>6. Nat \subseteq T
  <2>1. 0 \in T
    <3>1. \A d \in first..last : d + 0 = d BY <1>1
    <3> QED BY <3>1
  <2>2. ASSUME NEW n \in Nat, n \in T PROVE n + 1 \in T
    <3> SUFFICES ASSUME NEW d \in first..last, d + (n + 1) <= last, In(d)
                 PROVE  In(d + (n + 1))
      OBVIOUS
    <3>1. d + n \in first..last /\ d + n <= last /\ (d + n) + 1 = d + (n + 1)
          /\ (d + n) + 1 <= last
      BY <1>1
    <3>2. In(d + n) BY <2>2, <3>1
    <3>3. In((d + n) + 1) BY <3>1, <3>2, <1>4
    <3> QED BY <3>1, <3>3
  <2> HIDE DEF T
  <2> QED BY <2>1, <2>2, SetInduction
<1>7. ASSUME NEW d \in Flips PROVE In(d) /\ ~In(d - 1) /\ d \in (first + 1)..last
  <2>1. d \in first..last /\ d - 1 \in first..last /\ (d - 1) + 1 = d /\ (d - 1) + 1 <= last
    BY <1>1
  <2>2. In(d) # In(d - 1)
    <3>1. (Weights(t)[d]["qqq"] > 0) # (Weights(t)[d - 1]["qqq"] > 0) OBVIOUS
    <3> QED BY <3>1, <2>1, <1>3, <1>5
  <2>3. In(d - 1) => In(d) BY <2>1, <1>4
  <2> QED BY <2>1, <2>2, <2>3, <1>3
<1>8. ASSUME NEW d \in Flips, NEW e \in Flips, d < e PROVE FALSE
  <2>1. In(d) /\ ~In(e - 1) /\ d \in (first + 1)..last /\ e \in (first + 1)..last BY <1>7
  <2>2. (e - 1 - d) \in Nat /\ d + (e - 1 - d) = e - 1 /\ e - 1 <= last /\ d \in first..last
    BY <1>1, <1>8, <2>1
  <2>3. (e - 1 - d) \in T BY <1>6, <2>2
  <2>4. In(e - 1) BY <2>1, <2>2, <2>3
  <2> QED BY <2>1, <2>4
<1>9. RegimeFlips(t, first, last) = Cardinality(Flips) BY DEF RegimeFlips
<1>10. Flips \subseteq Int BY <1>1
<1> HIDE DEF Flips
<1>11. \A d, e \in Flips : d = e BY <1>8, <1>10
<1>12. CASE Flips = {} BY <1>9, <1>12, FS_EmptySet
<1>13. CASE Flips # {}
  <2>1. PICK d : d \in Flips BY <1>13
  <2>2. Flips = {d} BY <1>11, <2>1
  <2>3. Cardinality({d}) = 1 BY FS_Singleton
  <2>4. Cardinality(Flips) = 1 BY <2>2, <2>3
  <2> QED BY <1>9, <2>4
<1> QED BY <1>12, <1>13

(* The tape is a sequence of closes: all that the properties rest on.      *)
TapeInv == tape \in Tapes

LEMMA SignalFacts ==
  ASSUME TapeInv
  PROVE  SignalsInv
<1> USE DEF TapeInv
<1>1. WindowStartForgotten
  <2>1. \A from \in 1..Len(tape), leg \in Trends : \A d \in from..Len(tape) :
          (\E e \in from..d : Crossed(SubSeq(tape, from, Len(tape)), leg, e - from + 1))
            => Eligible(SubSeq(tape, from, Len(tape)), leg)[d - from + 1] = Eligible(tape, leg)[d]
    BY LateFacts
  <2> QED BY <2>1 DEF WindowStartForgotten
<1>2. OutSinceTheFall BY FallFacts DEF OutSinceTheFall
<1>3. WeightsWhole
  <2>1. \A d \in DOMAIN tape : SumFunction(Weights(tape)[d]) = 2 BY WeightFacts, SumOfLegs
  <2>2. \A first, last \in DOMAIN tape :
          (\A d \in first..last : ~Below(tape, "qqq", d)) => RegimeFlips(tape, first, last) <= 1
    BY OneFlip
  <2> QED BY <2>1, <2>2 DEF WeightsWhole
<1> QED BY <1>1, <1>2, <1>3 DEF SignalsInv

LEMMA TapeIsKept == SignalsSpec => []TapeInv
<1>1. SignalsInit => TapeInv BY DEF SignalsInit, Tapes, TapeInv
<1>2. TapeInv /\ [SignalsNext]_tape => TapeInv'
  BY DEF SignalsNext, NextDay, Tapes, TapeInv
<1> QED BY <1>1, <1>2, PTL DEF SignalsSpec

(* On a tape of any length, with any window of two days or more and any    *)
(* closes: a run over fewer days agrees with one over more from the first  *)
(* crossing that both see, a leg is out exactly since its last fall, and   *)
(* every row invests the whole.                                            *)
THEOREM SignalsSound == SignalsSpec => []SignalsInv
BY TapeIsKept, SignalFacts, PTL

(* A day's signals read no later day: when the tape grows they stay.       *)
LEMMA DayKeeps ==
  ASSUME NEW t \in Tapes, NEW c \in [Trends -> Closes], NEW d \in DOMAIN t
  PROVE  /\ Weights(Append(t, c))[d] = Weights(t)[d]
         /\ \A leg \in Trends : Position(Append(t, c), leg)[d] = Position(t, leg)[d]
<1> DEFINE u == Append(t, c)
<1>1. /\ Len(t) \in Nat /\ DOMAIN t = 1..Len(t) /\ u \in Tapes /\ DOMAIN u = 1..(Len(t) + 1)
      /\ \A e \in DOMAIN t : u[e] = t[e]
      /\ SmaWindow \in Nat /\ SmaWindow >= 2
  BY SignalsAssumption DEF Tapes
<1> HIDE DEF u
<1>2. ASSUME NEW e \in DOMAIN t, NEW leg \in Trends
      PROVE  /\ Below(u, leg, e) <=> Below(t, leg, e)
             /\ Clear(u, leg, e) <=> Clear(t, leg, e)
             /\ Position(u, leg)[e] = Position(t, leg)[e]
  <2>1. e \in DOMAIN u BY <1>1
  <2>2. CASE e >= SmaWindow
    <3>1. SameCloses(t, e, u, e)
      <4>1. ASSUME NEW i \in (e - SmaWindow + 1)..e PROVE u[i - (e - e)] = t[i]
        <5>1. i - (e - e) = i /\ i \in DOMAIN t BY <1>1, <2>2
        <5> QED BY <5>1, <1>1
      <4> QED BY <4>1 DEF SameCloses
    <3>2. /\ Sum(u, leg, e) = Sum(t, leg, e)
          /\ u[e][leg] = t[e][leg]
          /\ Below(u, leg, e) <=> Below(t, leg, e)
          /\ Clear(u, leg, e) <=> Clear(t, leg, e)
      BY <1>1, <2>1, <2>2, <3>1, SameWindow
    <3>3. Position(u, leg)[e] = Position(t, leg)[e] BY <2>1, <3>2 DEF Position
    <3> QED BY <3>2, <3>3
  <2>3. CASE ~(e >= SmaWindow)
    <3>1. ~Below(u, leg, e) /\ ~Below(t, leg, e) /\ ~Clear(u, leg, e) /\ ~Clear(t, leg, e)
      BY <2>3 DEF Below, Clear
    <3>2. Position(u, leg)[e] = Position(t, leg)[e] BY <2>1, <2>3 DEF Position
    <3> QED BY <3>1, <3>2
  <2> QED BY <2>2, <2>3
<1>3. ASSUME NEW leg \in Trends PROVE Eligible(u, leg)[d] = Eligible(t, leg)[d]
  <2> DEFINE T == {n \in Nat : n \in DOMAIN t => Eligible(u, leg)[n] = Eligible(t, leg)[n]}
  <2>1. 0 \in T BY <1>1
  <2>2. ASSUME NEW n \in Nat, n \in T PROVE n + 1 \in T
    <3> SUFFICES ASSUME n + 1 \in DOMAIN t
                 PROVE  Eligible(u, leg)[n + 1] = Eligible(t, leg)[n + 1]
      OBVIOUS
    <3>0. n + 1 \in DOMAIN u /\ (n + 1) - 1 = n BY <1>1
    <3>1. /\ Below(u, leg, n + 1) <=> Below(t, leg, n + 1)
          /\ Clear(u, leg, n + 1) <=> Clear(t, leg, n + 1)
      BY <1>2
    <3>2. /\ Eligible(t, leg)[n + 1] \in BOOLEAN
          /\ n \notin DOMAIN t => Eligible(t, leg)[n + 1]
          /\ Below(t, leg, n + 1) => ~Eligible(t, leg)[n + 1]
          /\ Clear(t, leg, n + 1) => Eligible(t, leg)[n + 1]
          /\ ~Crossed(t, leg, n + 1) /\ n \in DOMAIN t =>
               Eligible(t, leg)[n + 1] = Eligible(t, leg)[n]
      BY <3>0, EligibleStep
    <3>3. /\ Eligible(u, leg)[n + 1] \in BOOLEAN
          /\ n \notin DOMAIN u => Eligible(u, leg)[n + 1]
          /\ Below(u, leg, n + 1) => ~Eligible(u, leg)[n + 1]
          /\ Clear(u, leg, n + 1) => Eligible(u, leg)[n + 1]
          /\ ~Crossed(u, leg, n + 1) /\ n \in DOMAIN u =>
               Eligible(u, leg)[n + 1] = Eligible(u, leg)[n]
      BY <1>1, <3>0, EligibleStep
    <3>4. CASE Crossed(t, leg, n + 1) BY <3>1, <3>2, <3>3, <3>4 DEF Crossed
    <3>5. CASE ~Crossed(t, leg, n + 1)
      <4>1. ~Crossed(u, leg, n + 1) BY <3>1, <3>5 DEF Crossed
      <4>2. n \in DOMAIN t <=> n \in DOMAIN u BY <1>1
      <4>3. CASE n \in DOMAIN t
        <5>1. Eligible(u, leg)[n] = Eligible(t, leg)[n] BY <2>2, <4>3
        <5> QED BY <5>1, <3>2, <3>3, <3>5, <4>1, <4>2, <4>3
      <4>4. CASE n \notin DOMAIN t BY <3>2, <3>3, <4>2, <4>4
      <4> QED BY <4>3, <4>4
    <3> QED BY <3>4, <3>5
  <2> HIDE DEF T
  <2>3. Nat \subseteq T BY <2>1, <2>2, SetInduction
  <2>4. d \in Nat BY <1>1
  <2> QED BY <2>3, <2>4 DEF T
<1>4. Eligible(u, "qqq")[d] = Eligible(t, "qqq")[d] /\ Eligible(u, "tlt")[d] = Eligible(t, "tlt")[d]
  BY <1>3, LegFacts
<1>5. d \in DOMAIN u BY <1>1
<1>6. Eligibility(u)[d] = Eligibility(t)[d] BY <1>4, <1>5 DEF Eligibility
<1>7. Weights(u)[d] = Weights(t)[d] BY <1>5, <1>6 DEF Weights
<1> QED BY <1>2, <1>7 DEF u

(* No signal looks ahead of the close it is placed after.                  *)
THEOREM SignalsLookNoFurther == SignalsSpec => NoLookahead
<1> DEFINE Kept == \A d \in DOMAIN tape :
                     /\ Weights(tape')[d] = Weights(tape)[d]
                     /\ \A leg \in Trends : Position(tape', leg)[d] = Position(tape, leg)[d]
<1>1. TapeInv /\ [SignalsNext]_tape => [Kept]_tape
  <2> SUFFICES ASSUME tape \in Tapes, SignalsNext PROVE Kept BY DEF TapeInv
  <2>1. PICK c \in [Trends -> Closes] : tape' = Append(tape, c) BY DEF SignalsNext, NextDay
  <2> QED BY <2>1, DayKeeps
<1> HIDE DEF Kept
<1>2. SignalsSpec => [][Kept]_tape BY <1>1, TapeIsKept, PTL DEF SignalsSpec
<1> QED BY <1>2 DEF NoLookahead, Kept
==============================================================================
