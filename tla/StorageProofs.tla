--------------------------- MODULE StorageProofs ---------------------------
(***************************************************************************)
(* What the files and stores of a node keep: the block journal, the        *)
(* results of transactions, the wallet, the headers, the words and         *)
(* balances of accounts, and the trie.                                     *)
(***************************************************************************)
EXTENDS AccountLedger, BlockJournal, HeaderChain, ResultReads, TrieStore, Wallet, FoldFacts
-----------------------------------------------------------------------------
(* The block journal *)

Fragments == Blocks \X {"begin", "rest"}
Text == Seq(Seq(Fragments))
JournalSteps == {"idle", "check", "begin", "rest", "newline", "insert", "split", "stored", "refused"}

TopHeight == Highest(DOMAIN Loaded)
\* The lowest height a cache that has reached n keeps.
Low(n) == IF n > MaxBlocks THEN n - MaxBlocks + 1 ELSE 1
ChainTo(byHeight, n) ==
  \A h \in 1..n : h \in DOMAIN byHeight /\ ValidChild(IF h = 1 THEN Root ELSE byHeight[h - 1], byHeight[h])

JournalTypeInv ==
  /\ at \in [Threads -> JournalSteps] /\ todo \in [Threads -> Seq(Blocks)]
  /\ node \in {"up", "down", "refused"}
  /\ journal \in Text /\ journal # << >>
  /\ acked \subseteq Blocks
  /\ at[Sync] # "idle" => todo[Sync] # << >>

\* All lines but the last are records; the last is what the step writes.
LinesInv ==
  LET n == Len(journal)
  IN  /\ \A i \in 1..(n - 1) : Parses(journal[i])
      /\ at[Sync] = "rest" => journal[n] = <<<<Head(todo[Sync]), "begin">>>>
      /\ at[Sync] = "newline" => journal[n] = Record(Head(todo[Sync]))
      /\ at[Sync] \notin {"rest", "newline"} => journal[n] = << >>

RecordsInv ==
  /\ TopHeight \in Nat /\ DOMAIN Loaded = 1..TopHeight
  /\ \A h \in DOMAIN Loaded : Loaded[h] \in Blocks /\ Number[Loaded[h]] = h
  /\ \A c \in acked : Number[c] \in DOMAIN Loaded /\ Loaded[Number[c]] = c
  /\ node # "up" => at[Sync] = "idle"

FitsCache(cache, b, lo, hi) ==
  \/ Number[b] \in lo..hi /\ cache[Number[b]] = b
  \/ Number[b] = hi + 1 /\ ValidChild(IF hi = 0 THEN Root ELSE cache[hi], b)

Spans(lo, hi) ==
  /\ lo >= 1 /\ (lo <= hi \/ (lo = 1 /\ hi = 0))
  /\ blocks = [h \in lo..hi |-> Loaded[h]]
  /\ Low(hi) <= lo /\ lo <= Low(TopHeight) 
  /\ ChainTo(Loaded, hi)
  /\ \A c \in acked : Number[c] <= hi
  /\ at[Sync] # "idle" => Linked(todo[Sync])
  /\ at[Sync] = "check" => lo <= Number[todo[Sync][1]]
  /\ at[Sync] \in {"begin", "rest", "newline", "insert"} => FitsCache(blocks, Head(todo[Sync]), lo, hi)
  /\ at[Sync] \in {"newline", "insert"} =>
       LET b == Head(todo[Sync]) IN Number[b] \in DOMAIN Loaded /\ Loaded[Number[b]] = b
  /\ at[Sync] = "split" =>
       LET start == Number[todo[Sync][1]]
       IN  /\ start = 1 \/ start - 1 \in lo..hi
           /\ \A c \in acked : Number[c] < start

CacheInv == node = "up" => \E lo, hi \in Nat : Spans(lo, hi)

JournalInv == JournalTypeInv /\ LinesInv /\ RecordsInv /\ CacheInv
-----------------------------------------------------------------------------
(* What a journal's lines say *)

LEMMA HighestIs == ASSUME NEW n \in Nat PROVE Highest(1..n) = n
<1>1. n \in {0} \cup 1..n /\ \A y \in {0} \cup 1..n : n >= y
  OBVIOUS
<1>2. \A x \in {0} \cup 1..n : (\A y \in {0} \cup 1..n : x >= y) => x = n
  BY <1>1
<1> QED
  BY <1>1, <1>2 DEF Highest, Max

LEMMA RecordIs ==
  /\ \A b \in Blocks : Record(b) \in Seq(Fragments) /\ Parses(Record(b)) /\ BlockOn(Record(b)) = b
  /\ ~Parses(<< >>)
  /\ \A b \in Blocks : ~Parses(<<<<b, "begin">>>>)
<1>1. ASSUME NEW b \in Blocks
      PROVE  Record(b) \in Seq(Fragments) /\ Len(Record(b)) = 2 /\ BlockOn(Record(b)) = b
  BY DEF Record, Fragments, BlockOn
<1>2. \A b \in Blocks : Len(<<<<b, "begin">>>>) = 1
  OBVIOUS
<1>3. Len(<< >>) = 0
  OBVIOUS
<1> QED
  BY <1>1, <1>2, <1>3 DEF Parses

\* A line that is a record names its block.
LEMMA LineBlock ==
  ASSUME NEW lines \in Text, NEW i \in RecordsOn(lines)
  PROVE  i \in 1..Len(lines) /\ BlockOn(lines[i]) \in Blocks /\ lines[i] = Record(BlockOn(lines[i]))
<1>1. PICK b \in Blocks : lines[i] = Record(b)
  BY DEF RecordsOn, Parses
<1>2. i \in 1..Len(lines)
  BY DEF RecordsOn, Text
<1> QED
  BY <1>1, <1>2, RecordIs

LEMMA LatestLine ==
  ASSUME NEW lines \in Text, NEW h \in HeightsOn(lines)
  PROVE  LET i == Max(LinesAt(lines, h))
         IN  i \in LinesAt(lines, h) /\ \A k \in LinesAt(lines, h) : k <= i
<1>1. LinesAt(lines, h) # {} /\ LinesAt(lines, h) \subseteq 1..Len(lines)
  BY LineBlock DEF HeightsOn, LinesAt
<1>2. Len(lines) \in Nat
  BY DEF Text
<1> QED
  BY <1>1, <1>2, GreatestOf

LEMMA LatestIs ==
  ASSUME NEW lines \in Text, NEW h \in DOMAIN LatestOn(lines)
  PROVE  LatestOn(lines)[h] \in Blocks /\ Number[LatestOn(lines)[h]] = h
<1>1. h \in HeightsOn(lines)
  BY DEF LatestOn
<1> DEFINE i == Max(LinesAt(lines, h))
<1>2. i \in RecordsOn(lines) /\ Number[BlockOn(lines[i])] = h
  BY <1>1, LatestLine DEF LinesAt
<1>3. LatestOn(lines)[h] = BlockOn(lines[i])
  BY <1>1 DEF LatestOn
<1> QED
  BY <1>2, <1>3, LineBlock

\* Two journals with the same records say the same.
LEMMA SameRecords ==
  ASSUME NEW lines \in Text, NEW more \in Text, RecordsOn(lines) = RecordsOn(more),
         \A i \in RecordsOn(lines) : lines[i] = more[i]
  PROVE  LatestOn(lines) = LatestOn(more)
<1>1. HeightsOn(lines) = HeightsOn(more)
  BY DEF HeightsOn
<1>2. \A h : LinesAt(lines, h) = LinesAt(more, h)
  BY DEF LinesAt
<1>3. \A h \in HeightsOn(lines) : lines[Max(LinesAt(lines, h))] = more[Max(LinesAt(more, h))]
  BY <1>2, LatestLine DEF LinesAt
<1> QED
  BY <1>1, <1>3 DEF LatestOn

\* An empty last line is not missed.
LEMMA FileTells ==
  ASSUME NEW lines \in Text, lines # << >>
  PROVE  LatestOn(IF Last(lines) = << >> THEN Front(lines) ELSE lines) = LatestOn(lines)
<1> DEFINE n == Len(lines)
           file == IF Last(lines) = << >> THEN Front(lines) ELSE lines
<1>1. n \in Nat \ {0} /\ DOMAIN lines = 1..n
  BY DEF Text
<1>2. CASE Last(lines) # << >>
  BY <1>2
<1>3. CASE Last(lines) = << >>
  <2>1. Front(lines) \in Text /\ DOMAIN Front(lines) = 1..(n - 1) /\ \A i \in 1..(n - 1) : Front(lines)[i] = lines[i]
    BY <1>1 DEF Front, Text
  <2>2. ~Parses(lines[n])
    BY <1>3, RecordIs DEF Last
  <2>3. RecordsOn(Front(lines)) = RecordsOn(lines)
    BY <1>1, <2>1, <2>2 DEF RecordsOn
  <2>4. \A i \in RecordsOn(lines) : Front(lines)[i] = lines[i]
    BY <2>1, <2>3 DEF RecordsOn
  <2>5. LatestOn(Front(lines)) = LatestOn(lines)
    BY <2>1, <2>3, <2>4, SameRecords
  <2> QED
    BY <1>3, <2>5
<1> QED
  BY <1>2, <1>3

\* A new record at the end is the latest of its height.
LEMMA NewRecord ==
  ASSUME NEW lines \in Text, lines # << >>, ~Parses(lines[Len(lines)]), NEW b \in Blocks
  PROVE  LET old == LatestOn(lines)
         IN  LatestOn([lines EXCEPT ![Len(lines)] = Record(b)])
             = [h \in DOMAIN old \cup {Number[b]} |-> IF h = Number[b] THEN b ELSE old[h]]
<1> DEFINE n == Len(lines)
           more == [lines EXCEPT ![n] = Record(b)]
<1>1. n \in Nat \ {0} /\ DOMAIN lines = 1..n
  BY DEF Text
<1>2. /\ more \in Text /\ DOMAIN more = 1..n /\ more[n] = Record(b) /\ Len(more) = n
      /\ \A i \in 1..(n - 1) : more[i] = lines[i]
  <2>1. Record(b) \in Seq(Fragments)
    BY RecordIs
  <2> HIDE DEF Text
  <2>2. lines \in Seq(Seq(Fragments))
    BY DEF Text
  <2>3. more \in Seq(Seq(Fragments)) /\ Len(more) = n
    BY <1>1, <2>1, <2>2
  <2>4. DOMAIN more = 1..n /\ more[n] = Record(b) /\ \A i \in 1..(n - 1) : more[i] = lines[i]
    <3> HIDE DEF n
    <3>1. n \in DOMAIN lines /\ \A i \in 1..(n - 1) : i \in DOMAIN lines /\ i # n
      BY <1>1
    <3> QED
      BY <1>1, <2>2, <3>1, Zenon
  <2> HIDE DEF more, n
  <2> QED
    BY <2>3, <2>4 DEF Text
<1> HIDE DEF more
<1>3. RecordsOn(more) = RecordsOn(lines) \cup {n} /\ n \notin RecordsOn(lines)
  BY <1>1, <1>2, RecordIs DEF RecordsOn
<1>4. BlockOn(more[n]) = b /\ \A i \in RecordsOn(lines) : more[i] = lines[i]
  BY <1>1, <1>2, <1>3, RecordIs DEF RecordsOn
<1>5. HeightsOn(more) = HeightsOn(lines) \cup {Number[b]}
  BY <1>3, <1>4 DEF HeightsOn
<1>6. ASSUME NEW h \in HeightsOn(more), h # Number[b]
      PROVE  h \in HeightsOn(lines) /\ LatestOn(more)[h] = LatestOn(lines)[h]
  <2>1. h \in HeightsOn(lines)
    BY <1>5, <1>6
  <2>2. LinesAt(more, h) = LinesAt(lines, h)
    BY <1>3, <1>4, <1>6 DEF LinesAt
  <2>3. more[Max(LinesAt(more, h))] = lines[Max(LinesAt(lines, h))]
    BY <1>4, <2>1, <2>2, LatestLine DEF LinesAt
  <2> QED
    BY <2>1, <2>3, <1>6 DEF LatestOn
<1>7. Number[b] \in HeightsOn(more) /\ LatestOn(more)[Number[b]] = b
  <2>1. Number[b] \in HeightsOn(more) /\ n \in LinesAt(more, Number[b])
    BY <1>3, <1>4, <1>5 DEF LinesAt
  <2>2. Max(LinesAt(more, Number[b])) \in 1..n /\ n <= Max(LinesAt(more, Number[b]))
    BY <1>2, <2>1, LatestLine, LineBlock DEF LinesAt
  <2>3. Max(LinesAt(more, Number[b])) = n
    BY <1>1, <2>2
  <2> QED
    BY <1>4, <2>1, <2>3 DEF LatestOn
<1>8. DOMAIN LatestOn(lines) = HeightsOn(lines) /\ DOMAIN LatestOn(more) = HeightsOn(more)
  BY DEF LatestOn
<1>9. LatestOn(more) = [h \in HeightsOn(more) |-> LatestOn(more)[h]]
  BY DEF LatestOn
<1>10. LatestOn(more) = [h \in HeightsOn(lines) \cup {Number[b]} |-> IF h = Number[b] THEN b ELSE LatestOn(lines)[h]]
  BY <1>5, <1>6, <1>7, <1>9
<1> QED
  BY <1>8, <1>10 DEF more

\* The newest of a row of heights.
LEMMA KeptIs ==
  ASSUME NEW lo \in Nat, NEW hi \in Nat
  PROVE  Kept(lo..hi) = {h \in lo..hi : hi - h < MaxBlocks}
<1>1. ASSUME NEW h \in lo..hi PROVE Cardinality({g \in lo..hi : g > h}) = hi - h
  <2>1. {g \in lo..hi : g > h} = (h + 1)..hi
    OBVIOUS
  <2>2. h + 1 \in Int /\ hi \in Int /\ h <= hi
    OBVIOUS
  <2>3. Cardinality((h + 1)..hi) = IF h + 1 > hi THEN 0 ELSE hi - (h + 1) + 1
    BY <2>2, FS_Interval
  <2>4. hi \in Int /\ h \in Int /\ h <= hi => (IF h + 1 > hi THEN 0 ELSE hi - (h + 1) + 1) = hi - h
    OBVIOUS
  <2>5. (IF h + 1 > hi THEN 0 ELSE hi - (h + 1) + 1) = hi - h
    BY <2>2, <2>4
  <2> QED
    BY <2>1, <2>3, <2>5, Zenon
<1> QED
  BY <1>1 DEF Kept
-----------------------------------------------------------------------------
(* What a step leaves of it *)

LEMMA LowGrows ==
  ASSUME NEW m \in Nat, NEW n \in Nat, m <= n
  PROVE  Low(m) \in Nat \ {0} /\ Low(n) \in Nat \ {0} /\ Low(m) <= Low(n)
  BY CacheAssumption DEF Low

LEMMA JournalTyped ==
  ASSUME JournalTypeInv
  PROVE  /\ Sync \in Threads /\ todo[Sync] \in Seq(Blocks) /\ at[Sync] \in JournalSteps
         /\ todo[Sync] # << >> => /\ Head(todo[Sync]) \in Blocks /\ Head(todo[Sync]) = todo[Sync][1]
                                  /\ Tail(todo[Sync]) \in Seq(Blocks) /\ Len(todo[Sync]) \in Nat \ {0}
         /\ Len(journal) \in Nat \ {0} /\ DOMAIN journal = 1..Len(journal)
<1>1. Sync \in Threads /\ todo[Sync] \in Seq(Blocks) /\ at[Sync] \in JournalSteps
  BY JournalAssumption DEF JournalTypeInv
<1>2. Len(journal) \in Nat \ {0} /\ DOMAIN journal = 1..Len(journal)
  BY DEF JournalTypeInv, Text
<1>3. todo[Sync] # << >> => /\ Head(todo[Sync]) \in Blocks /\ Head(todo[Sync]) = todo[Sync][1]
                            /\ Tail(todo[Sync]) \in Seq(Blocks) /\ Len(todo[Sync]) \in Nat \ {0}
  BY <1>1
<1> QED
  BY <1>1, <1>2, <1>3

\* The task goes on with the blocks it has.
LEMMA JournalGoesOn ==
  ASSUME JournalTypeInv, NEW step \in JournalSteps, Goto(Sync, step), todo' = todo,
         step = "idle" \/ todo[Sync] # << >>, node' \in {"up", "down", "refused"},
         journal' \in Text, journal' # << >>, acked' \subseteq Blocks
  PROVE  JournalTypeInv' /\ at[Sync]' = step
<1>1. at' \in [Threads -> JournalSteps] /\ at[Sync]' = step
  BY JournalTyped DEF JournalTypeInv, Goto
<1> QED
  BY <1>1 DEF JournalTypeInv

\* The task goes on with other blocks.
LEMMA GoesOnWith ==
  ASSUME JournalTypeInv, NEW step \in JournalSteps, Goto(Sync, step),
         NEW list \in Seq(Blocks), todo' = [todo EXCEPT ![Sync] = list],
         step = "idle" \/ list # << >>, node' \in {"up", "down", "refused"}, journal' = journal, acked' \subseteq Blocks
  PROVE  JournalTypeInv' /\ at[Sync]' = step /\ todo[Sync]' = list
<1>1. at' \in [Threads -> JournalSteps] /\ at[Sync]' = step
  BY JournalTyped DEF JournalTypeInv, Goto
<1>2. todo' \in [Threads -> Seq(Blocks)] /\ todo[Sync]' = list
  BY JournalTyped DEF JournalTypeInv
<1> QED
  BY <1>1, <1>2 DEF JournalTypeInv

\* What stays when the journal does.
LEMMA SameJournal ==
  ASSUME journal' = journal, RecordsInv, LinesInv, acked' \subseteq acked, node' # "up" => at[Sync]' = "idle",
         at[Sync] \notin {"rest", "newline"}, at[Sync]' \notin {"rest", "newline"}
  PROVE  Loaded' = Loaded /\ TopHeight' = TopHeight /\ RecordsInv' /\ LinesInv'
<1>1. Loaded' = Loaded /\ TopHeight' = TopHeight
  BY DEF Loaded, FileLines, TopHeight
<1>2. RecordsInv'
  BY <1>1 DEF RecordsInv
<1>3. LinesInv'
  BY DEF LinesInv
<1> QED
  BY <1>1, <1>2, <1>3

\* A call hands over its blocks; a replacement forgets what it will replace.
LEMMA CallInv ==
  ASSUME JournalInv, CallCache
  PROVE  JournalInv'
<1>1. /\ node = "up" /\ at[Sync] = "idle"
      /\ UNCHANGED <<blocks, ever, journal, node>>
  BY DEF CallCache, cacheVars
<1> USE DEF JournalInv
<1>2. PICK lo \in Nat, hi \in Nat : Spans(lo, hi)
  BY <1>1 DEF CacheInv
<1>3. CASE \E b \in {x \in Blocks : InWindow(x)} : CallStore(Sync, b) /\ UNCHANGED acked
  <2>1. PICK b \in Blocks : InWindow(b) /\ CallStore(Sync, b) /\ UNCHANGED acked
    BY <1>3
  <2>2. JournalTypeInv' /\ at[Sync]' = "check" /\ todo[Sync]' = <<b>>
    <3>1. <<b>> \in Seq(Blocks) /\ <<b>> # << >> /\ "check" \in JournalSteps
      BY DEF JournalSteps
    <3>2. node' \in {"up", "down", "refused"} /\ journal' = journal /\ acked' \subseteq Blocks
      BY <1>1, <2>1 DEF JournalTypeInv
    <3>3. Goto(Sync, "check") /\ todo' = [todo EXCEPT ![Sync] = <<b>>]
      BY <2>1 DEF CallStore
    <3> QED
      BY <3>1, <3>2, <3>3, GoesOnWith
  <2>3. Loaded' = Loaded /\ TopHeight' = TopHeight /\ RecordsInv' /\ LinesInv'
    BY <1>1, <2>1, <2>2, SameJournal
  <2>4. lo <= Number[b]
    <3>1. CASE DOMAIN blocks = {}
      <4>1. lo..hi = {} /\ (lo <= hi \/ lo = 1)
        BY <1>2, <3>1 DEF Spans
      <4>2. lo = 1
        BY <4>1
      <4>3. Number[b] \in Nat \ {0}
        BY CacheAssumption
      <4> QED
        BY <4>2, <4>3
    <3>2. CASE DOMAIN blocks # {}
      <4>1. DOMAIN blocks \subseteq Nat /\ DOMAIN blocks = lo..hi
        BY <1>2 DEF Spans
      <4>2. Number[b] >= Min(DOMAIN blocks) /\ Min(DOMAIN blocks) \in lo..hi
        BY <2>1, <3>2, <4>1, LeastOf DEF InWindow
      <4> QED
        BY <4>2, CacheAssumption
    <3> QED
      BY <3>1, <3>2
  <2>5. Linked(<<b>>)
    BY DEF Linked
  <2>6. Spans(lo, hi)'
    BY <1>1, <1>2, <2>1, <2>2, <2>3, <2>4, <2>5 DEF Spans
  <2> QED
    BY <2>2, <2>3, <2>6 DEF CacheInv
<1>4. CASE \E chain \in Chains : CallReplace(Sync, chain) /\ acked' = Below(chain)
  <2>1. PICK chain \in Seq(Blocks) \ {<< >>} : CallReplace(Sync, chain) /\ acked' = Below(chain)
    BY <1>4, JournalAssumption
  <2>2. acked' \subseteq acked /\ \A c \in acked' : Number[c] < Number[chain[1]]
    BY <2>1 DEF Below
  <2>3. JournalTypeInv' /\ at[Sync]' = "split" /\ todo[Sync]' = chain
    BY <1>1, <2>1, <2>2, GoesOnWith DEF CallReplace, JournalSteps, JournalTypeInv
  <2>4. Loaded' = Loaded /\ TopHeight' = TopHeight /\ RecordsInv' /\ LinesInv'
    BY <1>1, <2>2, <2>3, SameJournal
  <2>5. Linked(chain) /\ (Number[chain[1]] = 1 \/ Number[chain[1]] - 1 \in lo..hi)
    BY <1>2, <2>1 DEF CallReplace, ValidateReplacement, Spans
  <2>6. Spans(lo, hi)'
    BY <1>1, <1>2, <2>2, <2>3, <2>4, <2>5 DEF Spans
  <2> QED
    BY <2>3, <2>4, <2>6 DEF CacheInv
<1> QED
  BY <1>3, <1>4 DEF CallCache

\* A block that passes follows the cache, or is in it.
LEMMA CheckInv ==
  ASSUME Persistence, JournalInv, node = "up", UNCHANGED <<node, acked>>, Check(Sync)
  PROVE  JournalInv'
<1> DEFINE b == Head(todo[Sync])
<1> USE DEF JournalInv
<1>1. at[Sync] = "check" /\ UNCHANGED <<blocks, journal, todo>> /\ todo[Sync] # << >>
  BY DEF Check, cacheVars, JournalTypeInv
<1>2. PICK lo \in Nat, hi \in Nat : Spans(lo, hi)
  BY DEF CacheInv
<1>3. PICK step \in {"refused", "begin", "insert"} : Goto(Sync, step) /\ (step # "refused" => ValidateInsert(b))
                                                   /\ (step = "insert" => ~Persistence)
  BY DEF Check
<1>4. JournalTypeInv' /\ at[Sync]' = step
  BY <1>1, <1>3, JournalGoesOn DEF JournalTypeInv, JournalSteps
<1>5. Loaded' = Loaded /\ TopHeight' = TopHeight /\ RecordsInv' /\ LinesInv'
  BY <1>1, <1>4, SameJournal
<1>6. b \in Blocks /\ b = todo[Sync][1] /\ Number[b] \in Nat \ {0}
  BY <1>1, JournalTyped, CacheAssumption
<1>7. step # "refused" => FitsCache(blocks, b, lo, hi)
  <2> SUFFICES ASSUME ValidateInsert(b) PROVE FitsCache(blocks, b, lo, hi)
    BY <1>3
  <2>1. lo <= Number[b] /\ DOMAIN blocks = lo..hi /\ lo >= 1 /\ (lo <= hi \/ (lo = 1 /\ hi = 0))
    BY <1>1, <1>2, <1>6 DEF Spans
  <2>2. CASE Number[b] \in DOMAIN blocks
    BY <2>1, <2>2 DEF ValidateInsert, FitsCache
  <2>3. CASE Number[b] \notin DOMAIN blocks /\ Number[b] - 1 \in DOMAIN blocks
    <3>1. Number[b] = hi + 1 /\ hi # 0 /\ ValidChild(blocks[Number[b] - 1], b)
      BY <1>6, <2>1, <2>3 DEF ValidateInsert
    <3> QED
      BY <3>1 DEF FitsCache
  <2>4. CASE Number[b] \notin DOMAIN blocks /\ Number[b] - 1 \notin DOMAIN blocks
    <3>1. Number[b] = 1 /\ ValidChild(Root, b)
      BY <2>4 DEF ValidateInsert
    <3>2. hi = 0
      BY <2>1, <2>4, <3>1
    <3> QED
      BY <3>1, <3>2 DEF FitsCache
  <2> QED
    BY <2>2, <2>3, <2>4
<1>8. Spans(lo, hi)'
  <2>1. step # "insert" /\ step # "newline" /\ step # "check" /\ step # "split"
    BY <1>3
  <2>2. Linked(todo[Sync]')
    BY <1>1, <1>2 DEF Spans
  <2>3. step = "begin" => FitsCache(blocks', Head(todo[Sync]'), lo, hi)
    BY <1>1, <1>7
  <2> HIDE DEF b
  <2> QED
    BY <1>1, <1>2, <1>4, <1>5, <2>1, <2>2, <2>3 DEF Spans
<1> QED
  BY <1>4, <1>5, <1>8 DEF CacheInv

\* A record goes to the journal in three writes.
LEMMA WriteInv ==
  ASSUME JournalInv, node = "up", UNCHANGED <<node, acked>>, Begin(Sync) \/ Rest(Sync) \/ Newline(Sync)
  PROVE  JournalInv'
<1> DEFINE b == Head(todo[Sync])
           n == Len(journal)
<1> USE DEF JournalInv
<1>1. /\ at[Sync] \in {"begin", "rest", "newline"} /\ UNCHANGED <<blocks, todo>> /\ todo[Sync] # << >>
  BY DEF Begin, Rest, Newline, cacheVars, JournalTypeInv
<1>2. PICK lo \in Nat, hi \in Nat : Spans(lo, hi)
  BY DEF CacheInv
<1>3. b \in Blocks /\ b = todo[Sync][1] /\ Number[b] \in Nat \ {0} /\ FitsCache(blocks, b, lo, hi)
  BY <1>1, <1>2, JournalTyped, CacheAssumption DEF Spans
<1>4. n \in Nat \ {0} /\ DOMAIN journal = 1..n /\ journal \in Text /\ journal # << >>
  BY JournalTyped DEF JournalTypeInv
<1>5. Loaded = LatestOn(journal)
  BY <1>4, FileTells DEF Loaded, FileLines
<1>6. \A i \in 1..(n - 1) : Parses(journal[i])
  BY DEF LinesInv
<1> HIDE DEF b, n
<1>7. CASE Begin(Sync)
  <2>1. journal[n] = << >> /\ <<b, "begin">> \in Fragments
    BY <1>3, <1>7 DEF LinesInv, n, Begin, Fragments
  <2>2. journal' = [journal EXCEPT ![n] = <<<<b, "begin">>>>]
    BY <1>4, <1>7, <2>1 DEF Begin, WriteFragment, b, n
  <2>3. /\ journal' \in Text /\ journal' # << >> /\ Len(journal') = n /\ journal'[n] = <<<<b, "begin">>>>
        /\ \A i \in 1..(n - 1) : journal'[i] = journal[i]
    <3>1. <<<<b, "begin">>>> \in Seq(Fragments)
      BY <2>1
    <3>2. journal' \in Seq(Seq(Fragments)) /\ Len(journal') = n
      BY <1>4, <2>2, <3>1 DEF Text, n
    <3>3. journal'[n] = <<<<b, "begin">>>> /\ \A i \in 1..(n - 1) : journal'[i] = journal[i]
      BY <1>4, <2>2
    <3>4. journal' # << >>
      BY <1>4, <3>2
    <3> QED
      BY <3>2, <3>3, <3>4 DEF Text
  <2>4. JournalTypeInv' /\ at[Sync]' = "rest"
    <3>1. Goto(Sync, "rest") /\ "rest" \in JournalSteps
      BY <1>7 DEF Begin, JournalSteps
    <3> QED
      BY <1>1, <2>3, <3>1, JournalGoesOn DEF JournalTypeInv
  <2>5. ~Parses(journal[n]) /\ ~Parses(journal'[n])
    BY <1>3, <2>1, <2>3, RecordIs
  <2>6. DOMAIN journal' = 1..n
    BY <2>3 DEF Text
  <2>7. RecordsOn(journal) = RecordsOn(journal')
    BY <1>4, <2>3, <2>5, <2>6 DEF RecordsOn
  <2>8. \A i \in RecordsOn(journal) : journal[i] = journal'[i]
    BY <1>4, <2>3, <2>5 DEF RecordsOn
  <2>9. LatestOn(journal') = LatestOn(journal)
    BY <1>4, <2>3, <2>7, <2>8, SameRecords
  <2>10. Loaded' = Loaded
    BY <1>5, <2>3, <2>9, FileTells DEF Loaded, FileLines
  <2>11. TopHeight' = TopHeight
    BY <2>10 DEF TopHeight
  <2>12. RecordsInv'
    BY <2>10, <2>11 DEF RecordsInv
  <2>13. LinesInv'
    BY <1>1, <1>6, <2>3, <2>4 DEF LinesInv, b
  <2>14. Spans(lo, hi)'
    BY <1>1, <1>2, <1>3, <2>4, <2>10, <2>11 DEF Spans, FitsCache, b
  <2> QED
    BY <2>4, <2>12, <2>13, <2>14 DEF CacheInv
<1>8. CASE Newline(Sync)
  <2>1. journal' = Append(journal, << >>) /\ Goto(Sync, "insert") /\ "insert" \in JournalSteps
    BY <1>8 DEF Newline, JournalSteps
  <2>2. /\ journal' \in Text /\ journal' # << >> /\ Len(journal') = n + 1 /\ journal'[n + 1] = << >>
        /\ \A i \in 1..n : journal'[i] = journal[i]
    <3>1. journal \in Seq(Seq(Fragments)) /\ << >> \in Seq(Fragments)
      BY <1>4 DEF Text
    <3>2. journal' \in Seq(Seq(Fragments)) /\ Len(journal') = n + 1
      BY <2>1, <3>1 DEF n
    <3>3. journal'[n + 1] = << >> /\ \A i \in 1..n : journal'[i] = journal[i]
      BY <2>1, <3>1, AppendProperties DEF n
    <3> QED
      BY <1>4, <3>2, <3>3 DEF Text
  <2>3. JournalTypeInv' /\ at[Sync]' = "insert"
    BY <1>1, <2>1, <2>2, JournalGoesOn DEF JournalTypeInv
  <2>4. journal[n] = Record(b)
    BY <1>8 DEF LinesInv, Newline, n, b
  <2>5. DOMAIN journal' = 1..(n + 1)
    BY <2>2 DEF Text
  <2>6. RecordsOn(journal) = RecordsOn(journal')
    BY <1>4, <2>2, <2>5, RecordIs DEF RecordsOn
  <2>7. \A i \in RecordsOn(journal) : journal[i] = journal'[i]
    BY <1>4, <2>2 DEF RecordsOn
  <2>8. LatestOn(journal') = LatestOn(journal)
    BY <1>4, <2>2, <2>6, <2>7, SameRecords
  <2>9. Loaded' = Loaded
    BY <1>5, <2>2, <2>8, FileTells DEF Loaded, FileLines
  <2>10. TopHeight' = TopHeight
    BY <2>9 DEF TopHeight
  <2>11. RecordsInv'
    BY <2>9, <2>10 DEF RecordsInv
  <2>12. LinesInv'
    <3>1. \A i \in 1..n : Parses(journal'[i])
      BY <1>3, <1>4, <1>6, <2>2, <2>4, RecordIs
    <3> QED
      BY <1>4, <2>2, <2>3, <3>1 DEF LinesInv
  <2>13. Spans(lo, hi)'
    BY <1>1, <1>2, <1>3, <1>8, <2>3, <2>9, <2>10 DEF Spans, FitsCache, b, Newline
  <2> QED
    BY <2>3, <2>11, <2>12, <2>13 DEF CacheInv
<1>9. CASE Rest(Sync)
  <2> DEFINE old == Loaded
  <2>1. journal[n] = <<<<b, "begin">>>> /\ Goto(Sync, "newline") /\ "newline" \in JournalSteps
    BY <1>9 DEF LinesInv, n, b, Rest, JournalSteps
  <2>2. journal' = [journal EXCEPT ![n] = Record(b)]
    <3>1. journal' = [journal EXCEPT ![n] = Append(journal[n], <<b, "rest">>)]
      BY <1>9 DEF Rest, WriteFragment, n, b
    <3>2. ASSUME NEW S, NEW x \in S, NEW y \in S PROVE Append(<<x>>, y) = <<x, y>>
      <4>1. <<x>> \in Seq(S) /\ <<x, y>> \in Seq(S) /\ Len(<<x, y>>) = 2 /\ Len(<<x>>) = 1
        OBVIOUS
      <4>2. Append(<<x>>, y) \in Seq(S) /\ Len(Append(<<x>>, y)) = 2
        BY <4>1
      <4>3. Append(<<x>>, y)[1] = x /\ Append(<<x>>, y)[2] = y
        BY <4>1
      <4>4. \A i \in 1..2 : i = 1 \/ i = 2
        OBVIOUS
      <4>5. <<x, y>>[1] = x /\ <<x, y>>[2] = y
        OBVIOUS
      <4>6. \A i \in 1..2 : Append(<<x>>, y)[i] = <<x, y>>[i]
        BY <4>3, <4>4, <4>5, Zenon
      <4> QED
        BY <4>1, <4>2, <4>6, SeqEqual
    <3>3. <<b, "begin">> \in Fragments /\ <<b, "rest">> \in Fragments
      BY <1>3 DEF Fragments
    <3> QED
      BY <2>1, <3>1, <3>2, <3>3 DEF Record
  <2>3. /\ journal' \in Text /\ journal' # << >> /\ Len(journal') = n /\ journal'[n] = Record(b)
        /\ \A i \in 1..(n - 1) : journal'[i] = journal[i]
    <3>1. Record(b) \in Seq(Fragments)
      BY <1>3, RecordIs
    <3>2. journal' \in Seq(Seq(Fragments)) /\ Len(journal') = n
      BY <1>4, <2>2, <3>1 DEF Text, n
    <3>3. journal'[n] = Record(b) /\ \A i \in 1..(n - 1) : journal'[i] = journal[i]
      BY <1>4, <2>2
    <3>4. journal' # << >>
      BY <1>4, <3>2
    <3> QED
      BY <3>2, <3>3, <3>4 DEF Text
  <2>4. JournalTypeInv' /\ at[Sync]' = "newline"
    BY <1>1, <2>1, <2>3, JournalGoesOn DEF JournalTypeInv
  <2>5. LatestOn(journal') = [h \in DOMAIN old \cup {Number[b]} |-> IF h = Number[b] THEN b ELSE old[h]]
    <3>1. ~Parses(journal[n])
      BY <1>3, <2>1, RecordIs
    <3>2. LET o == LatestOn(journal)
          IN  LatestOn([journal EXCEPT ![Len(journal)] = Record(b)])
              = [h \in DOMAIN o \cup {Number[b]} |-> IF h = Number[b] THEN b ELSE o[h]]
      BY <1>3, <1>4, <3>1, NewRecord DEF n
    <3> QED
      BY <1>5, <2>2, <3>2 DEF n
  <2>6. Loaded' = [h \in DOMAIN old \cup {Number[b]} |-> IF h = Number[b] THEN b ELSE old[h]]
    BY <2>3, <2>5, FileTells DEF Loaded, FileLines
  <2> HIDE DEF old
  <2>7. /\ DOMAIN old = 1..TopHeight /\ TopHeight \in Nat
        /\ \A h \in DOMAIN old : old[h] \in Blocks /\ Number[old[h]] = h
        /\ \A c \in acked : Number[c] \in DOMAIN old /\ old[Number[c]] = c
    BY DEF RecordsInv, old
  <2>8. hi <= TopHeight /\ \A h \in lo..hi : blocks[h] = old[h]
    <3>1. hi = 0 \/ hi \in DOMAIN old
      BY <1>2 DEF Spans, ChainTo, old
    <3> QED
      BY <1>2, <2>7, <3>1 DEF Spans, old
  <2>9. Number[b] <= hi => old[Number[b]] = b
    BY <1>3, <2>8 DEF FitsCache
  <2>10. TopHeight' \in Nat /\ DOMAIN Loaded' = 1..TopHeight' /\ TopHeight <= TopHeight'
    <3>1. CASE Number[b] <= TopHeight
      <4>1. DOMAIN Loaded' = 1..TopHeight
        BY <1>3, <2>6, <2>7, <3>1
      <4> QED
        BY <4>1, <2>7, HighestIs DEF TopHeight
    <3>2. CASE Number[b] > TopHeight
      <4>1. Number[b] = TopHeight + 1
        BY <1>3, <2>7, <2>8, <3>2 DEF FitsCache
      <4>2. DOMAIN Loaded' = 1..(TopHeight + 1)
        BY <2>6, <2>7, <4>1
      <4> QED
        BY <4>2, <2>7, HighestIs DEF TopHeight
    <3> QED
      BY <1>3, <2>7, <3>1, <3>2
  <2>11. /\ \A h \in 1..hi : h \in DOMAIN Loaded' /\ Loaded'[h] = old[h]
         /\ \A h \in DOMAIN Loaded' : Loaded'[h] \in Blocks /\ Number[Loaded'[h]] = h
         /\ Number[b] \in DOMAIN Loaded' /\ Loaded'[Number[b]] = b
    <3>1. ASSUME NEW h \in 1..hi PROVE h \in DOMAIN Loaded' /\ Loaded'[h] = old[h]
      <4>1. h \in DOMAIN old
        BY <2>7, <2>8
      <4>2. h = Number[b] => old[h] = b
        BY <2>9
      <4> QED
        BY <2>6, <4>1, <4>2
    <3>2. ASSUME NEW h \in DOMAIN Loaded' PROVE Loaded'[h] \in Blocks /\ Number[Loaded'[h]] = h
      BY <1>3, <2>6, <2>7
    <3> QED
      BY <2>6, <3>1, <3>2
  <2>12. \A c \in acked : Number[c] \in 1..hi
    BY <1>2, CacheAssumption DEF Spans, JournalTypeInv
  <2>13. RecordsInv'
    <3>1. \A c \in acked : Number[c] \in DOMAIN Loaded' /\ Loaded'[Number[c]] = c
      BY <2>7, <2>11, <2>12
    <3> QED
      BY <2>10, <2>11, <3>1 DEF RecordsInv
  <2>14. LinesInv'
    BY <1>1, <1>4, <1>6, <2>3, <2>4 DEF LinesInv, b
  <2>15. ChainTo(Loaded', hi)
    <3>1. ChainTo(old, hi)
      BY <1>2 DEF Spans, old
    <3>2. \A h \in 1..hi : h # 1 => h - 1 \in 1..hi
      OBVIOUS
    <3> QED
      BY <2>11, <3>1, <3>2 DEF ChainTo
  <2>16. lo <= Low(TopHeight')
    <3>1. lo <= Low(TopHeight)
      BY <1>2 DEF Spans
    <3> QED
      <4>1. Low(TopHeight) \in Nat /\ Low(TopHeight') \in Nat /\ Low(TopHeight) <= Low(TopHeight')
        BY <2>7, <2>10, LowGrows
      <4> QED
        BY <3>1, <4>1
  <2>17. \A h \in lo..hi : blocks'[h] = Loaded'[h]
    BY <1>1, <1>2, <2>8, <2>11 DEF Spans
  <2>18. FitsCache(blocks', b, lo, hi) /\ b = Head(todo'[Sync])
    BY <1>1, <1>3 DEF b
  <2>19. Spans(lo, hi)'
    BY <1>1, <1>2, <2>4, <2>11, <2>15, <2>16, <2>17, <2>18 DEF Spans, b
  <2> QED
    BY <2>4, <2>13, <2>14, <2>19 DEF CacheInv
<1> QED
  BY <1>7, <1>8, <1>9

\* The block goes into the cache; the oldest leave it.
LEMMA InsertInv ==
  ASSUME JournalInv, node = "up", node' = node, acked' = acked \cup {Head(todo[Sync])}, Insert(Sync)
  PROVE  JournalInv'
<1> USE DEF JournalInv
<1>1. at[Sync] = "insert" /\ journal' = journal /\ todo[Sync] # << >> /\ blocks' = WithBlock(Head(todo[Sync]))
  BY DEF Insert, JournalTypeInv
<1>2. PICK lo \in Nat, hi \in Nat : Spans(lo, hi)
  BY DEF CacheInv
<1> DEFINE b == Head(todo[Sync])
           top == IF Number[b] = hi + 1 THEN hi + 1 ELSE hi
           low == IF Low(top) > lo THEN Low(top) ELSE lo
<1>3. /\ b \in Blocks /\ b = todo[Sync][1] /\ Number[b] \in Nat \ {0} /\ FitsCache(blocks, b, lo, hi)
      /\ Number[b] \in DOMAIN Loaded /\ Loaded[Number[b]] = b
  BY <1>1, <1>2, JournalTyped, CacheAssumption DEF Spans
<1>4. /\ DOMAIN blocks = lo..hi /\ lo >= 1 /\ (lo <= hi \/ (lo = 1 /\ hi = 0)) /\ Linked(todo[Sync])
      /\ Low(hi) <= lo /\ lo <= Low(TopHeight) /\ ChainTo(Loaded, hi) /\ \A h \in lo..hi : blocks[h] = Loaded[h]
      /\ \A c \in acked : Number[c] <= hi
  BY <1>1, <1>2 DEF Spans
<1>5. Number[b] \in lo..top /\ top \in {hi, hi + 1} /\ top \in Nat /\ top >= 1
  BY <1>3, <1>4 DEF FitsCache
<1>6. Low(hi) \in Nat /\ Low(top) \in Nat /\ Low(hi) <= Low(top) /\ Low(top) <= top
  BY <1>5, LowGrows, CacheAssumption DEF Low
<1>7. top <= TopHeight /\ TopHeight \in Nat /\ Low(top) <= Low(TopHeight) /\ Low(TopHeight) \in Nat
  <2>1. hi = 0 \/ hi \in DOMAIN Loaded
    BY <1>4 DEF ChainTo
  <2>2. DOMAIN Loaded = 1..TopHeight /\ TopHeight \in Nat
    BY DEF RecordsInv
  <2>3. top <= TopHeight
    BY <1>3, <2>1, <2>2
  <2> QED
    BY <1>5, <2>2, <2>3, LowGrows
<1> HIDE DEF b
<1>8. /\ blocks' = [h \in low..top |-> IF h = Number[b] THEN b ELSE blocks[h]]
      /\ low \in Nat /\ low >= 1 /\ low <= top
  <2>1. DOMAIN blocks \cup {Number[b]} = lo..top
    BY <1>3, <1>4, <1>5 DEF FitsCache
  <2>2. Kept(lo..top) = {h \in lo..top : top - h < MaxBlocks}
    BY <1>5, KeptIs
  <2>3. \A h \in lo..top : top - h < MaxBlocks <=> Low(top) <= h
    BY <1>4, <1>5, CacheAssumption DEF Low
  <2>4. low \in Nat /\ low >= 1 /\ low <= top
    BY <1>4, <1>5, <1>6
  <2>5. Kept(lo..top) = low..top
    <3>1. \A h \in lo..top : Low(top) <= h <=> h \in low..top
      BY <1>4, <1>5, <1>6
    <3>2. low..top \subseteq lo..top
      BY <1>4, <1>5, <1>6
    <3> HIDE DEF low, top
    <3> QED
      BY <2>2, <2>3, <3>1, <3>2
  <2> HIDE DEF low, top
  <2> QED
    BY <1>1, <2>1, <2>4, <2>5 DEF WithBlock, b
<1> DEFINE Loads == Loaded
<1>9. Loaded' = Loaded /\ TopHeight' = TopHeight
  BY <1>1 DEF Loaded, FileLines, TopHeight
<1>10. \A h \in low..top : blocks'[h] = Loaded[h]
  BY <1>3, <1>4, <1>5, <1>6, <1>8
<1>11. ChainTo(Loaded, top)
  <2>1. CASE top = hi
    BY <1>4, <2>1
  <2>2. CASE top # hi
    <3>1. Number[b] = hi + 1 /\ top = hi + 1
      BY <1>5, <2>2
    <3>2. ValidChild(IF hi = 0 THEN Root ELSE blocks[hi], b)
      BY <1>3, <1>4, <3>1 DEF FitsCache
    <3>3. hi # 0 => blocks[hi] = Loaded[hi]
      BY <1>4
    <3>4. ASSUME NEW h \in 1..top
          PROVE  h \in DOMAIN Loaded /\ ValidChild(IF h = 1 THEN Root ELSE Loaded[h - 1], Loaded[h])
      <4>1. CASE h \in 1..hi
        BY <1>4, <4>1 DEF ChainTo
      <4>2. CASE h = hi + 1
        BY <1>3, <3>1, <3>2, <3>3, <4>2
      <4> QED
        BY <3>1, <4>1, <4>2
    <3> QED
      BY <3>4 DEF ChainTo
  <2> QED
    BY <2>1, <2>2
<1>12. PICK step \in {"stored", "check"}, list \in Seq(Blocks) \ {<< >>} :
         /\ Goto(Sync, step) /\ todo' = [todo EXCEPT ![Sync] = list] /\ Linked(list)
         /\ step = "check" => Number[list[1]] = Number[b] + 1
  <2> DEFINE s == todo[Sync]
  <2>1. s \in Seq(Blocks) /\ s # << >> /\ Len(s) \in Nat \ {0} /\ Tail(s) \in Seq(Blocks) /\ Linked(s) /\ b = s[1]
    BY <1>1, <1>3, <1>4, JournalTyped
  <2>2. CASE Len(s) = 1
    <3>1. Goto(Sync, "stored") /\ todo' = [todo EXCEPT ![Sync] = s]
      BY <2>2 DEF Insert
    <3> QED
      BY <2>1, <3>1
  <2>3. CASE Len(s) # 1
    <3>1. Goto(Sync, "check") /\ todo' = [todo EXCEPT ![Sync] = Tail(s)]
      BY <2>3 DEF Insert
    <3>2. /\ Tail(s) # << >> /\ Len(Tail(s)) = Len(s) - 1
          /\ \A i \in 1..(Len(s) - 1) : Tail(s)[i] = s[i + 1]
      <4> HIDE DEF s
      <4>1. Len(s) - 1 \in Nat \ {0}
        BY <2>1, <2>3
      <4>2. Len(Tail(s)) = Len(s) - 1
        BY <2>1
      <4>3. ASSUME NEW i \in 1..(Len(s) - 1) PROVE Tail(s)[i] = s[i + 1]
        BY <2>1
      <4>4. Tail(s) # << >>
        BY <4>1, <4>2
      <4> QED
        BY <4>2, <4>3, <4>4
    <3>3. Linked(Tail(s))
      <4> SUFFICES ASSUME NEW i \in 1..(Len(Tail(s)) - 1) PROVE ValidChild(Tail(s)[i], Tail(s)[i + 1])
        BY DEF Linked
      <4>1. i \in 1..(Len(s) - 1) /\ i + 1 \in 1..(Len(s) - 1)
        BY <2>1, <3>2
      <4>2. Tail(s)[i] = s[i + 1] /\ Tail(s)[i + 1] = s[i + 1 + 1]
        BY <3>2, <4>1
      <4> QED
        BY <2>1, <4>1, <4>2 DEF Linked
    <3>4. Number[Tail(s)[1]] = Number[b] + 1
      <4>1. 1 \in 1..(Len(s) - 1)
        <5> HIDE DEF s
        <5>1. Len(s) - 1 \in Nat \ {0}
          BY <2>1, <2>3
        <5> QED
          BY <5>1
      <4>2. ValidChild(b, s[2])
        <5>1. ValidChild(s[1], s[1 + 1])
          BY <2>1, <4>1 DEF Linked
        <5> HIDE DEF s
        <5> QED
          BY <2>1, <5>1
      <4>3. Tail(s)[1] = s[2]
        <5>1. Tail(s)[1] = s[1 + 1]
          BY <3>2, <4>1
        <5>2. 1 + 1 = 2
          OBVIOUS
        <5> QED
          BY <5>1, <5>2, Zenon
      <4> QED
        BY <1>3, <4>2, <4>3, CacheAssumption DEF ValidChild
    <3> QED
      BY <2>1, <3>1, <3>2, <3>3, <3>4
  <2> QED
    BY <2>2, <2>3
<1>13. JournalTypeInv' /\ at[Sync]' = step /\ todo[Sync]' = list
  <2>1. step \in JournalSteps /\ node' \in {"up", "down", "refused"} /\ journal' = journal /\ acked' \subseteq Blocks
    BY <1>1, <1>3 DEF JournalSteps, JournalTypeInv, b
  <2> QED
    BY <1>12, <2>1, GoesOnWith
<1>14. RecordsInv' /\ LinesInv'
  <2>1. RecordsInv'
    BY <1>3, <1>9 DEF RecordsInv, b
  <2>2. LinesInv'
    BY <1>1, <1>13 DEF LinesInv
  <2> QED
    BY <2>1, <2>2
<1> HIDE DEF low, top
<1>15. PICK l \in Nat, t \in Nat : l = low /\ t = top
  BY <1>5, <1>8
<1>16. Spans(l, t)'
  <2>1. low <= Number[b] /\ Number[b] <= top /\ hi <= top
    BY <1>3, <1>4, <1>5, <1>6 DEF low, top
  <2>2. DOMAIN blocks' = low..top /\ low >= 1 /\ low <= top
    BY <1>8
  <2>3. Low(top) <= low /\ low <= Low(TopHeight')
    BY <1>4, <1>5, <1>6, <1>7, <1>9 DEF low, top
  <2>4. \A c \in acked' : Number[c] <= top
    <3>1. \A c \in acked : Number[c] \in Nat /\ Number[c] <= hi
      BY <1>4, CacheAssumption DEF JournalTypeInv
    <3> QED
      BY <1>3, <1>5, <2>1, <3>1 DEF b
  <2>5. step = "check" => low <= Number[list[1]]
    BY <1>3, <1>8, <1>12, <2>1
  <2>6. blocks' = [h \in l..t |-> Loaded'[h]]
    BY <1>8, <1>9, <1>10, <1>15
  <2> QED
    BY <1>9, <1>11, <1>12, <1>13, <1>15, <2>2, <2>3, <2>4, <2>5, <2>6 DEF Spans
<1> QED
  BY <1>13, <1>14, <1>16 DEF CacheInv

\* The cache a start makes of a journal that is one row of heights.
LEMMA LoadedIs ==
  ASSUME NEW byHeight, NEW top \in Nat, DOMAIN byHeight = 1..top
  PROVE  CacheOf(byHeight) = [h \in Low(top)..top |-> byHeight[h]]
<1>1. Kept(1..top) = {h \in 1..top : top - h < MaxBlocks}
  BY KeptIs
<1>2. {h \in 1..top : top - h < MaxBlocks} = Low(top)..top
  BY CacheAssumption DEF Low
<1> QED
  BY <1>1, <1>2 DEF CacheOf, Restrict

\* A replacement begins by dropping the tail.
LEMMA SplitInv ==
  ASSUME JournalInv, node = "up", UNCHANGED <<node, acked>>, Split(Sync)
  PROVE  JournalInv'
<1> DEFINE start == Number[todo[Sync][1]]
<1> USE DEF JournalInv
<1>1. /\ at[Sync] = "split" /\ UNCHANGED <<journal, todo>> /\ todo[Sync] # << >> /\ Goto(Sync, "check")
      /\ blocks' = Restrict(blocks, {h \in DOMAIN blocks : h < start})
  BY JournalTyped DEF Split, JournalTypeInv
<1>2. PICK lo \in Nat, hi \in Nat : Spans(lo, hi)
  BY DEF CacheInv
<1>3. start \in Nat \ {0} /\ start' = start
  BY <1>1, JournalTyped, CacheAssumption
<1>4. JournalTypeInv' /\ at[Sync]' = "check"
  BY <1>1, JournalGoesOn DEF JournalTypeInv, JournalSteps
<1>5. Loaded' = Loaded /\ TopHeight' = TopHeight /\ RecordsInv' /\ LinesInv'
  BY <1>1, <1>4, SameJournal
<1>6. /\ DOMAIN blocks = lo..hi /\ lo >= 1 /\ (lo <= hi \/ (lo = 1 /\ hi = 0)) /\ Linked(todo[Sync])
      /\ Low(hi) <= lo /\ lo <= Low(TopHeight) /\ ChainTo(Loaded, hi) /\ \A h \in lo..hi : blocks[h] = Loaded[h]
      /\ start = 1 \/ start - 1 \in lo..hi
      /\ \A c \in acked : Number[c] < start
  BY <1>1, <1>2 DEF Spans
<1>7. PICK l \in Nat, t \in Nat : t = start - 1 /\ l = IF start = 1 THEN 1 ELSE lo
  BY <1>3
<1>8. /\ l >= 1 /\ (l <= t \/ (l = 1 /\ t = 0)) /\ t <= hi /\ (t # 0 => lo = l)
      /\ {h \in lo..hi : h < start} = l..t
  BY <1>3, <1>6, <1>7
<1>9. Low(t) <= l /\ l <= Low(TopHeight)
  <2>a. TopHeight \in Nat
    BY DEF RecordsInv
  <2>1. Low(TopHeight) \in Nat \ {0} /\ Low(hi) \in Nat /\ Low(t) \in Nat /\ Low(t) <= Low(hi)
    <3>1. Low(TopHeight) \in Nat \ {0}
      BY <2>a, LowGrows
    <3>2. t \in Nat /\ hi \in Nat /\ t <= hi
      BY <1>8
    <3>3. Low(t) \in Nat \ {0} /\ Low(hi) \in Nat \ {0} /\ Low(t) <= Low(hi)
      BY <3>2, LowGrows
    <3> QED
      BY <3>1, <3>3
  <2>2. Low(0) = 1
    BY CacheAssumption DEF Low
  <2> QED
    BY <1>6, <1>7, <1>8, <2>1, <2>2
<1>10. \A c \in acked : Number[c] <= t
  BY <1>3, <1>6, <1>7, CacheAssumption DEF JournalTypeInv
<1> HIDE DEF start
<1>11. blocks' = [h \in l..t |-> Loaded[h]]
  <2>1. blocks' = [h \in l..t |-> blocks[h]]
    BY <1>1, <1>6, <1>8 DEF Restrict
  <2> QED
    BY <1>6, <1>8, <2>1
<1>12. ChainTo(Loaded, t)
  BY <1>6, <1>8 DEF ChainTo
<1>13. l <= start
  BY <1>3, <1>7, <1>8
<1>14. Spans(l, t)'
  BY <1>1, <1>4, <1>5, <1>6, <1>8, <1>9, <1>10, <1>11, <1>12, <1>13 DEF Spans, start
<1> QED
  BY <1>4, <1>5, <1>14 DEF CacheInv

LEMMA ReturnInv ==
  ASSUME JournalInv, ReturnCall
  PROVE  JournalInv'
<1> USE DEF JournalInv
<1>1. /\ node = "up" /\ at[Sync] \in {"stored", "refused"} /\ Goto(Sync, "idle")
      /\ todo' = [todo EXCEPT ![Sync] = << >>] /\ UNCHANGED <<blocks, journal, node, acked>>
  BY DEF ReturnCall, cacheVars
<1>2. PICK lo \in Nat, hi \in Nat : Spans(lo, hi)
  BY <1>1 DEF CacheInv
<1>3. JournalTypeInv' /\ at[Sync]' = "idle" /\ todo[Sync]' = << >>
  <2>1. << >> \in Seq(Blocks) /\ "idle" \in JournalSteps /\ node' \in {"up", "down", "refused"} /\ acked' \subseteq Blocks
    BY <1>1 DEF JournalSteps, JournalTypeInv
  <2> QED
    BY <1>1, <2>1, GoesOnWith
<1>4. Loaded' = Loaded /\ TopHeight' = TopHeight /\ RecordsInv' /\ LinesInv'
  BY <1>1, <1>3, SameJournal
<1>5. Linked(<< >>)
  BY DEF Linked
<1>6. Spans(lo, hi)'
  BY <1>1, <1>2, <1>3, <1>4, <1>5 DEF Spans
<1> QED
  BY <1>3, <1>4, <1>6 DEF CacheInv

\* The process dies between calls, or in a call but not in a record.
LEMMA CrashInv ==
  ASSUME JournalInv, ~TornWrites, CrashNode
  PROVE  JournalInv'
<1> USE DEF JournalInv
<1>1. /\ at[Sync] \notin {"rest", "newline"} /\ node' = "down" /\ UNCHANGED <<journal, acked>>
      /\ at' = [t \in Threads |-> "idle"] /\ todo' = [t \in Threads |-> << >>]
  BY DEF CrashNode
<1>2. at[Sync]' = "idle"
  BY <1>1, JournalAssumption
<1>3. JournalTypeInv'
  BY <1>1, <1>2 DEF JournalTypeInv, JournalSteps
<1>4. RecordsInv' /\ LinesInv'
  BY <1>1, <1>2, SameJournal
<1> QED
  BY <1>1, <1>3, <1>4 DEF CacheInv

\* A journal that loads is one chain, of which the cache has the newest.
LEMMA RestartInv ==
  ASSUME JournalInv, RestartFromJournal
  PROVE  JournalInv'
<1> USE DEF JournalInv
<1>1. /\ node = "down" /\ at[Sync] = "idle" /\ UNCHANGED <<at, todo, journal, acked>>
      /\ node' \in {"up", "refused"}
      /\ node' = "up" => LoadSucceeds /\ blocks' = CacheOf(Loaded)
  BY DEF RestartFromJournal, LoadInto, RecordsInv
<1>2. JournalTypeInv'
  BY <1>1 DEF JournalTypeInv
<1>3. Loaded' = Loaded /\ TopHeight' = TopHeight /\ RecordsInv' /\ LinesInv'
  BY <1>1, SameJournal
<1>4. ASSUME node' = "up" PROVE \E lo, hi \in Nat : Spans(lo, hi)'
  <2>1. DOMAIN Loaded = 1..TopHeight /\ TopHeight \in Nat
    BY DEF RecordsInv
  <2>2. ChainTo(Loaded, TopHeight)
    <3>1. ValidatePersistedChain(Loaded)
      BY <1>1, <1>4 DEF LoadSucceeds
    <3>2. CASE DOMAIN Loaded = {}
      BY <2>1, <3>2 DEF ChainTo
    <3>3. CASE DOMAIN Loaded # {}
      BY <2>1, <3>1, <3>3 DEF ChainTo, ValidatePersistedChain
    <3> QED
      BY <3>2, <3>3
  <2>3. PICK l \in Nat, t \in Nat : l = Low(TopHeight) /\ t = TopHeight
    BY <2>1, LowGrows
  <2>4. blocks' = [h \in l..t |-> Loaded[h]]
    BY <1>1, <1>4, <2>1, <2>3, LoadedIs
  <2>5. l >= 1 /\ (l <= t \/ (l = 1 /\ t = 0))
    BY <2>1, <2>3, CacheAssumption DEF Low
  <2>6. \A c \in acked : Number[c] <= t
    BY <2>1, <2>3 DEF RecordsInv
  <2>7. ChainTo(Loaded', t) /\ Low(TopHeight') = l /\ Low(t) = l
    BY <1>3, <2>2, <2>3
  <2>8. at'[Sync] = "idle"
    BY <1>1
  <2>9. Spans(l, t)'
    BY <1>1, <1>3, <2>4, <2>5, <2>6, <2>7, <2>8 DEF Spans
  <2> QED
    BY <2>9
<1> QED
  BY <1>2, <1>3, <1>4 DEF CacheInv

LEMMA JournalStep ==
  ASSUME Persistence, ~TornWrites, JournalInv, JournalNext
  PROVE  JournalInv'
<1>1. CASE CacheStep
  <2>1. node = "up" /\ node' = node /\ StoreStep(Sync)
    BY <1>1 DEF CacheStep
  <2>2. CASE Insert(Sync)
    <3>1. acked' = acked \cup {Head(todo[Sync])}
      BY <1>1, <2>2 DEF CacheStep, Insert
    <3> QED
      BY <2>1, <2>2, <3>1, InsertInv
  <2>3. CASE Check(Sync) \/ Begin(Sync) \/ Rest(Sync) \/ Newline(Sync) \/ Split(Sync)
    <3>1. UNCHANGED <<node, acked>>
      BY <1>1, <2>3 DEF CacheStep, Check, Begin, Rest, Newline, Split
    <3> QED
      BY <2>1, <2>3, <3>1, CheckInv, WriteInv, SplitInv
  <2> QED
    BY <2>1, <2>2, <2>3 DEF StoreStep
<1> QED
  BY <1>1, CallInv, ReturnInv, CrashInv, RestartInv DEF JournalNext

LEMMA JournalStart == JournalInit => JournalInv
<1> SUFFICES ASSUME JournalInit PROVE JournalInv
  OBVIOUS
<1>1. journal \in Text /\ journal # << >> /\ Len(journal) = 1 /\ journal[1] = << >> /\ DOMAIN journal = 1..1
  <2>1. journal = << << >> >> /\ << >> \in Seq(Fragments)
    BY DEF JournalInit, CacheInit
  <2> QED
    BY <2>1 DEF Text
<1>2. /\ Sync \in Threads /\ blocks = << >> /\ acked = {} /\ node = "up"
      /\ at = [t \in Threads |-> "idle"] /\ todo = [t \in Threads |-> << >>]
  BY JournalAssumption DEF JournalInit, CacheInit
<1>3. JournalTypeInv /\ at[Sync] = "idle"
  BY <1>1, <1>2 DEF JournalTypeInv, JournalSteps
<1>4. LinesInv
  BY <1>1, <1>3 DEF LinesInv
<1>5. Loaded = LatestOn(journal)
  BY <1>1, FileTells DEF Loaded, FileLines
<1>6. RecordsOn(journal) = {}
  BY <1>1, RecordIs DEF RecordsOn
<1>7. DOMAIN Loaded = {}
  BY <1>5, <1>6 DEF LatestOn, HeightsOn
<1>8. TopHeight = 0
  <2>1. 1..0 = {}
    OBVIOUS
  <2> QED
    BY <1>7, <2>1, HighestIs DEF TopHeight
<1>9. RecordsInv
  BY <1>2, <1>3, <1>7, <1>8 DEF RecordsInv
<1>10. Spans(1, 0)
  <2>1. Low(0) = 1
    BY CacheAssumption DEF Low
  <2>2. DOMAIN blocks = 1..0
    BY <1>2
  <2> QED
    BY <1>2, <1>3, <1>8, <2>1, <2>2 DEF Spans, ChainTo
<1>11. CacheInv
  BY <1>10 DEF CacheInv
<1> QED
  BY <1>3, <1>4, <1>9, <1>11 DEF JournalInv

LEMMA JournalImplies == JournalInv => JournalKeeps
<1> SUFFICES ASSUME JournalInv PROVE JournalKeeps
  OBVIOUS
<1> USE DEF JournalInv
<1>1. AckedSurvives
  BY DEF RecordsInv, AckedSurvives
<1>2. ASSUME node = "up", at[Sync] = "idle", Highest(DOMAIN blocks) = Highest(DOMAIN Loaded)
      PROVE  LoadSucceeds /\ CacheOf(Loaded) = blocks
  <2>1. PICK lo \in Nat, hi \in Nat : Spans(lo, hi)
    BY <1>2 DEF CacheInv
  <2>2. DOMAIN Loaded = 1..TopHeight /\ TopHeight \in Nat
    BY DEF RecordsInv
  <2>3. hi = TopHeight
    <3>1. Highest(lo..hi) = hi
      <4>1. hi \in {0} \cup lo..hi /\ \A y \in {0} \cup lo..hi : hi >= y
        BY <2>1 DEF Spans
      <4>2. \A x \in {0} \cup lo..hi : (\A y \in {0} \cup lo..hi : x >= y) => x = hi
        BY <4>1
      <4> QED
        BY <4>1, <4>2 DEF Highest, Max
    <3> QED
      BY <1>2, <2>1, <3>1 DEF Spans, TopHeight
  <2>4. lo = Low(TopHeight)
    BY <2>1, <2>2, <2>3, LowGrows DEF Spans
  <2>5. CacheOf(Loaded) = blocks
    <3>1. CacheOf(Loaded) = [h \in lo..hi |-> Loaded[h]]
      BY <2>2, <2>3, <2>4, LoadedIs
    <3> QED
      BY <2>1, <3>1 DEF Spans
  <2>6. ValidatePersistedChain(Loaded)
    <3>1. ChainTo(Loaded, TopHeight)
      BY <2>1, <2>3 DEF Spans
    <3>2. CASE TopHeight = 0
      BY <2>2, <3>2 DEF ValidatePersistedChain
    <3>3. CASE TopHeight # 0
      BY <2>2, <3>1, <3>3 DEF ValidatePersistedChain, ChainTo
    <3> QED
      BY <3>2, <3>3
  <2>7. \A i \in DOMAIN FileLines : FileLines[i] = << >> \/ Parses(FileLines[i]) \/ i = Len(FileLines)
    <3>1. journal \in Seq(Seq(Fragments)) /\ Len(journal) \in Nat \ {0} /\ DOMAIN journal = 1..Len(journal)
      BY JournalTyped DEF JournalTypeInv, Text
    <3>2. journal[Len(journal)] = << >> /\ \A i \in 1..(Len(journal) - 1) : Parses(journal[i])
      BY <1>2 DEF LinesInv
    <3>3. FileLines = Front(journal)
      BY <3>2 DEF FileLines, Last
    <3>4. DOMAIN Front(journal) = 1..(Len(journal) - 1) /\ \A i \in 1..(Len(journal) - 1) : Front(journal)[i] = journal[i]
      BY <3>1 DEF Front
    <3> QED
      BY <3>2, <3>3, <3>4
  <2> QED
    BY <2>5, <2>6, <2>7 DEF LoadSucceeds
<1> QED
  BY <1>1, <1>2 DEF JournalKeeps, JournalMirrorsCache

(* What was acknowledged is what the journal yields, and a journal as high  *)
(* as the cache is the cache, at every step of any calls, kills and starts, *)
(* as long as a kill never cuts a record in two.                            *)
THEOREM JournalKeepsTheBlocks ==
  ASSUME Persistence, ~TornWrites
  PROVE  JournalSpec => []JournalKeeps
<1>1. ASSUME JournalInv, [JournalNext]_journalVars PROVE JournalInv'
  <2>1. CASE UNCHANGED journalVars
    <3>1. UNCHANGED <<blocks, ever, at, todo, journal, node, acked>>
      BY <2>1 DEF journalVars, cacheVars
    <3>2. Loaded' = Loaded /\ TopHeight' = TopHeight
      BY <3>1 DEF Loaded, FileLines, TopHeight
    <3>3. JournalTypeInv' /\ LinesInv'
      BY <1>1, <3>1 DEF JournalInv, JournalTypeInv, LinesInv
    <3>4. RecordsInv'
      BY <1>1, <3>1, <3>2 DEF JournalInv, RecordsInv
    <3>5. CacheInv'
      BY <1>1, <3>1, <3>2 DEF JournalInv, CacheInv, Spans
    <3> QED
      BY <3>3, <3>4, <3>5 DEF JournalInv
  <2> QED
    BY <1>1, <2>1, JournalStep
<1> QED
  BY <1>1, JournalStart, JournalImplies, PTL DEF JournalSpec

-----------------------------------------------------------------------------
(* Results *)

Results == [stamp : 0..MaxStamp, of : {"this node"}]
OwnEntries == [tx : ResultTxs, result : Results]
Submissions == [step : {"none", "run", "persist", "keep", "record"}, tx : ResultTxs \cup {"none"},
                result : Results \cup {<< >>}]
Stored(tx, r) == tx \in DOMAIN onDisk /\ onDisk[tx] = r

ResultsTyped ==
  /\ stamp \in 0..MaxStamp /\ own \in Seq(OwnEntries)
  /\ submission \in [Submitters -> Submissions]
  /\ \A s \in Submitters :
       /\ submission[s].step # "none" => submission[s].tx \in ResultTxs
       /\ submission[s].step \in {"persist", "keep", "record"} => submission[s].result \in Results
OwnInv == \A i \in DOMAIN own : Stored(own[i].tx, own[i].result)
AnsweredInv == \A a \in answered : Stored(a.tx, a.result)
\* Of the submissions of one transaction one executes, and its result is the first on disk.
SubmissionInv ==
  /\ DOMAIN onDisk \subseteq executed
  /\ \A s \in Submitters :
       /\ submission[s].step = "persist" => submission[s].tx \in executed \ DOMAIN onDisk
       /\ submission[s].step \in {"keep", "record"} => Stored(submission[s].tx, submission[s].result)
  /\ \A s, u \in Submitters :
       s # u /\ submission[s].step = "persist" /\ submission[u].step = "persist" => submission[s].tx # submission[u].tx

ResultInv == ResultsTyped /\ OwnInv /\ AnsweredInv /\ SubmissionInv

\* What is at some places is in the list; nothing is there twice that is not in the list twice.
LEMMA OnlyKeeps ==
  ASSUME NEW S, NEW list \in Seq(S), NEW places \in SUBSET DOMAIN list
  PROVE  /\ Only(list, places) \in Seq(S)
         /\ ToSet(Only(list, places)) = {list[i] : i \in places}
         /\ (\A i, j \in places : i # j => list[i] # list[j]) => IsInjective(Only(list, places))
<1> DEFINE q == [i \in DOMAIN list |-> IF i \in places THEN <<list[i]>> ELSE << >>]
<1>1. Len(list) \in Nat /\ DOMAIN list = 1..Len(list) /\ \A i \in DOMAIN list : list[i] \in S
  OBVIOUS
<1>2. \A i \in DOMAIN list : <<list[i]>> \in Seq(S) /\ << >> \in Seq(S)
  BY <1>1
<1>3. q \in Seq(Seq(S))
  <2>1. q \in [1..Len(list) -> Seq(S)]
    BY <1>1, <1>2
  <2> QED
    BY <1>1, <2>1
<1>4. \A i \in DOMAIN list : ToSet(q[i]) = IF i \in places THEN {list[i]} ELSE {}
  BY DEF ToSet
<1>5. \A i \in DOMAIN list : IsInjective(q[i])
  BY DEF IsInjective
<1>6. DOMAIN q = DOMAIN list
  OBVIOUS
<1> HIDE DEF q
<1>7. /\ FlattenSeq(q) \in Seq(S) /\ ToSet(FlattenSeq(q)) = UNION {ToSet(q[i]) : i \in DOMAIN q}
      /\ /\ \A i \in DOMAIN q : IsInjective(q[i])
         /\ \A i, j \in DOMAIN q : i # j => ToSet(q[i]) \cap ToSet(q[j]) = {}
         => IsInjective(FlattenSeq(q))
  BY <1>3, Flattened
<1>8. ToSet(FlattenSeq(q)) = {list[i] : i \in places}
  <2>1. ASSUME NEW x \in ToSet(FlattenSeq(q)) PROVE \E i \in places : x = list[i]
    <3>1. PICK i \in DOMAIN q : x \in ToSet(q[i])
      BY <1>7, <2>1
    <3> QED
      BY <1>4, <1>6, <3>1
  <2>2. ASSUME NEW i \in places PROVE list[i] \in ToSet(FlattenSeq(q))
    <3>1. i \in DOMAIN q /\ list[i] \in ToSet(q[i])
      BY <1>4, <1>6
    <3> QED
      BY <1>7, <3>1
  <2> QED
    BY <2>1, <2>2
<1>9. ASSUME \A i, j \in places : i # j => list[i] # list[j] PROVE IsInjective(FlattenSeq(q))
  <2>1. ASSUME NEW i \in DOMAIN list, NEW j \in DOMAIN list, i # j PROVE ToSet(q[i]) \cap ToSet(q[j]) = {}
    BY <1>4, <1>9, <2>1
  <2> QED
    BY <1>5, <1>6, <1>7, <2>1
<1> QED
  BY <1>7, <1>8, <1>9 DEF q, Only

LEMMA WithoutKeeps ==
  ASSUME NEW S, NEW list \in Seq(S), NEW tx
  PROVE  Without(list, tx) \in Seq(S) /\ ToSet(Without(list, tx)) \subseteq ToSet(list)
<1> DEFINE places == {i \in DOMAIN list : list[i].tx # tx}
<1>1. Only(list, places) \in Seq(S) /\ ToSet(Only(list, places)) = {list[i] : i \in places}
  BY OnlyKeeps
<1> QED
  BY <1>1 DEF Without, ToSet

LEMMA LatestKeeps ==
  ASSUME NEW S, NEW list \in Seq(S), NEW n \in Nat
  PROVE  Latest(list, n) \in Seq(S) /\ ToSet(Latest(list, n)) \subseteq ToSet(list)
<1> DEFINE l == Len(list)
           m == Min({n, l})
<1>1. l \in Nat /\ DOMAIN list = 1..l
  OBVIOUS
<1>2. m \in 0..l
  <2>1. m \in {n, l} /\ m <= l
    BY <1>1, LeastOf
  <2> QED
    BY <1>1, <2>1
<1> HIDE DEF m
<1> DEFINE s == SubSeq(list, l - m + 1, l)
<1>3. s \in Seq(S) /\ Len(s) = m /\ \A i \in 1..m : s[i] = list[l - m + i]
  BY <1>1, <1>2
<1>4. \A i \in DOMAIN s : s[i] \in ToSet(list)
  <2>1. ASSUME NEW i \in 1..m PROVE l - m + i \in 1..l
    BY <1>1, <1>2
  <2>2. DOMAIN s = 1..m
    BY <1>3
  <2> HIDE DEF s
  <2> QED
    BY <1>1, <1>3, <2>1, <2>2 DEF ToSet
<1> HIDE DEF s
<1>5. Latest(list, n) = s
  BY DEF Latest, s, m
<1> QED
  BY <1>3, <1>4, <1>5 DEF ToSet

\* Of two sets of answers the first that is not empty, of three too.
LEMMA FirstOfTwo ==
  ASSUME NEW A, NEW B
  PROVE  FirstOf(<<A, B>>) = IF A # {} THEN A ELSE B
<1> DEFINE sets == <<A, B>>
           some == {i \in DOMAIN sets : sets[i] # {}}
<1>1. DOMAIN sets = 1..2 /\ sets[1] = A /\ sets[2] = B
  OBVIOUS
<1> HIDE DEF sets
<1>2. some \subseteq Nat
  BY <1>1
<1>3. CASE some = {}
  <2>1. \A i \in 1..2 : sets[i] = {}
    BY <1>1, <1>3
  <2>2. A = {} /\ B = {}
    BY <1>1, <2>1
  <2> QED
    BY <1>1, <1>3, <2>2 DEF FirstOf, sets
<1>4. CASE some # {}
  <2>1. Min(some) \in some /\ \A i \in some : Min(some) <= i
    BY <1>2, <1>4, LeastOf
  <2>2. FirstOf(sets) = sets[Min(some)]
    BY <1>4 DEF FirstOf
  <2>3. sets[Min(some)] = IF A # {} THEN A ELSE B
    BY <1>1, <2>1
  <2> QED
    BY <2>2, <2>3 DEF sets
<1> QED
  BY <1>3, <1>4

LEMMA FirstOfThree ==
  ASSUME NEW A, NEW B, NEW C, B # {}
  PROVE  FirstOf(<<A, B, C>>) = IF A # {} THEN A ELSE B
<1> DEFINE sets == <<A, B, C>>
           some == {i \in DOMAIN sets : sets[i] # {}}
<1>1. DOMAIN sets = 1..3 /\ sets[1] = A /\ sets[2] = B
  OBVIOUS
<1> HIDE DEF sets
<1>2. some \subseteq Nat /\ 2 \in some
  BY <1>1
<1>3. Min(some) \in some /\ \A i \in some : Min(some) <= i
  BY <1>2, LeastOf
<1>4. FirstOf(sets) = sets[Min(some)]
  BY <1>2 DEF FirstOf
<1>5. sets[Min(some)] = IF A # {} THEN A ELSE B
  BY <1>1, <1>2, <1>3
<1> QED
  BY <1>4, <1>5 DEF sets

\* Of what is in memory and on disk, the disk decides.
LEMMA InOwnIsStored ==
  ASSUME OwnInv, NEW tx, NEW r \in InOwn(tx)
  PROVE  Stored(tx, r)
  BY DEF OwnInv, InOwn

LEMMA StartResults == ResultInit => ResultInv
<1> SUFFICES ASSUME ResultInit PROVE ResultInv
  OBVIOUS
<1>1. << >> \in Seq(OwnEntries) /\ DOMAIN << >> = {}
  OBVIOUS
<1>2. NotSubmitted \in Submissions /\ NotSubmitted.step = "none"
  BY DEF NotSubmitted, Submissions
<1>3. ResultsTyped
  <2>1. 0 \in 0..MaxStamp
    BY ResultAssumption
  <2> QED
    BY <1>1, <1>2, <2>1 DEF ResultInit, ResultsTyped
<1> QED
  BY <1>1, <1>2, <1>3 DEF ResultInit, ResultInv, OwnInv, AnsweredInv, SubmissionInv

\* A submission goes on or ends where it no longer waits for the disk.
LEMMA SubmissionMoves ==
  ASSUME ResultInv, NEW s \in Submitters, NEW sub \in Submissions, submission' = [submission EXCEPT ![s] = sub],
         sub.step \in {"none", "run", "keep", "record"}, sub.step # "none" => sub.tx \in ResultTxs,
         sub.step \in {"keep", "record"} => sub.result \in Results /\ Stored(sub.tx, sub.result),
         UNCHANGED <<stamp, onDisk, executed>>, own' \in Seq(OwnEntries)
  PROVE  ResultsTyped' /\ SubmissionInv'
<1>1. /\ submission' \in [Submitters -> Submissions] /\ submission'[s] = sub
      /\ \A u \in Submitters \ {s} : submission'[u] = submission[u]
  BY DEF ResultInv, ResultsTyped
<1>2. ResultsTyped'
  BY <1>1 DEF ResultInv, ResultsTyped
<1>3. SubmissionInv'
  BY <1>1 DEF ResultInv, SubmissionInv, Stored
<1> QED
  BY <1>2, <1>3

LEMMA SubmitInv ==
  ASSUME ResultInv, NEW s \in Submitters, Submit(s)
  PROVE  ResultInv'
<1>0. UNCHANGED <<stamp, own, onDisk, synced, executed>>
  BY DEF Submit
<1>1. PICK tx \in ResultTxs :
        LET known == FirstOf(<<On(onDisk, tx), InOwn(tx)>>)
        IN  IF known # {}
            THEN answered' = answered \cup {[tx |-> tx, result |-> r] : r \in known} /\ UNCHANGED submission
            ELSE submission' = [submission EXCEPT ![s] = [NotSubmitted EXCEPT !.step = "run", !.tx = tx]] /\ UNCHANGED answered
  BY DEF Submit
<1> DEFINE known == FirstOf(<<On(onDisk, tx), InOwn(tx)>>)
           sub == [NotSubmitted EXCEPT !.step = "run", !.tx = tx]
<1>2. ASSUME NEW r \in known PROVE Stored(tx, r)
  <2>1. r \in On(onDisk, tx) \/ r \in InOwn(tx)
    BY <1>2, FirstOfTwo
  <2>2. r \in On(onDisk, tx) => Stored(tx, r)
    BY DEF On, Stored
  <2> QED
    BY <2>1, <2>2, InOwnIsStored DEF ResultInv
<1> HIDE DEF known
<1>3. CASE known # {}
  <2>1. answered' = answered \cup {[tx |-> tx, result |-> r] : r \in known} /\ UNCHANGED submission
    BY <1>1, <1>3 DEF known
  <2>2. AnsweredInv'
    BY <1>0, <1>2, <2>1 DEF ResultInv, AnsweredInv, Stored
  <2> QED
    BY <1>0, <2>1, <2>2 DEF ResultInv, ResultsTyped, OwnInv, SubmissionInv, Stored
<1>4. CASE known = {}
  <2>1. submission' = [submission EXCEPT ![s] = sub] /\ UNCHANGED answered
    BY <1>1, <1>4 DEF known
  <2>2. sub \in Submissions /\ sub.step = "run" /\ sub.tx = tx
    BY DEF NotSubmitted, Submissions
  <2>3. own' \in Seq(OwnEntries)
    BY <1>0 DEF ResultInv, ResultsTyped
  <2> HIDE DEF sub
  <2>4. ResultsTyped' /\ SubmissionInv'
    BY <1>0, <2>1, <2>2, <2>3, SubmissionMoves
  <2> QED
    BY <1>0, <2>1, <2>4 DEF ResultInv, OwnInv, AnsweredInv, Stored
<1> QED
  BY <1>3, <1>4

LEMMA RunInv ==
  ASSUME ResultInv, NEW s \in Submitters, Run(s)
  PROVE  ResultInv'
<1>1. submission[s].step = "run" /\ UNCHANGED <<stamp, own, onDisk, synced, answered>>
  BY DEF Run, SubmitAt
<1>2. OwnInv' /\ AnsweredInv'
  BY <1>1 DEF ResultInv, OwnInv, AnsweredInv, Stored
<1>3. CASE submission[s].tx \in executed
  <2>1. submission' = [submission EXCEPT ![s] = NotSubmitted] /\ UNCHANGED executed
    BY <1>3 DEF Run
  <2>2. NotSubmitted \in Submissions /\ NotSubmitted.step = "none" /\ own' \in Seq(OwnEntries)
    BY <1>1 DEF NotSubmitted, Submissions, ResultInv, ResultsTyped
  <2> QED
    BY <1>1, <1>2, <2>1, <2>2, SubmissionMoves DEF ResultInv
<1>4. CASE submission[s].tx \notin executed
  <2> DEFINE r == [stamp |-> stamp, of |-> "this node"]
             sub == [submission[s] EXCEPT !.step = "persist", !.result = r]
  <2>1. submission' = [submission EXCEPT ![s] = sub] /\ executed' = executed \cup {submission[s].tx}
    BY <1>4 DEF Run
  <2>2. submission[s] \in Submissions /\ submission[s].tx \in ResultTxs /\ r \in Results
    BY <1>1 DEF ResultInv, ResultsTyped, Results
  <2>3. sub \in Submissions /\ sub.step = "persist" /\ sub.result = r /\ sub.tx = submission[s].tx
    BY <2>2 DEF Submissions
  <2> HIDE DEF sub, r
  <2>4. /\ submission' \in [Submitters -> Submissions] /\ submission'[s] = sub
        /\ \A u \in Submitters \ {s} : submission'[u] = submission[u]
    BY <2>1, <2>3 DEF ResultInv, ResultsTyped
  <2>5. ResultsTyped'
    BY <1>1, <2>2, <2>3, <2>4 DEF ResultInv, ResultsTyped
  <2>6. SubmissionInv'
    BY <1>1, <1>4, <2>1, <2>2, <2>3, <2>4 DEF ResultInv, SubmissionInv, Stored
  <2> QED
    BY <1>2, <2>5, <2>6 DEF ResultInv
<1> QED
  BY <1>3, <1>4

LEMMA PersistInv ==
  ASSUME ResultInv, NEW s \in Submitters, Persist(s)
  PROVE  ResultInv'
<1> DEFINE tx == submission[s].tx
           r == submission[s].result
<1>1. submission[s].step = "persist" /\ UNCHANGED <<stamp, own, synced, executed, answered>>
  BY DEF Persist, SubmitAt
<1>2. submission[s] \in Submissions /\ tx \in ResultTxs /\ r \in Results /\ tx \in executed /\ tx \notin DOMAIN onDisk
  BY <1>1 DEF ResultInv, ResultsTyped, SubmissionInv
<1>3. CASE UNCHANGED onDisk /\ submission' = [submission EXCEPT ![s] = NotSubmitted]
  <2>1. NotSubmitted \in Submissions /\ NotSubmitted.step = "none" /\ own' \in Seq(OwnEntries)
    BY <1>1 DEF NotSubmitted, Submissions, ResultInv, ResultsTyped
  <2>2. ResultsTyped' /\ SubmissionInv'
    BY <1>1, <1>3, <2>1, SubmissionMoves
  <2> QED
    BY <1>1, <1>3, <2>2 DEF ResultInv, OwnInv, AnsweredInv, Stored
<1>4. CASE onDisk' = With(onDisk, tx, r) /\ SubmitTo(s, "keep")
  <2> DEFINE sub == [submission[s] EXCEPT !.step = "keep"]
  <2>1. submission' = [submission EXCEPT ![s] = sub]
    BY <1>4 DEF SubmitTo
  <2>2. sub \in Submissions /\ sub.step = "keep" /\ sub.result = r /\ sub.tx = tx
    BY <1>2 DEF Submissions
  <2> HIDE DEF sub
  <2>3. /\ submission' \in [Submitters -> Submissions] /\ submission'[s] = sub
        /\ \A u \in Submitters \ {s} : submission'[u] = submission[u]
    BY <2>1, <2>2 DEF ResultInv, ResultsTyped
  <2>4. DOMAIN onDisk' = DOMAIN onDisk \cup {tx} /\ onDisk'[tx] = r /\ \A x \in DOMAIN onDisk : onDisk'[x] = onDisk[x]
    <3> HIDE DEF tx, r
    <3> QED
      BY <1>2, <1>4 DEF With
  <2>5. ResultsTyped'
    BY <1>1, <1>2, <2>2, <2>3 DEF ResultInv, ResultsTyped
  <2>6. \A x, y : Stored(x, y) => Stored(x, y)'
    BY <2>4 DEF Stored
  <2>7. OwnInv' /\ AnsweredInv'
    BY <1>1, <2>6 DEF ResultInv, OwnInv, AnsweredInv
  <2>8. SubmissionInv'
    <3>1. DOMAIN onDisk' \subseteq executed'
      BY <1>1, <1>2, <2>4 DEF ResultInv, SubmissionInv
    <3>2. ASSUME NEW u \in Submitters, submission'[u].step = "persist"
          PROVE  u # s /\ submission[u].step = "persist" /\ submission'[u].tx \in executed' \ DOMAIN onDisk'
      BY <1>1, <2>2, <2>3, <2>4, <3>2 DEF ResultInv, SubmissionInv
    <3>3. ASSUME NEW u \in Submitters, submission'[u].step \in {"keep", "record"}
          PROVE  Stored(submission[u].tx, submission[u].result)'
      <4>1. CASE u = s
        BY <2>2, <2>3, <2>4, <4>1 DEF Stored
      <4>2. CASE u # s
        BY <2>3, <2>4, <3>3, <4>2 DEF ResultInv, SubmissionInv, Stored
      <4> QED
        BY <4>1, <4>2
    <3>4. \A u, v \in Submitters : u # v /\ submission'[u].step = "persist" /\ submission'[v].step = "persist"
                                     => submission'[u].tx # submission'[v].tx
      BY <2>3, <3>2 DEF ResultInv, SubmissionInv
    <3> QED
      BY <3>1, <3>2, <3>3, <3>4 DEF SubmissionInv
  <2> QED
    BY <2>5, <2>7, <2>8 DEF ResultInv
<1> QED
  BY <1>3, <1>4 DEF Persist

LEMMA KeepOwnInv ==
  ASSUME ResultInv, NEW s \in Submitters, KeepOwn(s)
  PROVE  ResultInv'
<1> DEFINE tx == submission[s].tx
           r == submission[s].result
           e == [tx |-> tx, result |-> r]
           others == Without(own, tx)
           sub == [submission[s] EXCEPT !.step = "record"]
<1>1. /\ submission[s].step = "keep" /\ UNCHANGED <<stamp, onDisk, synced, executed, answered>>
      /\ own' = Latest(Append(others, e), MaxSubmitted) /\ submission' = [submission EXCEPT ![s] = sub]
  BY DEF KeepOwn, SubmitAt, SubmitTo
<1>2. submission[s] \in Submissions /\ tx \in ResultTxs /\ r \in Results /\ Stored(tx, r)
  BY <1>1 DEF ResultInv, ResultsTyped, SubmissionInv
<1>3. sub \in Submissions /\ sub.step = "record" /\ sub.result = r /\ sub.tx = tx
  BY <1>2 DEF Submissions
<1>4. e \in OwnEntries /\ e.tx = tx /\ e.result = r /\ own \in Seq(OwnEntries)
  BY <1>2 DEF OwnEntries, ResultInv, ResultsTyped
<1>5. others \in Seq(OwnEntries) /\ ToSet(others) \subseteq ToSet(own)
  BY <1>4, WithoutKeeps
<1> HIDE DEF others, e, sub, tx, r
<1> DEFINE all == Append(others, e)
<1>6. all \in Seq(OwnEntries) /\ ToSet(all) \subseteq ToSet(own) \cup {e}
  <2>1. /\ all \in Seq(OwnEntries) /\ DOMAIN all = 1..(Len(others) + 1) /\ DOMAIN others = 1..Len(others)
        /\ Len(others) \in Nat
        /\ \A i \in 1..(Len(others) + 1) : all[i] = IF i = Len(others) + 1 THEN e ELSE others[i]
    BY <1>4, <1>5
  <2> HIDE DEF all
  <2>2. ASSUME NEW i \in 1..(Len(others) + 1) PROVE all[i] \in ToSet(own) \cup {e}
    <3>1. i = Len(others) + 1 \/ i \in 1..Len(others)
      BY <2>1
    <3> QED
      BY <1>5, <2>1, <3>1 DEF ToSet
  <2> QED
    BY <2>1, <2>2 DEF ToSet
<1> HIDE DEF all
<1>7. own' \in Seq(OwnEntries) /\ ToSet(own') \subseteq ToSet(own) \cup {e}
  BY <1>1, <1>6, LatestKeeps, ResultAssumption DEF all
<1>8. OwnInv'
  <2>1. ASSUME NEW x \in ToSet(own) \cup {e} PROVE Stored(x.tx, x.result)
    BY <1>2, <1>4 DEF ResultInv, OwnInv, ToSet
  <2>2. \A i \in DOMAIN own' : own'[i] \in ToSet(own) \cup {e}
    BY <1>7 DEF ToSet
  <2> QED
    BY <1>1, <2>1, <2>2 DEF OwnInv, Stored
<1>9. ResultsTyped' /\ SubmissionInv'
  BY <1>1, <1>2, <1>3, <1>7, SubmissionMoves
<1> QED
  BY <1>1, <1>8, <1>9 DEF ResultInv, AnsweredInv, Stored

LEMMA RecordOwnInv ==
  ASSUME ResultInv, NEW s \in Submitters, RecordOwn(s)
  PROVE  ResultInv'
<1> DEFINE e == [tx |-> submission[s].tx, result |-> submission[s].result]
<1>1. /\ submission[s].step = "record" /\ UNCHANGED <<stamp, own, onDisk, executed>>
      /\ answered' = answered \cup {e} /\ submission' = [submission EXCEPT ![s] = NotSubmitted]
  BY DEF RecordOwn, SubmitAt
<1>2. Stored(e.tx, e.result)
  BY <1>1 DEF ResultInv, SubmissionInv
<1>3. NotSubmitted \in Submissions /\ NotSubmitted.step = "none" /\ own' \in Seq(OwnEntries)
  BY <1>1 DEF NotSubmitted, Submissions, ResultInv, ResultsTyped
<1>4. ResultsTyped' /\ SubmissionInv'
  BY <1>1, <1>3, SubmissionMoves
<1> HIDE DEF e
<1>5. AnsweredInv'
  BY <1>1, <1>2 DEF ResultInv, AnsweredInv, Stored
<1> QED
  BY <1>1, <1>4, <1>5 DEF ResultInv, OwnInv, Stored

LEMMA RestartNodeInv ==
  ASSUME ResultInv, RestartNode
  PROVE  ResultInv'
<1>1. own' = << >> /\ submission' = [u \in Submitters |-> NotSubmitted] /\ UNCHANGED <<stamp, onDisk, executed, answered>>
  BY DEF RestartNode
<1>2. << >> \in Seq(OwnEntries) /\ DOMAIN << >> = {}
  OBVIOUS
<1>3. NotSubmitted \in Submissions /\ NotSubmitted.step = "none"
  BY DEF NotSubmitted, Submissions
<1>4. ResultsTyped'
  BY <1>1, <1>2, <1>3 DEF ResultInv, ResultsTyped
<1>5. OwnInv' /\ AnsweredInv' /\ SubmissionInv'
  BY <1>1, <1>2, <1>3 DEF ResultInv, OwnInv, AnsweredInv, SubmissionInv, Stored
<1> QED
  BY <1>4, <1>5 DEF ResultInv

LEMMA ResultStep == ResultInv /\ [ResultNext]_resultVars => ResultInv'
<1> SUFFICES ASSUME ResultInv, [ResultNext]_resultVars PROVE ResultInv'
  OBVIOUS
<1> USE DEF ResultInv, ResultsTyped, OwnInv, AnsweredInv, SubmissionInv, Stored
<1>1. CASE UNCHANGED resultVars
  BY <1>1 DEF resultVars
<1>2. CASE ReplaceSynced
  <2>1. UNCHANGED <<stamp, own, onDisk, executed, submission, answered>>
    BY <1>2, Zenon DEF ReplaceSynced
  <2> QED
    BY <2>1
<1>3. CASE NextStamp
  <2>1. stamp' \in 0..MaxStamp /\ UNCHANGED <<own, onDisk, synced, executed, submission, answered>>
    BY <1>3, ResultAssumption DEF NextStamp
  <2> QED
    BY <2>1
<1> HIDE DEF ResultInv
<1> QED
  BY <1>1, <1>2, <1>3, SubmitInv, RunInv, PersistInv, KeepOwnInv, RecordOwnInv, RestartNodeInv DEF ResultNext

(* The result a caller was given is the answer for its transaction ever     *)
(* after: for any transactions, callers, snapshots of other nodes, limits   *)
(* of what is in memory, and any number of restarts.                        *)
THEOREM AnswersStay == ResultSpec => []AnsweredIsFound
<1>1. ResultInv => AnsweredIsFound
  <2> SUFFICES ASSUME ResultInv, NEW a \in answered PROVE GetResult(a.tx) = {a.result}
    BY DEF AnsweredIsFound
  <2>1. Stored(a.tx, a.result)
    BY DEF ResultInv, AnsweredInv
  <2>2. On(onDisk, a.tx) = {a.result}
    BY <2>1 DEF On, Stored
  <2>3. InOwn(a.tx) \subseteq {a.result}
    <3>1. \A r \in InOwn(a.tx) : Stored(a.tx, r)
      BY InOwnIsStored DEF ResultInv
    <3> QED
      BY <2>1, <3>1 DEF Stored
  <2>4. GetResult(a.tx) = IF InOwn(a.tx) # {} THEN InOwn(a.tx) ELSE On(onDisk, a.tx)
    BY <2>2, FirstOfThree DEF GetResult
  <2> QED
    BY <2>2, <2>3, <2>4
<1> QED
  BY <1>1, StartResults, ResultStep, PTL DEF ResultSpec


\* What other nodes have sent is in some order.
SyncedInv == synced.order \in Seq(ResultTxs)

LEMMA SyncedStep == ResultInv /\ SyncedInv /\ [ResultNext]_resultVars => SyncedInv'
<1> SUFFICES ASSUME ResultInv, SyncedInv, [ResultNext]_resultVars PROVE SyncedInv'
  OBVIOUS
<1>1. CASE UNCHANGED synced
  BY <1>1 DEF SyncedInv
<1>2. ASSUME NEW s \in Submitters, RecordOwn(s) PROVE SyncedInv'
  <2> DEFINE tx == submission[s].tx
             old == synced.order
             places == {i \in DOMAIN old : old[i] # tx}
  <2>1. tx \in ResultTxs /\ old \in Seq(ResultTxs)
    BY <1>2 DEF RecordOwn, SubmitAt, ResultInv, ResultsTyped, SyncedInv
  <2>2. synced'.order = Latest(Append(Only(old, places), tx), MaxSynced)
    BY <1>2 DEF RecordOwn, Recorded
  <2> HIDE DEF tx, old
  <2>3. Only(old, places) \in Seq(ResultTxs)
    BY <2>1, OnlyKeeps
  <2>4. Append(Only(old, places), tx) \in Seq(ResultTxs)
    BY <2>1, <2>3
  <2> DEFINE all == Append(Only(old, places), tx)
  <2>5. all \in Seq(ResultTxs) /\ MaxSynced \in Nat /\ synced'.order = Latest(all, MaxSynced)
    BY <2>2, <2>4, ResultAssumption
  <2> HIDE DEF all
  <2>6. Latest(all, MaxSynced) \in Seq(ResultTxs)
    BY <2>5, LatestKeeps
  <2> QED
    BY <2>5, <2>6 DEF SyncedInv
<1>3. CASE ReplaceSynced
  <2>1. PICK snap \in Snapshots :
          synced' = [records |-> FoldLeft(LAMBDA f, e : With(f, e.tx, e.result), << >>, snap),
                     order |-> [i \in DOMAIN snap |-> snap[i].tx]]
    BY <1>3, Zenon DEF ReplaceSynced
  <2>2. synced'.order = [i \in DOMAIN snap |-> snap[i].tx]
    BY <2>1
  <2> DEFINE Sent == [tx : ResultTxs, result : [stamp : Nat, of : {"peer"}]]
  <2>3. snap \in Seq(Sent) /\ \A e \in Sent : e.tx \in ResultTxs
    BY ResultAssumption
  <2> HIDE DEF Sent
  <2>4. DOMAIN snap = 1..Len(snap) /\ Len(snap) \in Nat
    BY <2>3
  <2>5. \A i \in DOMAIN snap : snap[i].tx \in ResultTxs
    <3>1. \A i \in DOMAIN snap : snap[i] \in Sent
      BY <2>3
    <3> QED
      BY <2>3, <3>1
  <2>6. [i \in 1..Len(snap) |-> snap[i].tx] \in Seq(ResultTxs)
    BY <2>5, <2>4
  <2> QED
    BY <2>2, <2>6, <2>4 DEF SyncedInv
<1>4. CASE RestartNode
  BY <1>4 DEF RestartNode, NoSync, SyncedInv
<1> QED
  BY <1>1, <1>2, <1>3, <1>4 DEF ResultNext, resultVars, Submit, Run, Persist, KeepOwn, NextStamp

-----------------------------------------------------------------------------
(* Listings and pages *)

\* Of the entries of each transaction the first.
LEMMA FirstOnesKeep ==
  ASSUME NEW S, NEW list \in Seq(S)
  PROVE  /\ FirstOnes(list) \in Seq(S) /\ IsInjective(FirstOnes(list))
         /\ \A d, e \in ToSet(FirstOnes(list)) : d.tx = e.tx => d = e
         /\ \A i \in DOMAIN list : \E j \in 1..i : list[j] \in ToSet(FirstOnes(list)) /\ list[j].tx = list[i].tx
<1> DEFINE places == {i \in DOMAIN list : \A j \in 1..(i - 1) : list[j].tx # list[i].tx}
           f == Only(list, places)
<1>1. DOMAIN list = 1..Len(list) /\ Len(list) \in Nat
  OBVIOUS
<1>2. ASSUME NEW i \in places, NEW j \in places, list[i].tx = list[j].tx PROVE i = j
  <2>1. i \in Nat /\ j \in Nat /\ i >= 1 /\ j >= 1
    BY <1>1
  <2>2. ~(i < j)
    <3>1. i < j => i \in 1..(j - 1)
      BY <2>1
    <3> QED
      BY <1>2, <3>1
  <2>3. ~(j < i)
    <3>1. j < i => j \in 1..(i - 1)
      BY <2>1
    <3> QED
      BY <1>2, <3>1
  <2> QED
    BY <2>1, <2>2, <2>3
<1>3. \A i, j \in places : i # j => list[i] # list[j]
  BY <1>2
<1>4. f \in Seq(S) /\ ToSet(f) = {list[i] : i \in places} /\ IsInjective(f)
  <2> HIDE DEF places
  <2>1. places \in SUBSET DOMAIN list
    BY DEF places
  <2> QED
    BY <1>3, <2>1, OnlyKeeps
<1>5. \A d, e \in ToSet(f) : d.tx = e.tx => d = e
  <2> HIDE DEF f, places
  <2> QED
    BY <1>2, <1>4
<1>6. ASSUME NEW i \in DOMAIN list
      PROVE  \E j \in 1..i : list[j] \in ToSet(f) /\ list[j].tx = list[i].tx
  <2> DEFINE I == {j \in 1..i : list[j].tx = list[i].tx}
  <2>1. i \in Nat /\ i \in I /\ I \subseteq Nat
    BY <1>1
  <2>2. PICK j \in I : \A k \in I : j <= k
    <3> HIDE DEF I
    <3> QED
      BY <2>1, LeastOf
  <2>3. j \in DOMAIN list /\ j \in 1..i
    BY <1>1, <2>1
  <2>4. \A k \in 1..(j - 1) : list[k].tx # list[j].tx
    <3> SUFFICES ASSUME NEW k \in 1..(j - 1), list[k].tx = list[j].tx PROVE FALSE
      OBVIOUS
    <3>1. k \in 1..i /\ k < j
      BY <2>1, <2>3
    <3>2. k \in I
      BY <2>2, <3>1
    <3> QED
      BY <2>2, <2>3, <3>1, <3>2
  <2>5. j \in places
    BY <2>3, <2>4
  <2> HIDE DEF f, places
  <2> QED
    BY <1>4, <2>2, <2>3, <2>5
<1> QED
  BY <1>4, <1>5, <1>6 DEF FirstOnes

\* Entries by their time, the newest first; entries of a later time than any there is are left out.
LEMMA NewestFirstSorts ==
  ASSUME NEW S, NEW list \in Seq(S), IsInjective(list)
  PROVE  /\ NewestFirst(list) \in Seq(S) /\ IsInjective(NewestFirst(list))
         /\ ToSet(NewestFirst(list)) = {e \in ToSet(list) : e.result.stamp \in 0..MaxStamp}
         /\ \A i, j \in DOMAIN NewestFirst(list) : i < j => NewestFirst(list)[i].result.stamp >= NewestFirst(list)[j].result.stamp
<1> DEFINE n == MaxStamp + 1
           q == [i \in 1..(MaxStamp + 1) |-> Stamped(list, MaxStamp + 1 - i)]
           AtTime(time) == {i \in DOMAIN list : list[i].result.stamp = time}
<1>1. MaxStamp \in Nat /\ n \in Nat /\ DOMAIN list = 1..Len(list) /\ Len(list) \in Nat
  BY ResultAssumption
<1>2. \A i, j \in DOMAIN list : i # j => list[i] # list[j]
  BY DEF IsInjective
<1>3. ASSUME NEW time
      PROVE  /\ Stamped(list, time) \in Seq(S) /\ IsInjective(Stamped(list, time))
             /\ ToSet(Stamped(list, time)) = {e \in ToSet(list) : e.result.stamp = time}
  <2>1. AtTime(time) \in SUBSET DOMAIN list
    OBVIOUS
  <2>2. /\ Only(list, AtTime(time)) \in Seq(S) /\ ToSet(Only(list, AtTime(time))) = {list[i] : i \in AtTime(time)}
        /\ (\A i, j \in AtTime(time) : i # j => list[i] # list[j]) => IsInjective(Only(list, AtTime(time)))
    <3> HIDE DEF AtTime
    <3> QED
      BY <2>1, OnlyKeeps
  <2>3. {list[i] : i \in AtTime(time)} = {e \in ToSet(list) : e.result.stamp = time}
    BY DEF ToSet
  <2> QED
    BY <1>2, <2>1, <2>2, <2>3 DEF Stamped
<1>4. q \in Seq(Seq(S)) /\ DOMAIN q = 1..n /\ Len(q) = n
  <2>1. q \in [1..n -> Seq(S)]
    BY <1>3
  <2> QED
    BY <1>1, <2>1
<1>5. ASSUME NEW i \in 1..n PROVE q[i] = Stamped(list, n - i)
  <2>1. i \in 1..(MaxStamp + 1) /\ n = MaxStamp + 1
    OBVIOUS
  <2> HIDE DEF n
  <2>2. q[i] = Stamped(list, MaxStamp + 1 - i)
    BY <2>1
  <2>3. n - i = MaxStamp + 1 - i
    BY <1>1 DEF n
  <2> HIDE DEF q
  <2> QED
    BY <2>2, <2>3, Zenon
<1>6. NewestFirst(list) = FlattenSeq(q)
  BY DEF NewestFirst
<1> HIDE DEF q
<1>7. /\ FlattenSeq(q) \in Seq(S) /\ ToSet(FlattenSeq(q)) = UNION {ToSet(q[i]) : i \in DOMAIN q}
      /\ /\ \A i \in DOMAIN q : IsInjective(q[i])
         /\ \A i, j \in DOMAIN q : i # j => ToSet(q[i]) \cap ToSet(q[j]) = {}
         => IsInjective(FlattenSeq(q))
  BY <1>4, Flattened
<1>8. IsInjective(FlattenSeq(q))
  <2>1. ASSUME NEW i \in 1..n, NEW j \in 1..n, i # j PROVE ToSet(q[i]) \cap ToSet(q[j]) = {}
    <3>1. n - i # n - j
      BY <1>1, <2>1
    <3> QED
      BY <1>3, <1>5, <3>1
  <2> QED
    BY <1>3, <1>4, <1>5, <1>7, <2>1
<1>9. ToSet(FlattenSeq(q)) = {e \in ToSet(list) : e.result.stamp \in 0..MaxStamp}
  <2>1. ASSUME NEW e \in ToSet(FlattenSeq(q)) PROVE e \in ToSet(list) /\ e.result.stamp \in 0..MaxStamp
    <3>1. PICK i \in 1..n : e \in ToSet(q[i])
      BY <1>4, <1>7, <2>1
    <3>2. n - i \in 0..MaxStamp
      BY <1>1
    <3> QED
      BY <1>3, <1>5, <3>1, <3>2
  <2>2. ASSUME NEW e \in ToSet(list), e.result.stamp \in 0..MaxStamp PROVE e \in ToSet(FlattenSeq(q))
    <3> DEFINE i == n - e.result.stamp
    <3>1. i \in 1..n /\ n - i = e.result.stamp
      BY <1>1, <2>2
    <3> HIDE DEF i
    <3>2. e \in ToSet(q[i])
      BY <1>3, <1>5, <3>1
    <3> QED
      BY <1>4, <1>7, <3>1, <3>2
  <2> QED
    BY <2>1, <2>2
<1>10. PICK f \in [0..Len(q) -> Seq(S)] :
         /\ f[0] = << >> /\ FlattenSeq(q) = f[Len(q)]
         /\ \A k \in 1..Len(q) : f[k] = f[k - 1] \o q[k]
  BY <1>4, FlattenedUpTo
<1> HIDE DEF n
<1> DEFINE Sorted(k) ==
             /\ \A i \in DOMAIN f[k] : f[k][i].result.stamp \in Nat /\ f[k][i].result.stamp >= n - k
             /\ \A i, j \in DOMAIN f[k] : i < j => f[k][i].result.stamp >= f[k][j].result.stamp
           A == {k \in Nat : k \in 0..n => Sorted(k)}
<1>11. 0 \in A
  <2>1. DOMAIN f[0] = {}
    BY <1>10
  <2> QED
    BY <2>1
<1> HIDE DEF Sorted
<1>12. ASSUME NEW k \in Nat, k \in A, k + 1 \in 0..n PROVE Sorted(k + 1)
  <2> DEFINE s == f[k]
             t == q[k + 1]
             u == f[k + 1]
             l == Len(s)
             m == Len(t)
  <2>1. k \in 0..n /\ k + 1 \in 1..n /\ (k + 1) - 1 = k /\ Sorted(k)
    BY <1>1, <1>12
  <2>2. u = s \o t /\ s \in Seq(S) /\ t \in Seq(S)
    <3>1. f[k] \in Seq(S)
      BY <1>4, <1>10, <2>1
    <3>2. q[k + 1] \in Seq(S)
      BY <1>3, <1>5, <2>1
    <3>3. f[k + 1] = f[(k + 1) - 1] \o q[k + 1]
      BY <1>4, <1>10, <2>1
    <3> QED
      BY <2>1, <3>1, <3>2, <3>3
  <2>3. /\ \A i \in DOMAIN s : s[i].result.stamp \in Nat /\ s[i].result.stamp >= n - k
        /\ \A i, j \in DOMAIN s : i < j => s[i].result.stamp >= s[j].result.stamp
    BY <2>1 DEF Sorted
  <2>4. \A i \in DOMAIN t : t[i].result.stamp = n - (k + 1)
    <3>1. ToSet(t) = {e \in ToSet(list) : e.result.stamp = n - (k + 1)}
      BY <1>3, <1>5, <2>1
    <3> QED
      BY <3>1 DEF ToSet
  <2> HIDE DEF s, t, u
  <2>5. /\ l \in Nat /\ m \in Nat /\ DOMAIN s = 1..l /\ DOMAIN t = 1..m /\ DOMAIN u = 1..(l + m)
        /\ \A i \in 1..(l + m) : u[i] = IF i <= l THEN s[i] ELSE t[i - l]
    BY <2>2
  <2> HIDE DEF l, m
  <2>6. n - (k + 1) \in Nat /\ n - k >= n - (k + 1)
    BY <1>1, <2>1
  <2>7. ASSUME NEW i \in 1..(l + m)
        PROVE  \/ i \in DOMAIN s /\ u[i] = s[i]
               \/ i > l /\ i - l \in DOMAIN t /\ u[i] = t[i - l]
    BY <2>5
  <2>8. \A i \in DOMAIN u : u[i].result.stamp \in Nat /\ u[i].result.stamp >= n - (k + 1)
    <3> SUFFICES ASSUME NEW i \in 1..(l + m) PROVE u[i].result.stamp \in Nat /\ u[i].result.stamp >= n - (k + 1)
      BY <2>5
    <3>1. CASE i \in DOMAIN s /\ u[i] = s[i]
      <4>1. s[i].result.stamp \in Nat /\ s[i].result.stamp >= n - k
        BY <2>3, <3>1
      <4> QED
        BY <1>1, <2>6, <3>1, <4>1
    <3>2. CASE i - l \in DOMAIN t /\ u[i] = t[i - l]
      <4>1. t[i - l].result.stamp = n - (k + 1)
        BY <2>4, <3>2
      <4> QED
        BY <2>6, <3>2, <4>1
    <3> QED
      BY <2>7, <3>1, <3>2
  <2>9. ASSUME NEW i \in 1..(l + m), NEW j \in 1..(l + m), i < j PROVE u[i].result.stamp >= u[j].result.stamp
    <3>1. CASE j \in DOMAIN s
      <4>1. i \in DOMAIN s /\ u[i] = s[i] /\ u[j] = s[j]
        BY <2>5, <2>9, <3>1
      <4> QED
        BY <2>3, <2>9, <3>1, <4>1
    <3>2. CASE j > l /\ j - l \in DOMAIN t /\ u[j] = t[j - l]
      <4>1. u[j].result.stamp = n - (k + 1)
        BY <2>4, <3>2
      <4> QED
        BY <2>5, <2>8, <4>1
    <3> QED
      BY <2>7, <3>1, <3>2
  <2> QED
    BY <2>5, <2>8, <2>9 DEF u, Sorted
<1>13. n \in A
  <2>1. \A k \in Nat : k \in A => k + 1 \in A
    <3>1. \A k \in Nat : k \in A /\ k + 1 \in 0..n => Sorted(k + 1)
      BY <1>12
    <3> QED
      BY <3>1
  <2> HIDE DEF A
  <2> QED
    BY <1>1, <1>11, <2>1, AllNumbers
<1>14. Sorted(n)
  BY <1>1, <1>13
<1> QED
  BY <1>4, <1>6, <1>7, <1>8, <1>9, <1>10, <1>14 DEF Sorted

LEMMA LesserOf ==
  ASSUME NEW a \in Nat, NEW b \in Nat
  PROVE  Min({a, b}) \in {a, b} /\ Min({a, b}) <= a /\ Min({a, b}) <= b
<1> DEFINE I == {a, b}
<1>1. I \subseteq Nat /\ I # {} /\ a \in I /\ b \in I
  OBVIOUS
<1> HIDE DEF I
<1>2. Min(I) \in I /\ Min(I) <= a /\ Min(I) <= b
  BY <1>1, LeastOf
<1> QED
  BY <1>2 DEF I

\* The front of a sequence and what follows it.
LEMMA FrontAndNext ==
  ASSUME NEW S, NEW list \in Seq(S), NEW a \in Nat, NEW b \in a..Len(list)
  PROVE  SubSeq(list, 1, a) \o SubSeq(list, a + 1, b) = SubSeq(list, 1, b)
<1> DEFINE s == SubSeq(list, 1, a)
           t == SubSeq(list, a + 1, b)
           u == SubSeq(list, 1, b)
<1>1. b \in Nat /\ Len(list) \in Nat
  OBVIOUS
<1>2. s \in Seq(S) /\ Len(s) = a /\ \A i \in 1..a : s[i] = list[i]
  BY <1>1
<1>3. t \in Seq(S) /\ Len(t) = b - a /\ \A i \in 1..(b - a) : t[i] = list[a + i]
  <2>1. t \in Seq(S) /\ Len(t) = b - a
    BY <1>1
  <2>2. ASSUME NEW i \in 1..(b - a) PROVE t[i] = list[a + i]
    BY <1>1
  <2> QED
    BY <2>1, <2>2
<1>4. u \in Seq(S) /\ Len(u) = b /\ \A i \in 1..b : u[i] = list[i]
  BY <1>1
<1> HIDE DEF s, t, u
<1>5. s \o t \in Seq(S) /\ Len(s \o t) = b /\ \A i \in 1..b : (s \o t)[i] = IF i <= a THEN s[i] ELSE t[i - a]
  <2>1. s \o t \in Seq(S) /\ Len(s \o t) = Len(s) + Len(t)
    <3>1. s \in Seq(S) /\ t \in Seq(S)
      BY <1>2, <1>3
    <3> QED
      BY <3>1
  <2>2. Len(s) + Len(t) = b
    BY <1>1, <1>2, <1>3
  <2>3. \A i \in 1..(Len(s) + Len(t)) : (s \o t)[i] = IF i <= Len(s) THEN s[i] ELSE t[i - Len(s)]
    BY <1>2, <1>3
  <2> QED
    BY <1>2, <2>1, <2>2, <2>3
<1>6. ASSUME NEW i \in 1..b PROVE (s \o t)[i] = u[i]
  <2>1. i \in Nat /\ i >= 1 /\ i <= b /\ u[i] = list[i] /\ (s \o t)[i] = IF i <= a THEN s[i] ELSE t[i - a]
    BY <1>1, <1>4, <1>5
  <2>2. CASE i <= a
    <3>1. i \in 1..a
      BY <2>1, <2>2
    <3> QED
      BY <1>2, <2>1, <2>2, <3>1
  <2>3. CASE ~(i <= a)
    <3>1. i - a \in 1..(b - a) /\ a + (i - a) = i
      BY <1>1, <2>1, <2>3
    <3> QED
      BY <1>3, <2>1, <2>3, <3>1
  <2> QED
    BY <2>2, <2>3
<1> QED
  BY <1>4, <1>5, <1>6 DEF s, t, u

\* A page that starts within a list ends where the next starts, or with the list.
LEMMA OnePage ==
  ASSUME NEW S, NEW list \in Seq(S), NEW limit \in Nat \ {0}, NEW p \in Nat \ {0},
         (p - 1) * limit <= Len(list)
  PROVE  LET from == (p - 1) * limit
             to == Min({from + limit, Len(list)})
         IN  /\ from \in Nat /\ to \in from..Len(list) /\ (to = from + limit \/ to = Len(list))
             /\ Page(list, p, limit).items = SubSeq(list, from + 1, to)
             /\ Page(list, p, limit).items \in Seq(S)
             /\ Page(list, p, limit).hasMore <=> to < Len(list)
<1> DEFINE from == (p - 1) * limit
           l == Len(list)
           to == Min({from + limit, l})
<1>1. from \in Nat /\ l \in Nat
  <2>1. p - 1 \in Nat
    OBVIOUS
  <2> QED
    BY <2>1
<1>2. from <= l
  OBVIOUS
<1>3. /\ Page(list, p, limit).items = SubSeq(list, from + 1, to)
      /\ Page(list, p, limit).hasMore <=> from + Len(SubSeq(list, from + 1, to)) < l
  BY DEF Page, Skip
<1> HIDE DEF from
<1>4. to \in from..l /\ (to = from + limit \/ to = l)
  <2>1. from + limit \in Nat
    BY <1>1
  <2>2. to \in {from + limit, l} /\ to <= l
    BY <1>1, <2>1, LesserOf
  <2>3. from <= from + limit
    BY <1>1
  <2> QED
    BY <1>1, <1>2, <2>1, <2>2, <2>3
<1> HIDE DEF to
<1>5. SubSeq(list, from + 1, to) \in Seq(S) /\ Len(SubSeq(list, from + 1, to)) = to - from
  BY <1>1, <1>2, <1>4
<1>6. from + (to - from) = to
  BY <1>1, <1>4
<1>7. Page(list, p, limit).items = SubSeq(list, from + 1, to) /\ (Page(list, p, limit).hasMore <=> to < l)
  <2>1. from + Len(SubSeq(list, from + 1, to)) = to
    BY <1>5, <1>6
  <2> QED
    BY <1>3, <2>1
<1> QED
  BY <1>1, <1>4, <1>5, <1>7 DEF from, to

\* The pages up to the first that says there are no more, one after the other, are the list.
LEMMA PagesAreList ==
  ASSUME NEW S, NEW list \in Seq(S), NEW limit \in Nat \ {0}
  PROVE  FlattenSeq([p \in 1..Min({p \in 1..(Len(list) + 1) : ~Page(list, p, limit).hasMore})
                       |-> Page(list, p, limit).items]) = list
<1> DEFINE l == Len(list)
           from(p) == (p - 1) * limit
           to(p) == Min({from(p) + limit, l})
           ends == {p \in 1..(l + 1) : ~Page(list, p, limit).hasMore}
           final == Min(ends)
           q == [p \in 1..final |-> Page(list, p, limit).items]
<1>1. l \in Nat /\ DOMAIN list = 1..l
  OBVIOUS
<1>2. ASSUME NEW p \in Nat \ {0}, from(p) <= l
      PROVE  /\ from(p) \in Nat /\ to(p) \in from(p)..l /\ (to(p) = from(p) + limit \/ to(p) = l)
             /\ Page(list, p, limit).items = SubSeq(list, from(p) + 1, to(p))
             /\ Page(list, p, limit).items \in Seq(S)
             /\ Page(list, p, limit).hasMore <=> to(p) < l
  BY <1>2, OnePage
<1>3. ASSUME NEW p \in Nat \ {0} PROVE from(p + 1) = from(p) + limit /\ from(1) = 0 /\ from(p) \in Nat
  <2>1. (p + 1) - 1 = (p - 1) + 1 /\ p - 1 \in Nat
    OBVIOUS
  <2>2. ((p - 1) + 1) * limit = (p - 1) * limit + limit
    BY <2>1
  <2> QED
    BY <2>1, <2>2
<1> HIDE DEF from, to, l
<1>4. ASSUME NEW p \in Nat \ {0}, from(p) <= l
       PROVE  /\ Page(list, p, limit).hasMore => to(p) < l /\ to(p) = from(p) + limit
              /\ ~Page(list, p, limit).hasMore => to(p) = l
  <2>1. /\ from(p) \in Nat /\ to(p) \in from(p)..l /\ (to(p) = from(p) + limit \/ to(p) = l)
        /\ Page(list, p, limit).hasMore <=> to(p) < l
    BY <1>2, <1>4
  <2>2. to(p) <= l /\ to(p) \in Nat
    BY <1>1, <2>1
  <2> QED
    BY <1>1, <2>1, <2>2
\* There is such a page: each page but the last takes one entry at least.
<1>5. \E p \in Nat \ {0} : from(p) <= l /\ p <= l + 1 /\ ~Page(list, p, limit).hasMore
  <2> SUFFICES ASSUME \A p \in Nat \ {0} : from(p) <= l /\ p <= l + 1 => Page(list, p, limit).hasMore PROVE FALSE
    OBVIOUS
  <2> DEFINE A == {k \in Nat : k <= l + 1 => k <= from(k + 1) /\ from(k + 1) <= l}
  <2>1. 0 \in A
    BY <1>1, <1>3
  <2>2. ASSUME NEW k \in Nat, k \in A, k + 1 <= l + 1 PROVE k + 1 <= from((k + 1) + 1) /\ from((k + 1) + 1) <= l
    <3>1. k + 1 \in Nat \ {0} /\ k <= l + 1 /\ k <= from(k + 1) /\ from(k + 1) <= l
      BY <1>1, <2>2
    <3>2. Page(list, k + 1, limit).hasMore
      BY <2>2, <3>1
    <3>3. to(k + 1) < l /\ to(k + 1) = from(k + 1) + limit
      BY <3>1, <3>2, <1>4
    <3>4. from((k + 1) + 1) = from(k + 1) + limit /\ from(k + 1) \in Nat
      BY <1>3, <3>1
    <3> QED
      BY <1>1, <3>1, <3>3, <3>4
  <2>3. \A k \in Nat : k \in A => k + 1 \in A
    BY <2>2
  <2> HIDE DEF A
  <2>4. l + 1 \in A
    BY <1>1, <2>1, <2>3, AllNumbers
  <2> QED
    <3>1. l + 1 <= from((l + 1) + 1) /\ from((l + 1) + 1) <= l
      BY <1>1, <2>4 DEF A
    <3>2. from((l + 1) + 1) \in Nat
      <4>1. (l + 1) + 1 \in Nat \ {0}
        BY <1>1
      <4> QED
        BY <1>3, <4>1
    <3> QED
      BY <1>1, <3>1, <3>2
<1>6. final \in ends /\ \A p \in ends : final <= p
  <2>1. ends \subseteq Nat /\ ends # {}
    BY <1>1, <1>5
  <2> HIDE DEF ends
  <2> QED
    BY <2>1, LeastOf
<1>7. final \in 1..(l + 1) /\ final \in Nat \ {0} /\ ~Page(list, final, limit).hasMore
  BY <1>1, <1>6
<1>8. \A p \in 1..(final - 1) : Page(list, p, limit).hasMore
  <2> SUFFICES ASSUME NEW p \in 1..(final - 1), ~Page(list, p, limit).hasMore PROVE FALSE
    OBVIOUS
  <2>1. p \in ends /\ p < final
    BY <1>1, <1>7
  <2> QED
    BY <1>6, <1>7, <2>1
<1> HIDE DEF ends, final
\* The pages start within the list.
<1>9. \A p \in 1..final : from(p) <= l
  <2> DEFINE A == {k \in Nat : k + 1 \in 1..final => from(k + 1) <= l}
  <2>1. 0 \in A
    BY <1>1, <1>3
  <2>2. ASSUME NEW k \in Nat, k \in A, (k + 1) + 1 \in 1..final PROVE from((k + 1) + 1) <= l
    <3>1. k + 1 \in Nat \ {0} /\ k + 1 \in 1..(final - 1) /\ from(k + 1) <= l
      BY <1>7, <2>2
    <3>2. to(k + 1) < l /\ to(k + 1) = from(k + 1) + limit
      BY <1>8, <1>4, <3>1
    <3>3. from((k + 1) + 1) = from(k + 1) + limit /\ from(k + 1) + limit \in Nat
      BY <1>3, <3>1
    <3>4. from((k + 1) + 1) < l /\ from((k + 1) + 1) \in Nat
      BY <3>2, <3>3
    <3> QED
      BY <1>1, <3>4
  <2>3. \A k \in Nat : k \in A => k + 1 \in A
    BY <2>2
  <2> HIDE DEF A
  <2>4. Nat \subseteq A
    BY <2>1, <2>3, AllNumbers
  <2> SUFFICES ASSUME NEW p \in 1..final PROVE from(p) <= l
    OBVIOUS
  <2>5. p - 1 \in A /\ (p - 1) + 1 = p
    BY <1>7, <2>4
  <2> QED
    BY <2>5 DEF A
<1>10. q \in Seq(Seq(S)) /\ Len(q) = final /\ \A p \in 1..final : q[p] = SubSeq(list, from(p) + 1, to(p))
  <2>1. ASSUME NEW p \in 1..final PROVE Page(list, p, limit).items \in Seq(S) /\ p \in Nat \ {0}
    <3>1. p \in Nat \ {0}
      BY <1>7
    <3> QED
      BY <1>2, <1>9, <3>1
  <2>2. q \in [1..final -> Seq(S)]
    BY <2>1
  <2>3. q \in Seq(Seq(S)) /\ Len(q) = final
    BY <1>7, <2>2
  <2>4. \A p \in 1..final : q[p] = Page(list, p, limit).items
    OBVIOUS
  <2> QED
    BY <1>2, <1>9, <2>1, <2>3, <2>4
<1> HIDE DEF q
<1>11. PICK f \in [0..Len(q) -> Seq(S)] :
         /\ f[0] = << >> /\ FlattenSeq(q) = f[Len(q)]
         /\ \A k \in 1..Len(q) : f[k] = f[k - 1] \o q[k]
  BY <1>10, FlattenedUpTo
<1>12. FlattenSeq(q) = f[final] /\ \A k \in 1..final : f[k] = f[k - 1] \o q[k]
  BY <1>10, <1>11
<1> DEFINE A == {k \in Nat : k \in 1..final => f[k] = SubSeq(list, 1, to(k))}
<1>13. 0 \in A
  OBVIOUS
<1>14. ASSUME NEW k \in Nat, k \in A, k + 1 \in 1..final PROVE f[k + 1] = SubSeq(list, 1, to(k + 1))
  <2>1. /\ f[k + 1] = f[k] \o q[k + 1] /\ q[k + 1] = SubSeq(list, from(k + 1) + 1, to(k + 1))
        /\ k + 1 \in Nat \ {0} /\ from(k + 1) <= l
    <3>1. f[k + 1] = f[(k + 1) - 1] \o q[k + 1]
      <4> HIDE DEF A
      <4> QED
        BY <1>14, <1>12
    <3>2. (k + 1) - 1 = k
      OBVIOUS
    <3> QED
      BY <1>7, <1>9, <1>10, <1>14, <3>1, <3>2
  <2>2. to(k + 1) \in from(k + 1)..l /\ from(k + 1) \in Nat
    BY <1>2, <2>1
  <2>3. f[k] = SubSeq(list, 1, from(k + 1))
    <3>1. CASE k = 0
      <4>1. f[k] = << >> /\ k + 1 = 1
        BY <1>11, <3>1
      <4>2. from(k + 1) = 0
        BY <1>3, <4>1
      <4> QED
        BY <4>1, <4>2
    <3>2. CASE k # 0
      <4>1. k \in Nat \ {0} /\ k \in 1..final /\ k \in 1..(final - 1)
        BY <1>7, <1>14, <3>2
      <4>2. f[k] = SubSeq(list, 1, to(k)) /\ from(k) <= l /\ Page(list, k, limit).hasMore
        BY <1>8, <1>9, <1>14, <4>1
      <4>3. to(k) = from(k) + limit
        BY <1>4, <4>1, <4>2
      <4> QED
        BY <1>3, <4>1, <4>2, <4>3
    <3> QED
      BY <3>1, <3>2
  <2> DEFINE a == from(k + 1)
             b == to(k + 1)
  <2>4. f[k + 1] = SubSeq(list, 1, a) \o SubSeq(list, a + 1, b) /\ a \in Nat /\ b \in a..l
    BY <2>1, <2>2, <2>3
  <2> HIDE DEF a, b
  <2>5. SubSeq(list, 1, a) \o SubSeq(list, a + 1, b) = SubSeq(list, 1, b)
    BY <2>4, FrontAndNext DEF l
  <2> QED
    BY <2>4, <2>5 DEF b
<1>15. final \in A
  <2>1. \A k \in Nat : k \in A => k + 1 \in A
    BY <1>14
  <2> HIDE DEF A
  <2> QED
    BY <1>7, <1>13, <2>1, AllNumbers
<1>16. f[final] = SubSeq(list, 1, to(final))
  BY <1>7, <1>15
<1>17. to(final) = l
  <2>1. final \in 1..final /\ from(final) <= l
    BY <1>7, <1>9
  <2> QED
    BY <1>7, <1>4, <2>1
<1>18. SubSeq(list, 1, l) = list
  BY DEF l
<1>19. FlattenSeq(q) = list
  BY <1>16, <1>17, <1>18, <1>12
<1> QED
  BY <1>19 DEF q, final, ends, l

Listing(others) == NewestFirst(FirstOnes(Reverse(own) \o others))

\* A listing has every result in memory, each transaction once, the newest first.
LEMMA ListingKeeps ==
  ASSUME ResultsTyped, NEW U, NEW others \in Seq(U)
  PROVE  /\ \E T : Listing(others) \in Seq(T)
         /\ {own[i].tx : i \in DOMAIN own} \subseteq {Listing(others)[i].tx : i \in DOMAIN Listing(others)}
         /\ \A i, j \in DOMAIN Listing(others) : i < j =>
              /\ Listing(others)[i].tx # Listing(others)[j].tx
              /\ Listing(others)[i].result.stamp >= Listing(others)[j].result.stamp
<1> DEFINE T == OwnEntries \cup U
           n == Len(own)
           all == Reverse(own) \o others
           ones == FirstOnes(all)
           list == NewestFirst(ones)
<1>1. own \in Seq(OwnEntries) /\ n \in Nat /\ DOMAIN own = 1..n
  BY DEF ResultsTyped
<1>2. Reverse(own) \in Seq(OwnEntries) /\ Len(Reverse(own)) = n /\ \A i \in 1..n : Reverse(own)[i] = own[(n - i) + 1]
  <2>1. Reverse(own) = [i \in 1..n |-> own[(n - i) + 1]]
    BY DEF Reverse
  <2>2. \A i \in 1..n : (n - i) + 1 \in 1..n
    BY <1>1
  <2>3. [i \in 1..n |-> own[(n - i) + 1]] \in [1..n -> OwnEntries]
    BY <1>1, <2>2
  <2> QED
    BY <1>1, <2>1, <2>3
<1>3. all \in Seq(T) /\ DOMAIN all = 1..Len(all) /\ Len(all) = n + Len(others) /\ Len(others) \in Nat
      /\ \A i \in 1..n : all[i] = Reverse(own)[i]
  <2> DEFINE mine == Reverse(own)
  <2>1. mine \in Seq(T) /\ others \in Seq(T) /\ Len(mine) = n
    BY <1>2
  <2> HIDE DEF mine, n
  <2>2. mine \o others \in Seq(T) /\ Len(mine \o others) = n + Len(others) /\ Len(others) \in Nat
    BY <2>1
  <2>3. \A i \in 1..n : (mine \o others)[i] = mine[i]
    BY <1>1, <2>1
  <2>4. DOMAIN (mine \o others) = 1..Len(mine \o others)
    BY <2>2
  <2>5. all = mine \o others
    BY DEF mine
  <2> HIDE DEF all
  <2> QED
    BY <2>2, <2>3, <2>4, <2>5 DEF n, mine
<1> HIDE DEF all
<1>4. /\ ones \in Seq(T) /\ IsInjective(ones)
      /\ \A d, e \in ToSet(ones) : d.tx = e.tx => d = e
      /\ \A i \in DOMAIN all : \E j \in 1..i : all[j] \in ToSet(ones) /\ all[j].tx = all[i].tx
  BY <1>3, FirstOnesKeep
<1> HIDE DEF ones
<1>5. /\ list \in Seq(T) /\ IsInjective(list)
      /\ ToSet(list) = {e \in ToSet(ones) : e.result.stamp \in 0..MaxStamp}
      /\ \A i, j \in DOMAIN list : i < j => list[i].result.stamp >= list[j].result.stamp
  BY <1>4, NewestFirstSorts
<1> HIDE DEF list
<1>6. ASSUME NEW i \in DOMAIN own PROVE \E k \in DOMAIN list : list[k].tx = own[i].tx
  <2> DEFINE r == (n - i) + 1
  <2>1. r \in 1..n /\ (n - r) + 1 = i
    BY <1>1
  <2> HIDE DEF r
  <2>2. r \in DOMAIN all /\ all[r] = own[i]
    BY <1>1, <1>2, <1>3, <2>1
  <2>3. PICK j \in 1..r : all[j] \in ToSet(ones) /\ all[j].tx = own[i].tx
    BY <1>4, <2>2
  <2>4. j \in 1..n /\ (n - j) + 1 \in 1..n /\ all[j] = own[(n - j) + 1]
    BY <1>1, <1>2, <1>3, <2>1, <2>3
  <2>5. all[j].result.stamp \in 0..MaxStamp
    <3>1. all[j] \in OwnEntries
      BY <1>1, <2>4
    <3> QED
      BY <3>1 DEF OwnEntries, Results
  <2>6. all[j] \in ToSet(list)
    BY <1>5, <2>3, <2>5
  <2> QED
    BY <2>3, <2>6 DEF ToSet
<1>7. ASSUME NEW i \in DOMAIN list, NEW j \in DOMAIN list, i # j PROVE list[i].tx # list[j].tx
  <2>1. list[i] \in ToSet(ones) /\ list[j] \in ToSet(ones)
    BY <1>5 DEF ToSet
  <2>2. list[i] # list[j]
    BY <1>5, <1>7 DEF IsInjective
  <2> QED
    BY <1>4, <2>1, <2>2
<1>8. \A i, j \in DOMAIN list : i < j => i # j
  <2>1. \A i \in DOMAIN list : i \in Nat
    BY <1>5
  <2> QED
    BY <2>1
<1>9. Listing(others) = list
  BY DEF Listing, list, ones, all
<1> QED
  BY <1>5, <1>6, <1>7, <1>8, <1>9

(* The pages of a listing, read up to the first that says there are no more,  *)
(* are the listing: every result in memory, each transaction once, the newest *)
(* first.  For any page size but 0, any limits of what is kept, and any       *)
(* snapshots of other nodes.                                                  *)
THEOREM PagesAreWhole == ResultSpec => []PagesTile
<1>1. ResultInit => SyncedInv
  BY DEF ResultInit, SyncedInv, NoSync
<1>2. ResultInv /\ SyncedInv => PagesTile
  <2> SUFFICES ASSUME ResultInv, SyncedInv, NEW list \in {ListResults, ListOperations}, NEW limit \in Limits
               PROVE  LET final == Min({p \in 1..(Len(list) + 1) : ~Page(list, p, limit).hasMore})
                          read == FlattenSeq([p \in 1..final |-> Page(list, p, limit).items])
                      IN  /\ {own[i].tx : i \in DOMAIN own} \subseteq {read[i].tx : i \in DOMAIN read}
                          /\ \A i, j \in DOMAIN read :
                               i < j => read[i].tx # read[j].tx /\ read[i].result.stamp >= read[j].result.stamp
                          /\ Len(read) = Len(list)
    BY DEF PagesTile
  <2>1. \E U : SyncedList \in Seq(U)
    <3> DEFINE order == synced.order
               n == Len(order)
               s == [i \in DOMAIN order |-> [tx |-> order[i], result |-> synced.records[order[i]]]]
               U == {s[i] : i \in DOMAIN order}
    <3>1. n \in Nat /\ DOMAIN order = 1..n
      BY DEF SyncedInv
    <3>2. \A i \in 1..n : s[i] \in U
      BY <3>1
    <3>3. DOMAIN s = 1..n
      BY <3>1
    <3> HIDE DEF U, order
    <3>4. s \in [1..n -> U]
      <4>1. s = [i \in 1..n |-> s[i]]
        BY <3>1
      <4> HIDE DEF s, n
      <4> QED
        BY <3>2, <4>1
    <3>5. s \in Seq(U) /\ Len(s) = n
      <4> HIDE DEF s, n
      <4> QED
        BY <3>1, <3>4
    <3>6. \A i \in 1..n : (n - i) + 1 \in 1..n
      BY <3>1
    <3>7. Reverse(s) = [i \in 1..n |-> s[(n - i) + 1]]
      BY <3>5 DEF Reverse
    <3>8. [i \in 1..n |-> s[(n - i) + 1]] \in [1..n -> U]
      BY <3>2, <3>6
    <3>9. Reverse(s) \in Seq(U)
      <4> DEFINE r == Reverse(s)
      <4>1. r \in [1..n -> U]
        BY <3>7, <3>8
      <4> HIDE DEF r, s, n
      <4>2. r \in Seq(U)
        BY <3>1, <4>1
      <4> QED
        BY <4>2 DEF r
    <3> QED
      BY <3>9 DEF SyncedList, order
  <2>2. PICK U : SyncedList \in Seq(U)
    BY <2>1
  <2>3. << >> \in Seq(U)
    OBVIOUS
  <2>4. \E others \in Seq(U) : list = Listing(others)
    BY <2>2, <2>3 DEF ListResults, ListOperations, Listing
  <2>5. PICK others \in Seq(U) : list = Listing(others)
    BY <2>4
  <2>6. /\ \E T : list \in Seq(T)
        /\ {own[i].tx : i \in DOMAIN own} \subseteq {list[i].tx : i \in DOMAIN list}
        /\ \A i, j \in DOMAIN list : i < j => list[i].tx # list[j].tx /\ list[i].result.stamp >= list[j].result.stamp
    <3> DEFINE l == Listing(others)
    <3>1. /\ \E T : l \in Seq(T)
          /\ {own[i].tx : i \in DOMAIN own} \subseteq {l[i].tx : i \in DOMAIN l}
          /\ \A i, j \in DOMAIN l : i < j => l[i].tx # l[j].tx /\ l[i].result.stamp >= l[j].result.stamp
      BY ListingKeeps DEF ResultInv
    <3>2. l = list
      BY <2>5
    <3> HIDE DEF l
    <3> QED
      BY <3>1, <3>2
  <2>7. limit \in Nat \ {0}
    BY ResultAssumption
  <2>8. FlattenSeq([p \in 1..Min({p \in 1..(Len(list) + 1) : ~Page(list, p, limit).hasMore})
                      |-> Page(list, p, limit).items]) = list
    BY <2>6, <2>7, PagesAreList
  <2> QED
    BY <2>6, <2>8
<1> QED
  BY <1>1, <1>2, StartResults, ResultStep, SyncedStep, PTL DEF ResultSpec

-----------------------------------------------------------------------------
(* The wallet *)

AccountSet == [name : AccountNames, key : Nat, phrase : Phrases \cup {Clear}]

\* An account has its own name and its own key, one of the first n.
WellFormed(w, n) ==
  /\ DOMAIN w = {"version", "accounts", "default"} /\ w.accounts \in Seq(AccountSet)
  /\ \A i \in DOMAIN w.accounts : w.accounts[i].key \in 1..n
  /\ \A i, j \in DOMAIN w.accounts :
       i # j => w.accounts[i].name # w.accounts[j].name /\ w.accounts[i].key # w.accounts[j].key
  /\ w.default # NoName => w.default \in NamesOf(w.accounts)
WalletTyped ==
  /\ keys \in Nat /\ WellFormed(wallet, keys)
  /\ {<<k, kept[k]>> : k \in DOMAIN kept} = {<<a.key, a.phrase>> : a \in Range(wallet.accounts)}

ProcessInv ==
  /\ DOMAIN process = Processes
  /\ \A p \in Processes :
       LET me == process[p]
       IN  /\ DOMAIN me = DOMAIN WaitingProcess
           /\ me.step # "none" =>
                /\ me.name \in AccountNames /\ me.new \in Phrases
                /\ me.command \in {"new", "batch", "delete", "rotate", "migrate", "unlock", "sign"}
           /\ me.step = "save" => Mutates(me.command)
           /\ me.step = "sessions" => me.command \in {"delete", "unlock", "sign"}
           /\ me.step = "forget" => me.command = "delete"
           /\ me.step \in {"keep", "sign"} => me.command \in {"unlock", "sign"}
           /\ me.step \in {"none", "load", "save", "sessions", "forget", "keep", "sign", "done"}

\* One command at most changes the wallet; it holds the lock, and saves what it makes of the wallet as it is.
LockInv ==
  /\ \A p \in Working : Mutates(process[p].command) => lockFile
  /\ \A p, q \in Working : Mutates(process[p].command) /\ Mutates(process[q].command) => p = q
  /\ \A p \in Processes :
       LET me == process[p]
       IN  me.step = "save" =>
             /\ me.loaded = <<wallet>>
             /\ me.command = "new" => me.name \notin NamesOf(wallet.accounts)
             /\ me.command = "delete" =>
                  me.account # << >> /\ me.account[1] \in Range(wallet.accounts) /\ me.account[1].name = me.name

\* The names and keys of the accounts, and of one whose sessions are still to be removed.
PairsOf(accts) == {<<a.name, a.key>> : a \in Range(accts)}
Pending(p) == <<process[p].name, process[p].account[1].key>>
Current == PairsOf(wallet.accounts) \cup {Pending(p) : p \in {q \in Processes : HalfDeleted(q)}}
AllCurrent(open) == \A s \in open : <<s.name, s.key>> \in Current

OneKeyEach == \A x, y \in Current : x[1] = y[1] => x = y
HoldsCurrent(p) ==
  LET me == process[p]
  IN  /\ me.step = "forget" \/ me.step = "keep" \/ (me.step = "sign" /\ me.token # 0) => AllCurrent(me.loaded[1])
      /\ me.step \in {"sessions", "keep", "sign"} /\ me.command # "delete" =>
           me.account[1].name = me.name /\ Pending(p) \in Current
SessionInv ==
  /\ OneKeyEach
  /\ ~raced =>
       /\ AllCurrent(sessions)
       /\ \A s \in signed : s.used = s.own
       /\ \A p \in Processes : HoldsCurrent(p)

WalletInv == WalletTyped /\ ProcessInv /\ LockInv /\ SessionInv

-----------------------------------------------------------------------------
(* Parts of a list *)

Picked(list, places) == FlattenSeq([i \in DOMAIN list |-> IF i \in places THEN <<list[i]>> ELSE << >>])

LEMMA PickedPart ==
  ASSUME NEW S, NEW list \in Seq(S), NEW places
  PROVE  /\ Picked(list, places) \in Seq(S)
         /\ ToSet(Picked(list, places)) = {list[i] : i \in places \cap DOMAIN list}
         /\ IsInjective(list) => IsInjective(Picked(list, places))
<1> DEFINE q == [i \in DOMAIN list |-> IF i \in places THEN <<list[i]>> ELSE << >>]
<1>1. Len(list) \in Nat /\ DOMAIN list = 1..Len(list) /\ \A i \in DOMAIN list : list[i] \in S
  OBVIOUS
<1>2. \A i \in DOMAIN list : <<list[i]>> \in Seq(S) /\ << >> \in Seq(S)
  BY <1>1
<1>3. q \in Seq(Seq(S))
  <2>1. q \in [1..Len(list) -> Seq(S)]
    BY <1>1, <1>2
  <2> QED
    BY <1>1, <2>1
<1>4. \A i \in DOMAIN list : ToSet(q[i]) = (IF i \in places THEN {list[i]} ELSE {}) /\ IsInjective(q[i])
  BY DEF ToSet, IsInjective
<1>5. DOMAIN q = DOMAIN list
  OBVIOUS
<1> HIDE DEF q
<1>6. FlattenSeq(q) \in Seq(S) /\ ToSet(FlattenSeq(q)) = UNION {ToSet(q[i]) : i \in DOMAIN q}
  BY <1>3, Flattened
<1>7. UNION {ToSet(q[i]) : i \in DOMAIN q} = {list[i] : i \in places \cap DOMAIN list}
  BY <1>4, <1>5
<1>8. ASSUME IsInjective(list) PROVE IsInjective(FlattenSeq(q))
  <2>1. \A i \in DOMAIN q : IsInjective(q[i])
    BY <1>4, <1>5
  <2>2. \A i, j \in DOMAIN q : i # j => ToSet(q[i]) \cap ToSet(q[j]) = {}
    BY <1>4, <1>5, <1>8 DEF IsInjective
  <2> QED
    BY <1>3, <2>1, <2>2, Flattened
<1> QED
  BY <1>6, <1>7, <1>8 DEF q, Picked

LEMMA NamedAccount ==
  ASSUME NEW S, NEW accts \in Seq(S), NEW n
  PROVE  /\ Named(accts, n) = << >> => n \notin NamesOf(accts)
         /\ Named(accts, n) # << >> => Named(accts, n)[1] \in Range(accts) /\ Named(accts, n)[1].name = n
<1> DEFINE places == {i \in DOMAIN accts : accts[i].name = n}
           mine == Picked(accts, places)
<1>1. Named(accts, n) = mine
  BY DEF Named, Picked
<1>2. mine \in Seq(S) /\ ToSet(mine) = {accts[i] : i \in places \cap DOMAIN accts}
  <2> HIDE DEF places
  <2> QED
    BY PickedPart
<1> HIDE DEF mine
<1>3. ASSUME mine = << >> PROVE n \notin NamesOf(accts)
  <2>1. ToSet(mine) = {}
    BY <1>3 DEF ToSet
  <2> QED
    BY <1>2, <2>1 DEF NamesOf
<1>4. ASSUME mine # << >> PROVE mine[1] \in Range(accts) /\ mine[1].name = n
  <2>1. mine[1] \in ToSet(mine)
    BY <1>2, <1>4 DEF ToSet
  <2> QED
    BY <1>2, <2>1 DEF Range
<1> QED
  BY <1>1, <1>3, <1>4

\* Accounts of which no two share a name or a key.
Apart(accts) ==
  \A i, j \in DOMAIN accts : i # j => accts[i].name # accts[j].name /\ accts[i].key # accts[j].key

LEMMA UnnamedAccounts ==
  ASSUME NEW S, NEW accts \in Seq(S), NEW n, Apart(accts)
  PROVE  /\ Unnamed(accts, n) \in Seq(S) /\ Apart(Unnamed(accts, n))
         /\ Range(Unnamed(accts, n)) = {a \in Range(accts) : a.name # n}
<1> DEFINE places == {i \in DOMAIN accts : accts[i].name # n}
           left == Picked(accts, places)
<1>1. Unnamed(accts, n) = left
  <2> DEFINE f == [i \in DOMAIN accts |-> IF accts[i].name = n THEN << >> ELSE <<accts[i]>>]
             g == [i \in DOMAIN accts |-> IF i \in places THEN <<accts[i]>> ELSE << >>]
  <2>1. f = g
    OBVIOUS
  <2> HIDE DEF f, g
  <2>2. FlattenSeq(f) = FlattenSeq(g)
    BY <2>1
  <2> QED
    BY <2>2 DEF Unnamed, Picked, f, g
<1>2. IsInjective(accts)
  BY DEF Apart, IsInjective
<1>3. /\ left \in Seq(S) /\ ToSet(left) = {accts[i] : i \in places \cap DOMAIN accts} /\ IsInjective(left)
  <2> HIDE DEF places
  <2> QED
    BY <1>2, PickedPart
<1> HIDE DEF left
<1>4. Range(left) = {a \in Range(accts) : a.name # n}
  BY <1>3 DEF Range, ToSet
<1>5. Apart(left)
  <2> SUFFICES ASSUME NEW i \in DOMAIN left, NEW j \in DOMAIN left, i # j
               PROVE  left[i].name # left[j].name /\ left[i].key # left[j].key
    BY DEF Apart
  <2>1. left[i] # left[j]
    BY <1>3 DEF IsInjective
  <2>2. left[i] \in Range(accts) /\ left[j] \in Range(accts)
    BY <1>4 DEF Range
  <2> QED
    BY <2>1, <2>2 DEF Apart, Range
<1> QED
  BY <1>1, <1>3, <1>4, <1>5

-----------------------------------------------------------------------------
(* What a save writes *)

\* History follows what a save changes, if it has read the accounts as they are.
LEMMA KeptFollows ==
  ASSUME NEW before, NEW after, Apart(before), Apart(after),
         {<<k, kept[k]>> : k \in DOMAIN kept} = {<<a.key, a.phrase>> : a \in Range(before)}
  PROVE  LET now == KeptAfter(before, after)
         IN  {<<k, now[k]>> : k \in DOMAIN now} = {<<a.key, a.phrase>> : a \in Range(after)}
<1> DEFINE gone == KeysOf(before) \ KeysOf(after)
           touched == {a.key : a \in Range(after) \ Range(before)}
           PhraseOf(k) == (CHOOSE a \in Range(after) : a.key = k).phrase
           D == (DOMAIN kept \ gone) \cup touched
           now == [k \in D |-> IF k \in touched THEN PhraseOf(k) ELSE kept[k]]
<1>1. now = KeptAfter(before, after)
  BY DEF KeptAfter
<1>2. \A a, b \in Range(after) : a.key = b.key => a = b
  BY DEF Apart, Range
<1>3. \A a, b \in Range(before) : a.key = b.key => a = b
  BY DEF Apart, Range
<1>4. \A a \in Range(after) : PhraseOf(a.key) = a.phrase
  <2> SUFFICES ASSUME NEW a \in Range(after) PROVE PhraseOf(a.key) = a.phrase
    OBVIOUS
  <2>1. (CHOOSE b \in Range(after) : b.key = a.key) = a
    BY <1>2
  <2> QED
    BY <2>1
<1>5. \A k : k \in DOMAIN kept <=> \E a \in Range(before) : a.key = k
  <2>1. ASSUME NEW k \in DOMAIN kept PROVE \E a \in Range(before) : a.key = k
    <3>1. <<k, kept[k]>> \in {<<a.key, a.phrase>> : a \in Range(before)}
      OBVIOUS
    <3> QED
      BY <3>1
  <2>2. ASSUME NEW a \in Range(before) PROVE a.key \in DOMAIN kept
    <3>1. <<a.key, a.phrase>> \in {<<k, kept[k]>> : k \in DOMAIN kept}
      OBVIOUS
    <3> QED
      BY <3>1
  <2> QED
    BY <2>1, <2>2
<1>6. \A a \in Range(before) : kept[a.key] = a.phrase
  <2> SUFFICES ASSUME NEW a \in Range(before) PROVE kept[a.key] = a.phrase
    OBVIOUS
  <2>1. <<a.key, a.phrase>> \in {<<k, kept[k]>> : k \in DOMAIN kept}
    OBVIOUS
  <2> QED
    BY <2>1
<1>7. \A k : (k \in KeysOf(before) <=> \E a \in Range(before) : a.key = k)
             /\ (k \in KeysOf(after) <=> \E a \in Range(after) : a.key = k)
  BY DEF KeysOf, Range
<1> HIDE DEF PhraseOf
<1>8. ASSUME NEW a \in Range(after) PROVE a.key \in D /\ now[a.key] = a.phrase
  <2>1. CASE a \in Range(before)
    <3>1. a.key \notin touched
      BY <1>2, <2>1
    <3>2. a.key \in D
      BY <1>5, <1>7, <2>1
    <3> QED
      BY <1>6, <2>1, <3>1, <3>2
  <2>2. CASE a \notin Range(before)
    <3>1. a.key \in touched
      BY <2>2
    <3> QED
      BY <1>4, <3>1
  <2> QED
    BY <2>1, <2>2
<1>9. ASSUME NEW k \in D PROVE \E a \in Range(after) : a.key = k
  BY <1>5, <1>7
<1>10. DOMAIN now = D
  OBVIOUS
<1> HIDE DEF now, D
<1>11. {<<k, now[k]>> : k \in D} = {<<a.key, a.phrase>> : a \in Range(after)}
  BY <1>8, <1>9
<1> QED
  BY <1>1, <1>10, <1>11

LEMMA AddedWallet ==
  ASSUME keys \in Nat, WellFormed(wallet, keys), NEW phrase \in Phrases,
         NEW names \in Seq(AccountNames), names # << >>, IsInjective(names),
         \A i \in DOMAIN names : names[i] \notin NamesOf(wallet.accounts)
  PROVE  LET w == Added(wallet, names, phrase)
         IN  /\ Cardinality(KeysOf(w.accounts) \ KeysOf(wallet.accounts)) \in Nat
             /\ WellFormed(w, keys + Cardinality(KeysOf(w.accounts) \ KeysOf(wallet.accounts)))
             /\ Range(wallet.accounts) \subseteq Range(w.accounts)
<1> DEFINE old == wallet.accounts
           new == [i \in DOMAIN names |-> Account(names[i], keys + i, phrase)]
           m == Len(old)
           n == Len(names)
           all == old \o new
           w == Added(wallet, names, phrase)
<1>1. /\ DOMAIN w = {"version", "accounts", "default"} /\ w.accounts = all
      /\ w.default = IF wallet.default = NoName THEN names[1] ELSE wallet.default
  BY DEF Added, WellFormed
<1>2. /\ old \in Seq(AccountSet) /\ m \in Nat /\ DOMAIN old = 1..m /\ \A i \in 1..m : old[i].key \in 1..keys
      /\ \A i, j \in 1..m : i # j => old[i].name # old[j].name /\ old[i].key # old[j].key
      /\ wallet.default # NoName => wallet.default \in NamesOf(old)
  BY DEF WellFormed
<1>3. n \in Nat /\ n > 0 /\ DOMAIN names = 1..n /\ \A i \in 1..n : names[i] \in AccountNames
  OBVIOUS
<1>4. /\ DOMAIN new = 1..n /\ \A i \in 1..n : new[i] = [name |-> names[i], key |-> keys + i, phrase |-> phrase]
  BY <1>3 DEF Account
<1>5. ASSUME NEW i \in 1..n PROVE new[i] \in AccountSet /\ new[i].name = names[i] /\ new[i].key = keys + i
  <2>1. new[i] = [name |-> names[i], key |-> keys + i, phrase |-> phrase]
    BY <1>4
  <2>2. keys + i \in Nat /\ names[i] \in AccountNames
    BY <1>3
  <2> HIDE DEF new
  <2> QED
    BY <2>1, <2>2 DEF AccountSet
<1> HIDE DEF new
<1>6. new \in Seq(AccountSet) /\ Len(new) = n
  <2>1. new \in [1..n -> AccountSet]
    <3>1. new = [i \in 1..n |-> new[i]]
      BY <1>3 DEF new
    <3> QED
      BY <1>5, <3>1
  <2> QED
    BY <1>3, <2>1
<1>7. /\ all \in Seq(AccountSet) /\ DOMAIN all = 1..(m + n)
      /\ \A i \in 1..(m + n) : all[i] = IF i <= m THEN old[i] ELSE new[i - m]
  <2>1. old \in Seq(AccountSet) /\ new \in Seq(AccountSet)
    BY <1>2, <1>6
  <2> HIDE DEF old
  <2>2. all \in Seq(AccountSet) /\ Len(all) = Len(old) + Len(new)
    BY <2>1
  <2>3. \A i \in 1..(Len(old) + Len(new)) : all[i] = IF i <= Len(old) THEN old[i] ELSE new[i - Len(old)]
    BY <2>1
  <2> QED
    BY <1>6, <2>2, <2>3
<1> HIDE DEF all, old, m, n, w
<1>8. \A i \in 1..m : i \in 1..(m + n) /\ all[i] = old[i]
  BY <1>2, <1>3, <1>7
<1>9. \A i \in 1..n : m + i \in 1..(m + n) /\ all[m + i] = new[i]
  BY <1>2, <1>3, <1>7
<1>10. \A i \in 1..(m + n) : (i \in 1..m /\ all[i] = old[i]) \/ (i - m \in 1..n /\ all[i] = new[i - m])
  BY <1>2, <1>3, <1>7
<1>11. KeysOf(all) \ KeysOf(old) = (keys + 1)..(keys + n)
  <2>1. ASSUME NEW k \in KeysOf(all), k \notin KeysOf(old) PROVE k \in (keys + 1)..(keys + n)
    <3>1. PICK i \in 1..(m + n) : k = all[i].key
      BY <1>7 DEF KeysOf
    <3>2. i - m \in 1..n /\ all[i] = new[i - m]
      BY <1>2, <1>10, <2>1, <3>1 DEF KeysOf
    <3>3. k = keys + (i - m)
      BY <1>5, <3>1, <3>2
    <3> QED
      BY <1>3, <3>2, <3>3
  <2>2. ASSUME NEW k \in (keys + 1)..(keys + n) PROVE k \in KeysOf(all) /\ k \notin KeysOf(old)
    <3>1. k - keys \in 1..n /\ k = keys + (k - keys)
      BY <1>3
    <3>2. all[m + (k - keys)].key = k /\ m + (k - keys) \in 1..(m + n)
      BY <1>5, <1>9, <3>1
    <3>3. k \in KeysOf(all)
      BY <1>7, <3>2 DEF KeysOf
    <3>4. k \notin 1..keys
      OBVIOUS
    <3> QED
      BY <1>2, <3>3, <3>4 DEF KeysOf
  <2> QED
    BY <2>1, <2>2
<1>12. Cardinality((keys + 1)..(keys + n)) = n
  BY <1>3, FS_Interval
<1>13. ASSUME NEW i \in 1..(m + n) PROVE all[i].key \in 1..(keys + n)
  <2>1. CASE i \in 1..m /\ all[i] = old[i]
    <3>1. all[i].key \in 1..keys
      BY <1>2, <2>1
    <3> QED
      BY <1>3, <3>1
  <2>2. CASE i - m \in 1..n /\ all[i] = new[i - m]
    <3>1. all[i].key = keys + (i - m)
      BY <1>5, <2>2
    <3> QED
      BY <1>2, <1>3, <2>2, <3>1
  <2> QED
    BY <1>10, <2>1, <2>2
<1>14. ASSUME NEW i \in 1..(m + n), NEW j \in 1..(m + n), i # j PROVE all[i].name # all[j].name /\ all[i].key # all[j].key
  <2>1. CASE i \in 1..m /\ j \in 1..m /\ all[i] = old[i] /\ all[j] = old[j]
    BY <1>2, <1>14, <2>1
  <2>2. \A a \in 1..m, b \in 1..n : old[a].name # new[b].name /\ old[a].key # new[b].key
    <3> SUFFICES ASSUME NEW a \in 1..m, NEW b \in 1..n PROVE old[a].name # new[b].name /\ old[a].key # new[b].key
      OBVIOUS
    <3>1. old[a].name \in NamesOf(old) /\ new[b].name = names[b] /\ names[b] \notin NamesOf(old)
      BY <1>2, <1>3, <1>5 DEF NamesOf, old
    <3>2. old[a].key \in 1..keys /\ new[b].key = keys + b
      BY <1>2, <1>5
    <3>3. keys + b \notin 1..keys
      <4>1. keys + b > keys
        BY <1>3
      <4> QED
        BY <4>1
    <3> QED
      BY <3>1, <3>2, <3>3
  <2>3. CASE i - m \in 1..n /\ j - m \in 1..n /\ all[i] = new[i - m] /\ all[j] = new[j - m]
    <3>1. i - m # j - m
      BY <1>2, <1>3, <1>14
    <3>2. names[i - m] # names[j - m]
      BY <1>3, <2>3, <3>1 DEF IsInjective
    <3> QED
      BY <1>2, <1>3, <1>5, <2>3, <3>1, <3>2
  <2> QED
    BY <1>10, <2>1, <2>2, <2>3
<1>15. NamesOf(old) \subseteq NamesOf(all) /\ names[1] \in NamesOf(all)
  <2>1. \A i \in 1..m : all[i].name = old[i].name /\ i \in DOMAIN all
    BY <1>7, <1>8
  <2>2. m + 1 \in DOMAIN all /\ all[m + 1].name = names[1]
    <3>1. 1 \in 1..n
      BY <1>3
    <3>2. new[1].name = names[1]
      BY <1>5, <3>1
    <3> QED
      BY <1>7, <1>9, <3>1, <3>2
  <2>3. NamesOf(all) = {all[i].name : i \in 1..(m + n)} /\ NamesOf(old) = {old[i].name : i \in 1..m}
    BY <1>2, <1>7 DEF NamesOf
  <2>4. NamesOf(old) \subseteq NamesOf(all)
    BY <1>7, <2>1, <2>3
  <2>5. names[1] \in NamesOf(all)
    BY <1>7, <2>2, <2>3
  <2> QED
    BY <2>4, <2>5
<1>16. WellFormed(w, keys + n)
  BY <1>1, <1>2, <1>7, <1>13, <1>14, <1>15 DEF WellFormed
<1>17. Range(old) \subseteq Range(all)
  BY <1>2, <1>7, <1>8 DEF Range
<1> QED
  BY <1>1, <1>3, <1>11, <1>12, <1>16, <1>17 DEF old, w

LEMMA DeletedWallet ==
  ASSUME keys \in Nat, WellFormed(wallet, keys), NEW n
  PROVE  LET w == Deleted(wallet, n)
         IN  /\ WellFormed(w, keys) /\ KeysOf(w.accounts) \ KeysOf(wallet.accounts) = {}
             /\ Range(w.accounts) = {a \in Range(wallet.accounts) : a.name # n}
<1> DEFINE old == wallet.accounts
           left == Unnamed(old, n)
           w == Deleted(wallet, n)
<1>1. /\ DOMAIN w = {"version", "accounts", "default"} /\ w.accounts = left
      /\ w.default = IF wallet.default # n THEN wallet.default ELSE IF left = << >> THEN NoName ELSE left[1].name
  BY DEF Deleted, WellFormed
<1>2. /\ old \in Seq(AccountSet) /\ Apart(old) /\ \A i \in DOMAIN old : old[i].key \in 1..keys
      /\ wallet.default # NoName => wallet.default \in NamesOf(old)
  BY DEF WellFormed, Apart
<1> HIDE DEF left, w, old
<1>3. left \in Seq(AccountSet) /\ Apart(left) /\ Range(left) = {a \in Range(old) : a.name # n}
  BY <1>2, UnnamedAccounts DEF left
<1>4. \A i \in DOMAIN left : \E j \in DOMAIN old : left[i] = old[j]
  BY <1>3 DEF Range
<1>5. \A i \in DOMAIN left : left[i].key \in 1..keys
  BY <1>2, <1>4
<1>6. KeysOf(left) \ KeysOf(old) = {}
  BY <1>4 DEF KeysOf
<1>7. w.default # NoName => w.default \in NamesOf(left)
  <2>1. CASE wallet.default # n
    <3> SUFFICES ASSUME wallet.default # NoName PROVE wallet.default \in NamesOf(left)
      BY <1>1, <2>1
    <3>1. PICK i \in DOMAIN old : old[i].name = wallet.default
      BY <1>2 DEF NamesOf
    <3>2. old[i] \in Range(left)
      BY <1>3, <2>1, <3>1 DEF Range
    <3> QED
      BY <3>1, <3>2 DEF Range, NamesOf
  <2>2. CASE wallet.default = n /\ left # << >>
    <3>1. 1 \in DOMAIN left
      BY <1>3, <2>2
    <3> QED
      BY <1>1, <2>2, <3>1 DEF NamesOf
  <2> QED
    BY <1>1, <2>1, <2>2
<1>8. WellFormed(w, keys)
  BY <1>1, <1>3, <1>5, <1>7 DEF WellFormed, Apart
<1> QED
  BY <1>1, <1>3, <1>6, <1>8 DEF w, old

LEMMA EncryptedAccounts ==
  ASSUME NEW n, NEW w, NEW after, WellFormed(w, n), NEW phrase \in Phrases, NEW changed,
         DOMAIN after = DOMAIN w, after.default = w.default, after.accounts = Encrypted(w.accounts, phrase, changed)
  PROVE  /\ WellFormed(after, n) /\ KeysOf(after.accounts) \ KeysOf(w.accounts) = {}
         /\ PairsOf(w.accounts) \subseteq PairsOf(after.accounts)
<1> DEFINE old == w.accounts
           new == after.accounts
<1>1. old \in Seq(AccountSet) /\ Len(old) \in Nat /\ DOMAIN old = 1..Len(old) /\ \A i \in DOMAIN old : old[i] \in AccountSet
  BY DEF WellFormed
<1>2. new = [i \in DOMAIN old |-> IF old[i].name \in changed THEN [old[i] EXCEPT !.phrase = phrase] ELSE old[i]]
  BY DEF Encrypted
<1> HIDE DEF old, new
<1>3. ASSUME NEW i \in DOMAIN old
      PROVE  new[i] \in AccountSet /\ new[i].name = old[i].name /\ new[i].key = old[i].key
  BY <1>1, <1>2 DEF AccountSet
<1>4. DOMAIN new = DOMAIN old /\ new \in Seq(AccountSet)
  <2>1. new \in [1..Len(old) -> AccountSet]
    BY <1>1, <1>2, <1>3
  <2> QED
    BY <1>1, <2>1
<1>5. NamesOf(new) = NamesOf(old) /\ KeysOf(new) = KeysOf(old)
  BY <1>3, <1>4 DEF NamesOf, KeysOf
<1>6. PairsOf(new) = PairsOf(old)
  <2>1. \A i \in DOMAIN old : <<new[i].name, new[i].key>> = <<old[i].name, old[i].key>>
    BY <1>3
  <2> QED
    BY <1>4, <2>1 DEF PairsOf, Range
<1>7. WellFormed(after, n)
  BY <1>3, <1>4, <1>5 DEF WellFormed, old, new
<1> QED
  BY <1>5, <1>6, <1>7 DEF old, new

-----------------------------------------------------------------------------
(* The steps of a command *)

LEMMA SaveWrites ==
  ASSUME WalletInv, NEW p \in Processes, Save(p)
  PROVE  /\ WalletTyped'
         /\ process[p].command # "delete" => PairsOf(wallet.accounts) \subseteq PairsOf(wallet'.accounts)
         /\ process[p].command = "delete" =>
              Range(wallet'.accounts) = {a \in Range(wallet.accounts) : a.name # process[p].name}
<1> DEFINE me == process[p]
           old == wallet.accounts
<1>1. me.step = "save" /\ me.loaded = <<wallet>> /\ (me.command = "new" => me.name \notin NamesOf(old))
  BY DEF Save, ProcAt, WalletInv, LockInv
<1>2. me.name \in AccountNames /\ me.new \in Phrases /\ Mutates(me.command)
  BY <1>1 DEF WalletInv, ProcessInv
<1>3. me.loaded[1] = wallet
  BY <1>1
<1>4. PICK names \in NewNames(me) :
        LET before == me.loaded[1].accounts
            after == Written(me, names)
        IN  /\ wallet' = after
            /\ keys' = keys + Cardinality(KeysOf(after.accounts) \ KeysOf(before))
            /\ kept' = KeptAfter(before, after.accounts)
  BY DEF Save
<1> DEFINE after == Written(me, names)
<1>5. /\ wallet' = after /\ keys' = keys + Cardinality(KeysOf(after.accounts) \ KeysOf(old))
      /\ kept' = KeptAfter(old, after.accounts)
  BY <1>3, <1>4
<1>6. keys \in Nat /\ WellFormed(wallet, keys)
      /\ {<<k, kept[k]>> : k \in DOMAIN kept} = {<<a.key, a.phrase>> : a \in Range(old)}
  BY DEF WalletInv, WalletTyped
<1> DEFINE Fine == /\ Cardinality(KeysOf(after.accounts) \ KeysOf(old)) \in Nat
                   /\ WellFormed(after, keys + Cardinality(KeysOf(after.accounts) \ KeysOf(old)))
<1> HIDE DEF me
<1>7. ASSUME me.command \in {"new", "batch"} PROVE Fine /\ PairsOf(old) \subseteq PairsOf(after.accounts)
  <2>1. names \in Seq(AccountNames) /\ names # << >> /\ IsInjective(names) /\ \A i \in DOMAIN names : names[i] \notin NamesOf(old)
    <3>1. CASE me.command = "new"
      <4>1. names = <<me.name>>
        BY <1>4, <3>1 DEF NewNames
      <4> QED
        BY <1>1, <1>2, <3>1, <4>1 DEF IsInjective
    <3>2. CASE me.command = "batch"
      <4>1. /\ names \in [1..2 -> AccountNames \ NamesOf(old)]
            /\ \A i, j \in 1..2 : i < j => names[i] < names[j]
        BY <1>3, <1>4, <3>2 DEF NewNames, FreeNames
      <4>2. 1 \in 1..2 /\ 2 \in 1..2 /\ 1 < 2 /\ 2 \in Nat
        OBVIOUS
      <4>3. names[1] \in Nat /\ names[1] < names[2]
        BY <4>1, <4>2, WalletAssumption
      <4>4. \A i, j \in 1..2 : names[i] = names[j] => i = j
        <5>1. names[1] # names[2]
          BY <4>3
        <5>2. \A i \in 1..2 : i = 1 \/ i = 2
          OBVIOUS
        <5> QED
          BY <5>1, <5>2
      <4>5. names \in [1..2 -> AccountNames] /\ \A i \in 1..2 : names[i] \notin NamesOf(old)
        BY <4>1
      <4> HIDE DEF old
      <4>6. names \in Seq(AccountNames) /\ DOMAIN names = 1..2
        <5>1. names \in UNION {[1..n -> AccountNames] : n \in Nat}
          BY <4>2, <4>5, Zenon
        <5>2. DOMAIN names = 1..2
          BY <4>5, Zenon
        <5> QED
          BY <5>1, <5>2, SeqDef, Zenon
      <4>7. names # << >>
        BY <4>2, <4>6
      <4> QED
        BY <4>4, <4>5, <4>6, <4>7 DEF IsInjective
    <3> QED
      BY <1>7, <3>1, <3>2
  <2>2. after = Added(wallet, names, me.new)
    BY <1>3, <1>7 DEF Written
  <2> HIDE DEF after
  <2>3. Fine /\ Range(old) \subseteq Range(after.accounts)
    <3> DEFINE w == Added(wallet, names, me.new)
    <3>1. Cardinality(KeysOf(w.accounts) \ KeysOf(wallet.accounts)) \in Nat
      BY <1>2, <1>6, <2>1, AddedWallet
    <3>2. WellFormed(w, keys + Cardinality(KeysOf(w.accounts) \ KeysOf(wallet.accounts)))
      BY <1>2, <1>6, <2>1, AddedWallet
    <3>3. Range(wallet.accounts) \subseteq Range(w.accounts)
      BY <1>2, <1>6, <2>1, AddedWallet
    <3> HIDE DEF w
    <3>4. after = w
      BY <2>2 DEF w
    <3> QED
      BY <3>1, <3>2, <3>3, <3>4
  <2>4. PairsOf(old) \subseteq PairsOf(after.accounts)
    BY <2>3 DEF PairsOf
  <2> QED
    BY <2>3, <2>4
<1>8. ASSUME me.command = "delete" PROVE Fine /\ Range(after.accounts) = {a \in Range(old) : a.name # me.name}
  <2>1. after = Deleted(wallet, me.name)
    BY <1>3, <1>8 DEF Written
  <2> DEFINE w == Deleted(wallet, me.name)
  <2>2. WellFormed(w, keys)
    BY <1>6, DeletedWallet
  <2>3. KeysOf(w.accounts) \ KeysOf(wallet.accounts) = {}
    BY <1>6, DeletedWallet
  <2>4. Range(w.accounts) = {a \in Range(wallet.accounts) : a.name # me.name}
    BY <1>6, DeletedWallet
  <2>5. Cardinality({}) = 0
    BY FS_EmptySet
  <2> HIDE DEF w, after
  <2>6. after = w
    BY <2>1 DEF w
  <2> QED
    BY <1>6, <1>8, <2>2, <2>3, <2>4, <2>5, <2>6
<1>9. ASSUME me.command \in {"rotate", "migrate"} PROVE Fine /\ PairsOf(old) \subseteq PairsOf(after.accounts)
  <2>1. PICK changed : after.accounts = Encrypted(old, me.new, changed) /\ DOMAIN after = DOMAIN wallet /\ after.default = wallet.default
    <3>1. DOMAIN wallet = {"version", "accounts", "default"}
      BY <1>6 DEF WellFormed
    <3>2. CASE me.command = "rotate"
      <4>1. after = [wallet EXCEPT !.accounts = Encrypted(@, me.new, {me.name})]
        BY <1>3, <3>2 DEF Written
      <4> QED
        BY <3>1, <4>1
    <3>3. CASE me.command = "migrate"
      <4>1. after = [wallet EXCEPT !.version = 2, !.accounts = Encrypted(@, me.new, NamesOf(@))]
        BY <1>3, <3>3 DEF Written
      <4> QED
        BY <3>1, <4>1
    <3> QED
      BY <1>9, <3>2, <3>3
  <2> HIDE DEF after
  <2>2. WellFormed(after, keys) /\ KeysOf(after.accounts) \ KeysOf(old) = {} /\ PairsOf(old) \subseteq PairsOf(after.accounts)
    <3> HIDE DEF old
    <3>1. WellFormed(after, keys)
      BY <1>2, <1>6, <2>1, EncryptedAccounts DEF old
    <3>2. KeysOf(after.accounts) \ KeysOf(old) = {}
      BY <1>2, <1>6, <2>1, EncryptedAccounts DEF old
    <3>3. PairsOf(old) \subseteq PairsOf(after.accounts)
      BY <1>2, <1>6, <2>1, EncryptedAccounts DEF old
    <3> QED
      BY <3>1, <3>2, <3>3
  <2>3. Cardinality({}) = 0
    BY FS_EmptySet
  <2>4. Cardinality(KeysOf(after.accounts) \ KeysOf(old)) = 0 /\ 0 \in Nat /\ keys + 0 = keys
    BY <1>6, <2>2, <2>3
  <2> HIDE DEF old
  <2> QED
    BY <2>2, <2>4
<1> HIDE DEF after
<1>a. me.command \in {"new", "batch"} \/ me.command = "delete" \/ me.command \in {"rotate", "migrate"}
  BY <1>2 DEF Mutates
<1>10. Fine
  BY <1>7, <1>8, <1>9, <1>a
<1>11. Apart(old) /\ Apart(after.accounts)
  BY <1>6, <1>10 DEF WellFormed, Apart
<1>12. {<<k, KeptAfter(old, after.accounts)[k]>> : k \in DOMAIN KeptAfter(old, after.accounts)}
         = {<<a.key, a.phrase>> : a \in Range(after.accounts)}
  BY <1>6, <1>11, KeptFollows
<1>13. WalletTyped'
  BY <1>5, <1>6, <1>10, <1>12 DEF WalletTyped
<1> QED
  BY <1>5, <1>7, <1>8, <1>9, <1>13, <1>a DEF me, old

\* Of two commands that change the wallet, or are to remove sessions, one is at work.
LEMMA OneAtWork ==
  ASSUME ProcessInv, LockInv, NEW p \in Processes, process[p].step # "none", Mutates(process[p].command),
         NEW q \in Processes, HalfDeleted(q) \/ process[q].step = "save"
  PROVE  q = p
<1>1. process[q].step # "none" /\ Mutates(process[q].command)
  BY DEF HalfDeleted, Mutates, ProcessInv
<1>2. p \in Working /\ q \in Working
  BY <1>1 DEF Working
<1> QED
  BY <1>1, <1>2 DEF LockInv

\* A step that takes a command on, and leaves the rest of it.
LEMMA ProcMoves ==
  ASSUME ProcessInv, NEW p \in Processes, NEW step, ProcTo(p, step)
  PROVE  /\ DOMAIN process' = Processes /\ \A q \in Processes \ {p} : process'[q] = process[q]
         /\ DOMAIN process'[p] = DOMAIN WaitingProcess
         /\ process'[p].step = step /\ process'[p].command = process[p].command /\ process'[p].name = process[p].name
         /\ process'[p].new = process[p].new /\ process'[p].loaded = process[p].loaded
         /\ process'[p].account = process[p].account /\ process'[p].token = process[p].token
<1> DEFINE now == [process[p] EXCEPT !.step = step]
<1>1. process' = [process EXCEPT ![p] = now]
  BY DEF ProcTo
<1>2. DOMAIN process = Processes /\ DOMAIN process[p] = DOMAIN WaitingProcess
  BY DEF ProcessInv
<1>3. process'[p] = now
  BY <1>1, <1>2
<1> QED
  BY <1>1, <1>2, <1>3 DEF WaitingProcess

\* What is current stays so, and who holds sessions or an account holds the same.
LEMMA SessionsStay ==
  ASSUME SessionInv, Current \subseteq Current', OneKeyEach', UNCHANGED <<sessions, signed>>, raced' <=> raced,
         NEW p \in Processes, \A q \in Processes \ {p} : process'[q] = process[q], ~raced => HoldsCurrent(p)'
  PROVE  SessionInv'
<1> SUFFICES ASSUME ~raced' PROVE AllCurrent(sessions)' /\ (\A s \in signed : s.used = s.own)'
                                  /\ (\A q \in Processes : HoldsCurrent(q))'
  BY DEF SessionInv
<1>1. ~raced
  OBVIOUS
<1>2. AllCurrent(sessions)' /\ (\A s \in signed : s.used = s.own)'
  BY <1>1 DEF SessionInv, AllCurrent
<1>3. ASSUME NEW q \in Processes \ {p} PROVE HoldsCurrent(q)'
  <2>1. HoldsCurrent(q) /\ process'[q] = process[q]
    BY <1>1 DEF SessionInv
  <2> QED
    BY <2>1 DEF HoldsCurrent, AllCurrent, Pending
<1> QED
  BY <1>1, <1>2, <1>3

\* Nothing that makes a pair current has changed.
LEMMA CurrentStays ==
  ASSUME UNCHANGED wallet, NEW p \in Processes, \A q \in Processes \ {p} : process'[q] = process[q],
         HalfDeleted(p)' <=> HalfDeleted(p), HalfDeleted(p) => Pending(p)' = Pending(p)
  PROVE  Current' = Current
<1>1. \A q \in Processes : HalfDeleted(q)' <=> HalfDeleted(q)
  BY DEF HalfDeleted
<1>2. \A q \in Processes : HalfDeleted(q) => Pending(q)' = Pending(q)
  BY DEF Pending
<1>3. {Pending(q) : q \in {r \in Processes : HalfDeleted(r)}}' = {Pending(q) : q \in {r \in Processes : HalfDeleted(r)}}
  BY <1>1, <1>2
<1> QED
  BY <1>3 DEF Current

LEMMA StartWallet == WalletInit => WalletInv
<1> SUFFICES ASSUME WalletInit PROVE WalletInv
  OBVIOUS
<1> DEFINE n == Len(LegacyAccounts)
<1>1. /\ keys = n /\ process = [p \in Processes |-> WaitingProcess] /\ sessions = LegacySessions /\ signed = {}
      /\ wallet.accounts = LegacyAccounts /\ wallet.default = NoName /\ DOMAIN wallet = {"version", "accounts", "default"}
      /\ kept = [k \in {LegacyAccounts[i].key : i \in DOMAIN LegacyAccounts} |-> Clear]
  BY DEF WalletInit
<1>2. LegacyAccounts \in Seq([name : AccountNames, key : 1..n, phrase : {Clear}]) /\ n \in Nat
      /\ \A i \in DOMAIN LegacyAccounts : LegacyAccounts[i] \in [name : AccountNames, key : 1..n, phrase : {Clear}]
  <2> DEFINE S == [name : AccountNames, key : 1..n, phrase : {Clear}]
  <2>1. LegacyAccounts \in Seq(S)
    BY WalletAssumption
  <2> HIDE DEF S
  <2>2. n \in Nat /\ \A i \in DOMAIN LegacyAccounts : LegacyAccounts[i] \in S
    BY <2>1
  <2> QED
    BY <2>1, <2>2 DEF S
<1>3. LegacyAccounts \in Seq(AccountSet)
  <2>1. [name : AccountNames, key : 1..n, phrase : {Clear}] \subseteq AccountSet
    BY DEF AccountSet
  <2> QED
    BY <1>2, <2>1
<1>4. WellFormed(wallet, keys)
  BY <1>1, <1>2, <1>3, WalletAssumption DEF WellFormed
<1>5. {<<k, kept[k]>> : k \in DOMAIN kept} = {<<a.key, a.phrase>> : a \in Range(LegacyAccounts)}
  <2>1. \A i \in DOMAIN LegacyAccounts : LegacyAccounts[i].phrase = Clear
    BY <1>2
  <2>2. \A k \in DOMAIN kept : kept[k] = Clear /\ \E i \in DOMAIN LegacyAccounts : k = LegacyAccounts[i].key
    BY <1>1
  <2>3. \A i \in DOMAIN LegacyAccounts : LegacyAccounts[i].key \in DOMAIN kept
    BY <1>1
  <2> QED
    BY <2>1, <2>2, <2>3 DEF Range
<1>6. \A p \in Processes : process[p] = WaitingProcess
  BY <1>1
<1>7. WaitingProcess.step = "none" /\ WaitingProcess.command = "none"
  BY DEF WaitingProcess
<1>8. ProcessInv
  BY <1>1, <1>6, <1>7 DEF ProcessInv
<1>9. LockInv
  BY <1>6, <1>7 DEF LockInv, Working
<1>10. Current = PairsOf(wallet.accounts)
  BY <1>6, <1>7 DEF Current, HalfDeleted
<1>11. OneKeyEach
  <2> SUFFICES ASSUME NEW x \in Current, NEW y \in Current, x[1] = y[1] PROVE x = y
    BY DEF OneKeyEach
  <2>1. wallet.accounts = LegacyAccounts
    BY <1>1
  <2>2. \A z \in Current : \E i \in DOMAIN LegacyAccounts : z = <<LegacyAccounts[i].name, LegacyAccounts[i].key>>
    BY <1>10, <2>1 DEF PairsOf, Range
  <2>3. PICK i \in DOMAIN LegacyAccounts : x = <<LegacyAccounts[i].name, LegacyAccounts[i].key>>
    BY <2>2
  <2>4. PICK j \in DOMAIN LegacyAccounts : y = <<LegacyAccounts[j].name, LegacyAccounts[j].key>>
    BY <2>2
  <2>5. LegacyAccounts[i].name = LegacyAccounts[j].name
    BY <2>3, <2>4
  <2>6. i = j
    BY <2>5, WalletAssumption
  <2> QED
    BY <2>3, <2>4, <2>6
<1>12. AllCurrent(sessions)
  BY <1>1, <1>10 DEF AllCurrent, PairsOf, LegacySessions
<1>13. SessionInv
  BY <1>1, <1>6, <1>7, <1>11, <1>12 DEF SessionInv, HoldsCurrent
<1> QED
  BY <1>1, <1>2, <1>4, <1>5, <1>8, <1>9, <1>13 DEF WalletInv, WalletTyped

LEMMA SaveInv ==
  ASSUME WalletInv, NEW p \in Processes, Save(p)
  PROVE  WalletInv'
<1> DEFINE me == process[p]
           next == IF me.command = "delete" THEN "sessions" ELSE "done"
<1>1. me.step = "save" /\ ProcTo(p, next) /\ UNCHANGED <<lockFile, sessions, signed, raced>>
  BY DEF Save, ProcAt
<1>2. /\ WalletTyped'
      /\ me.command # "delete" => PairsOf(wallet.accounts) \subseteq PairsOf(wallet'.accounts)
      /\ me.command = "delete" => Range(wallet'.accounts) = {a \in Range(wallet.accounts) : a.name # me.name}
  BY SaveWrites
<1>3. /\ DOMAIN process' = Processes /\ \A q \in Processes \ {p} : process'[q] = process[q]
      /\ DOMAIN process'[p] = DOMAIN WaitingProcess
      /\ process'[p].step = next /\ process'[p].command = me.command /\ process'[p].name = me.name
      /\ process'[p].new = me.new /\ process'[p].account = me.account
  <2> HIDE DEF next
  <2> QED
    BY <1>1, ProcMoves DEF WalletInv
<1>4. Mutates(me.command)
  BY <1>1 DEF WalletInv, ProcessInv
<1>5. \A q \in Processes : HalfDeleted(q) \/ process[q].step = "save" => q = p
  BY <1>1, <1>4, OneAtWork DEF WalletInv
<1>6. ProcessInv'
  BY <1>1, <1>3 DEF WalletInv, ProcessInv
<1>7. LockInv'
  <2>1. \A q \in Processes : process'[q].step # "save"
    BY <1>3, <1>5
  <2>2. \A q \in Working' : q \in Working /\ process'[q].command = process[q].command
    BY <1>1, <1>3 DEF Working
  <2>3. \A q \in Working' : Mutates(process'[q].command) => lockFile'
    BY <1>1, <2>2 DEF WalletInv, LockInv
  <2>4. \A q, r \in Working' : Mutates(process'[q].command) /\ Mutates(process'[r].command) => q = r
    BY <2>2 DEF WalletInv, LockInv
  <2> QED
    BY <2>1, <2>3, <2>4 DEF LockInv
<1>8. Current = PairsOf(wallet.accounts)
  <2>1. ~HalfDeleted(p)
    BY <1>1 DEF HalfDeleted
  <2> QED
    BY <1>5, <2>1 DEF Current
<1>9. Current \subseteq Current' /\ OneKeyEach'
  <2>1. CASE me.command = "delete"
    <3>1. Pending(p)' = <<me.name, me.account[1].key>>
      BY <1>3 DEF Pending
    <3>2. \A q \in Processes : HalfDeleted(q)' <=> q = p
      BY <1>3, <1>5, <2>1 DEF HalfDeleted
    <3>3. Current' = PairsOf(wallet'.accounts) \cup {Pending(p)'}
      BY <3>2 DEF Current
    <3>4. me.account[1] \in Range(wallet.accounts) /\ me.account[1].name = me.name
      BY <1>1, <2>1 DEF WalletInv, LockInv
    <3>5. Pending(p)' \in Current
      BY <1>8, <3>1, <3>4 DEF PairsOf
    <3>6. \A a \in Range(wallet.accounts) : a.name = me.name => <<a.name, a.key>> = Pending(p)'
      <4> SUFFICES ASSUME NEW a \in Range(wallet.accounts), a.name = me.name PROVE <<a.name, a.key>> = Pending(p)'
        OBVIOUS
      <4> DEFINE x == <<a.name, a.key>>
      <4>1. x \in Current
        BY <1>8 DEF PairsOf
      <4>2. x[1] = me.name /\ Pending(p)'[1] = me.name
        BY <3>1
      <4> HIDE DEF x
      <4>3. x = Pending(p)'
        BY <3>5, <4>1, <4>2 DEF WalletInv, SessionInv, OneKeyEach
      <4> QED
        BY <4>3 DEF x
    <3>7. Current' = Current
      BY <1>2, <1>8, <2>1, <3>3, <3>5, <3>6 DEF PairsOf
    <3> QED
      BY <3>7 DEF WalletInv, SessionInv, OneKeyEach
  <2>2. CASE me.command # "delete"
    <3>1. \A q \in Processes : ~HalfDeleted(q)'
      BY <1>3, <1>5, <2>2 DEF HalfDeleted
    <3>2. Current' = PairsOf(wallet'.accounts)
      BY <3>1 DEF Current
    <3>3. \A i, j \in DOMAIN wallet'.accounts : i # j => wallet'.accounts[i].name # wallet'.accounts[j].name
      BY <1>2 DEF WalletTyped, WellFormed
    <3>4. OneKeyEach'
      BY <3>2, <3>3 DEF OneKeyEach, PairsOf, Range
    <3> QED
      BY <1>2, <1>8, <2>2, <3>2, <3>4
  <2> QED
    BY <2>1, <2>2
<1>10. HoldsCurrent(p)'
  BY <1>3 DEF HoldsCurrent
<1>11. SessionInv'
  BY <1>1, <1>3, <1>9, <1>10, SessionsStay DEF WalletInv
<1> QED
  BY <1>2, <1>6, <1>7, <1>11 DEF WalletInv

LEMMA StartInv ==
  ASSUME WalletInv, NEW p \in Processes, Start(p)
  PROVE  WalletInv'
<1>1. process[p].step = "none" /\ UNCHANGED <<wallet, sessions, keys, kept, signed, raced>>
  BY DEF Start, ProcAt
<1>2. PICK command \in {"new", "batch", "delete", "rotate", "migrate", "unlock", "sign"},
           n \in AccountNames, old, new \in Phrases, t \in 0..tokens :
             /\ command \in {"new", "batch", "migrate"} => old = new /\ t = 0
             /\ command = "migrate" => n = Min(AccountNames)
             /\ command \in {"delete", "rotate", "unlock"} => t = 0
             /\ command \in {"delete", "unlock", "sign"} => old = new
             /\ LockFree(command)
             /\ lockFile' = (lockFile \/ Mutates(command))
             /\ process' = [process EXCEPT ![p] = [WaitingProcess EXCEPT !.step = "load", !.command = command, !.name = n,
                                                     !.old = old, !.new = new, !.token = t]]
  BY DEF Start
<1> DEFINE me == [WaitingProcess EXCEPT !.step = "load", !.command = command, !.name = n, !.old = old, !.new = new, !.token = t]
<1>a. DOMAIN me = DOMAIN WaitingProcess /\ me.step = "load" /\ me.command = command /\ me.name = n /\ me.new = new
  BY DEF WaitingProcess
<1>b. process' = [process EXCEPT ![p] = me]
  BY <1>2
<1> HIDE DEF me
<1>3. DOMAIN process' = Processes /\ process'[p] = me /\ \A q \in Processes \ {p} : process'[q] = process[q]
  BY <1>b DEF WalletInv, ProcessInv
<1>4. WalletTyped'
  BY <1>1 DEF WalletInv, WalletTyped
<1>5. ProcessInv'
  BY <1>a, <1>3 DEF WalletInv, ProcessInv
<1>6. LockInv'
  <2>1. \A q \in Working' : q = p \/ (q \in Working /\ process'[q] = process[q])
    BY <1>3 DEF Working
  <2>2. Mutates(command) => \A q \in Working : ~Mutates(process[q].command)
    BY <1>2 DEF WalletInv, LockInv, LockFree
  <2>3. \A q \in Working' : Mutates(process'[q].command) => lockFile'
    BY <1>2, <1>a, <1>3, <2>1 DEF WalletInv, LockInv
  <2>4. \A q, r \in Working' : Mutates(process'[q].command) /\ Mutates(process'[r].command) => q = r
    BY <1>2, <1>a, <1>3, <2>1, <2>2 DEF WalletInv, LockInv
  <2>5. \A q \in Processes : process'[q].step = "save" => process[q].step = "save" /\ process'[q] = process[q]
    BY <1>a, <1>3
  <2> QED
    BY <1>1, <2>3, <2>4, <2>5 DEF WalletInv, LockInv
<1>7. ~HalfDeleted(p) /\ ~HalfDeleted(p)'
  BY <1>1, <1>a, <1>3 DEF HalfDeleted
<1>8. Current' = Current
  BY <1>1, <1>3, <1>7, CurrentStays
<1>9. OneKeyEach'
  BY <1>8 DEF WalletInv, SessionInv, OneKeyEach
<1>10. HoldsCurrent(p)'
  BY <1>a, <1>3 DEF HoldsCurrent
<1>11. SessionInv'
  BY <1>1, <1>3, <1>8, <1>9, <1>10, SessionsStay DEF WalletInv
<1> QED
  BY <1>4, <1>5, <1>6, <1>11 DEF WalletInv

\* The accounts of the name that was read are in the wallet, and none of them is if there are none.
LEMMA LoadInv ==
  ASSUME WalletInv, NEW p \in Processes, Load(p)
  PROVE  WalletInv'
<1> DEFINE me == process[p]
           mine == Named(wallet.accounts, me.name)
           next == AfterLoad(me)
<1>1. /\ me.step = "load" /\ UNCHANGED <<wallet, lockFile, sessions, keys, kept, signed, raced>>
      /\ me.command = "new" => mine = << >>
      /\ me.command \in {"delete", "rotate", "unlock", "sign"} => mine # << >>
      /\ process' = [process EXCEPT ![p].step = next, ![p].loaded = <<wallet>>, ![p].account = mine]
  BY DEF Load, ProcAt, files, history
<1>2. /\ mine = << >> => me.name \notin NamesOf(wallet.accounts)
      /\ mine # << >> => mine[1] \in Range(wallet.accounts) /\ mine[1].name = me.name
  <2>1. wallet.accounts \in Seq(AccountSet)
    BY DEF WalletInv, WalletTyped, WellFormed
  <2> QED
    BY <2>1, NamedAccount
<1> HIDE DEF mine, next
<1>3. /\ DOMAIN process' = Processes /\ \A q \in Processes \ {p} : process'[q] = process[q]
      /\ DOMAIN process'[p] = DOMAIN WaitingProcess
      /\ process'[p].step = next /\ process'[p].loaded = <<wallet>> /\ process'[p].account = mine
      /\ process'[p].command = me.command /\ process'[p].name = me.name
      /\ process'[p].new = me.new /\ process'[p].token = me.token
  <2>1. DOMAIN process = Processes /\ DOMAIN me = DOMAIN WaitingProcess
    BY DEF WalletInv, ProcessInv
  <2> DEFINE now == [me EXCEPT !.step = next, !.loaded = <<wallet>>, !.account = mine]
  <2>2. process'[p] = now
    BY <1>1, <2>1
  <2>3. DOMAIN process' = Processes /\ \A q \in Processes \ {p} : process'[q] = process[q]
    BY <1>1, <2>1
  <2> QED
    BY <2>1, <2>2, <2>3 DEF WaitingProcess
<1>4. /\ me.name \in AccountNames /\ me.new \in Phrases
      /\ me.command \in {"new", "batch", "delete", "rotate", "migrate", "unlock", "sign"}
  BY <1>1 DEF WalletInv, ProcessInv
<1>5. /\ next = "save" <=> Mutates(me.command)
      /\ next = "sign" => me.command = "sign" /\ me.token = 0
      /\ next = "sessions" => me.command \in {"unlock", "sign"}
      /\ next \in {"save", "sign", "sessions"}
  BY <1>4 DEF next, AfterLoad, Mutates
<1> HIDE DEF me
<1>6. WalletTyped'
  BY <1>1 DEF WalletInv, WalletTyped
<1>7. ProcessInv'
  BY <1>3, <1>4, <1>5 DEF WalletInv, ProcessInv
<1>8. LockInv'
  <2>1. \A q \in Working' : q \in Working /\ process'[q].command = process[q].command
    BY <1>1, <1>3 DEF Working, me
  <2>2. \A q \in Working' : Mutates(process'[q].command) => lockFile'
    BY <1>1, <2>1 DEF WalletInv, LockInv
  <2>3. \A q, r \in Working' : Mutates(process'[q].command) /\ Mutates(process'[r].command) => q = r
    BY <2>1 DEF WalletInv, LockInv
  <2>4. process'[p].step = "save" =>
             /\ process'[p].loaded = <<wallet'>>
             /\ process'[p].command = "new" => process'[p].name \notin NamesOf(wallet'.accounts)
             /\ process'[p].command = "delete" =>
                  /\ process'[p].account # << >> /\ process'[p].account[1] \in Range(wallet'.accounts)
                  /\ process'[p].account[1].name = process'[p].name
    BY <1>1, <1>2, <1>3
  <2>5. \A q \in Processes \ {p} : process'[q] = process[q] /\ wallet' = wallet
    BY <1>1, <1>3
  <2> QED
    BY <2>2, <2>3, <2>4, <2>5 DEF WalletInv, LockInv
<1>9. ~HalfDeleted(p) /\ ~HalfDeleted(p)'
  BY <1>1, <1>3, <1>5 DEF HalfDeleted, me
<1>10. Current' = Current
  BY <1>1, <1>3, <1>9, CurrentStays
<1>11. OneKeyEach'
  BY <1>10 DEF WalletInv, SessionInv, OneKeyEach
<1>12. HoldsCurrent(p)'
  <2>1. me.command \in {"unlock", "sign"} => mine[1].name = me.name /\ <<me.name, mine[1].key>> \in PairsOf(wallet.accounts)
    BY <1>1, <1>2 DEF PairsOf
  <2>2. PairsOf(wallet.accounts) \subseteq Current'
    BY <1>10 DEF Current
  <2> QED
    BY <1>3, <1>5, <2>1, <2>2 DEF HoldsCurrent, Pending, Mutates
<1>13. SessionInv'
  BY <1>1, <1>3, <1>10, <1>11, <1>12, SessionsStay DEF WalletInv
<1> QED
  BY <1>6, <1>7, <1>8, <1>13 DEF WalletInv

\* A command that ends, or is killed; a delete that ends between its two files is told by raced.
LEMMA EndsInv ==
  ASSUME WalletInv, NEW p \in Processes, process[p].step # "none", process' = [process EXCEPT ![p] = WaitingProcess],
         lockFile' = lockFile \/ lockFile' = (lockFile /\ ~Mutates(process[p].command)),
         UNCHANGED <<wallet, sessions, keys, kept, signed>>, raced' <=> (raced \/ HalfDeleted(p))
  PROVE  WalletInv'
<1>1. DOMAIN process' = Processes /\ process'[p] = WaitingProcess /\ \A q \in Processes \ {p} : process'[q] = process[q]
  BY DEF WalletInv, ProcessInv
<1>2. WaitingProcess.step = "none" /\ WaitingProcess.command = "none"
  BY DEF WaitingProcess
<1>3. WalletTyped'
  BY DEF WalletInv, WalletTyped
<1>4. ProcessInv'
  BY <1>1, <1>2 DEF WalletInv, ProcessInv
<1>5. LockInv'
  <2>1. \A q \in Working' : q \in Working /\ q # p /\ process'[q] = process[q]
    BY <1>1, <1>2 DEF Working
  <2>2. p \in Working
    BY DEF Working
  <2>3. ASSUME NEW q \in Working', Mutates(process'[q].command) PROVE lockFile'
    <3>1. lockFile /\ ~Mutates(process[p].command)
      BY <2>1, <2>2, <2>3 DEF WalletInv, LockInv
    <3> QED
      BY <3>1
  <2>4. \A q, r \in Working' : Mutates(process'[q].command) /\ Mutates(process'[r].command) => q = r
    BY <2>1 DEF WalletInv, LockInv
  <2>5. \A q \in Processes : process'[q].step = "save" => process'[q] = process[q] /\ wallet' = wallet
    BY <1>1, <1>2
  <2> QED
    BY <2>3, <2>4, <2>5 DEF WalletInv, LockInv
<1>6. ~HalfDeleted(p)'
  BY <1>1, <1>2 DEF HalfDeleted
<1>7. \A q \in Processes : HalfDeleted(q)' => HalfDeleted(q) /\ Pending(q)' = Pending(q)
  BY <1>1, <1>6 DEF HalfDeleted, Pending
<1>8. Current' \subseteq Current
  <2>1. \A q \in Processes : HalfDeleted(q)' => Pending(q)' \in Current
    BY <1>7 DEF Current
  <2>2. PairsOf(wallet'.accounts) \subseteq Current
    BY DEF Current
  <2> QED
    BY <2>1, <2>2 DEF Current
<1>9. OneKeyEach'
  BY <1>8 DEF WalletInv, SessionInv, OneKeyEach
<1>10. CASE HalfDeleted(p)
  <2>1. SessionInv'
    BY <1>9, <1>10 DEF SessionInv
  <2> QED
    BY <1>3, <1>4, <1>5, <2>1 DEF WalletInv
<1>11. CASE ~HalfDeleted(p)
  <2>1. Current' = Current
    BY <1>1, <1>6, <1>11, CurrentStays
  <2>2. HoldsCurrent(p)'
    BY <1>1, <1>2 DEF HoldsCurrent
  <2>3. SessionInv'
    BY <1>1, <1>9, <1>11, <2>1, <2>2, SessionsStay DEF WalletInv
  <2> QED
    BY <1>3, <1>4, <1>5, <2>3 DEF WalletInv
<1> QED
  BY <1>10, <1>11

\* A step past the save leaves the lock to who holds it.
LEMMA LockStays ==
  ASSUME LockInv, NEW p \in Processes, UNCHANGED <<wallet, lockFile>>, process[p].step # "none",
         \A q \in Processes \ {p} : process'[q] = process[q],
         process'[p].command = process[p].command, process'[p].step # "save"
  PROVE  LockInv'
<1>1. \A q \in Working' : q \in Working /\ process'[q].command = process[q].command
  BY DEF Working
<1>2. \A q \in Working' : Mutates(process'[q].command) => lockFile'
  BY <1>1 DEF LockInv
<1>3. \A q, r \in Working' : Mutates(process'[q].command) /\ Mutates(process'[r].command) => q = r
  BY <1>1 DEF LockInv
<1>4. \A q \in Processes : process'[q].step = "save" => process[q].step = "save" /\ process'[q] = process[q]
  OBVIOUS
<1> QED
  BY <1>2, <1>3, <1>4 DEF LockInv

LEMMA LoadSessionsInv ==
  ASSUME WalletInv, NEW p \in Processes, LoadSessions(p)
  PROVE  WalletInv'
<1> DEFINE me == process[p]
           next == CASE me.command = "delete" -> "forget" [] me.command = "unlock" -> "keep" [] OTHER -> "sign"
           open == {s \in sessions : s.token \notin expired}
<1>1. /\ me.step = "sessions" /\ UNCHANGED <<wallet, lockFile, sessions, keys, kept, signed, raced>>
      /\ process' = [process EXCEPT ![p].loaded = <<open>>, ![p].step = next]
  BY DEF LoadSessions, ProcAt, files, history
<1>2. open \subseteq sessions
  OBVIOUS
<1>3. me.command \in {"delete", "unlock", "sign"} /\ me.name \in AccountNames /\ me.new \in Phrases
  BY <1>1 DEF WalletInv, ProcessInv
<1>4. next = (IF me.command = "delete" THEN "forget" ELSE IF me.command = "unlock" THEN "keep" ELSE "sign")
  BY <1>3
<1> HIDE DEF open, next
<1>5. /\ DOMAIN process' = Processes /\ \A q \in Processes \ {p} : process'[q] = process[q]
      /\ DOMAIN process'[p] = DOMAIN WaitingProcess
      /\ process'[p].step = next /\ process'[p].loaded = <<open>> /\ process'[p].account = me.account
      /\ process'[p].command = me.command /\ process'[p].name = me.name
      /\ process'[p].new = me.new /\ process'[p].token = me.token
  <2>1. DOMAIN process = Processes /\ DOMAIN me = DOMAIN WaitingProcess
    BY DEF WalletInv, ProcessInv
  <2> DEFINE now == [me EXCEPT !.loaded = <<open>>, !.step = next]
  <2>2. process'[p] = now
    BY <1>1, <2>1
  <2>3. DOMAIN process' = Processes /\ \A q \in Processes \ {p} : process'[q] = process[q]
    BY <1>1, <2>1
  <2> QED
    BY <2>1, <2>2, <2>3 DEF WaitingProcess
<1>6. WalletTyped'
  BY <1>1 DEF WalletInv, WalletTyped
<1>7. ProcessInv'
  BY <1>3, <1>4, <1>5 DEF WalletInv, ProcessInv
<1>8. LockInv'
  BY <1>1, <1>4, <1>5, LockStays DEF WalletInv
<1>9. (HalfDeleted(p)' <=> HalfDeleted(p)) /\ Pending(p)' = Pending(p)
  BY <1>1, <1>4, <1>5 DEF HalfDeleted, Pending
<1>10. Current' = Current
  BY <1>1, <1>5, <1>9, CurrentStays
<1>11. OneKeyEach'
  BY <1>10 DEF WalletInv, SessionInv, OneKeyEach
<1>12. ASSUME ~raced PROVE HoldsCurrent(p)'
  <2>1. AllCurrent(sessions) /\ HoldsCurrent(p)
    BY <1>12 DEF WalletInv, SessionInv
  <2>2. \A s \in open : <<s.name, s.key>> \in Current'
    BY <1>2, <1>10, <2>1 DEF AllCurrent
  <2>3. process'[p].loaded[1] = open
    BY <1>5
  <2>4. AllCurrent(process[p].loaded[1])'
    BY <2>2, <2>3 DEF AllCurrent
  <2>5. me.command # "delete" => me.account[1].name = me.name /\ Pending(p) \in Current
    BY <1>1, <2>1 DEF HoldsCurrent
  <2> QED
    BY <1>5, <1>9, <1>10, <2>4, <2>5 DEF HoldsCurrent
<1>13. SessionInv'
  BY <1>1, <1>5, <1>10, <1>11, <1>12, SessionsStay DEF WalletInv
<1> QED
  BY <1>6, <1>7, <1>8, <1>13 DEF WalletInv

\* With no other session command at work, what is forgotten here nobody writes back.
LEMMA ForgetInv ==
  ASSUME WalletInv, NEW p \in Processes, ForgetSessions(p)
  PROVE  WalletInv'
<1> DEFINE me == process[p]
<1>1. /\ me.step = "forget" /\ UNCHANGED <<wallet, lockFile, keys, kept, signed>>
      /\ sessions' = SessionsLeft(me.loaded[1], me.name)
      /\ raced' = (raced \/ OthersIn(p)) /\ ProcTo(p, "done")
  BY DEF ForgetSessions, ProcAt
<1>2. /\ DOMAIN process' = Processes /\ \A q \in Processes \ {p} : process'[q] = process[q]
      /\ DOMAIN process'[p] = DOMAIN WaitingProcess
      /\ process'[p].step = "done" /\ process'[p].command = me.command /\ process'[p].name = me.name
      /\ process'[p].new = me.new
  BY <1>1, ProcMoves DEF WalletInv
<1>3. me.command = "delete" /\ Mutates(me.command)
  BY <1>1 DEF WalletInv, ProcessInv, Mutates
<1>4. WalletTyped'
  BY <1>1 DEF WalletInv, WalletTyped
<1>5. ProcessInv'
  BY <1>1, <1>2 DEF WalletInv, ProcessInv
<1>6. LockInv'
  BY <1>1, <1>2, LockStays DEF WalletInv
<1>7. \A q \in Processes : HalfDeleted(q) <=> q = p
  <2>1. HalfDeleted(p)
    BY <1>1, <1>3 DEF HalfDeleted
  <2> QED
    BY <1>1, <1>3, <2>1, OneAtWork DEF WalletInv
<1>8. \A q \in Processes : ~HalfDeleted(q)'
  BY <1>2, <1>7 DEF HalfDeleted
<1>9. Current = PairsOf(wallet.accounts) \cup {Pending(p)} /\ Current' = PairsOf(wallet.accounts)
  <2>1. Current = PairsOf(wallet.accounts) \cup {Pending(p)}
    BY <1>7 DEF Current
  <2>2. Current' = PairsOf(wallet.accounts)
    BY <1>1, <1>8 DEF Current
  <2> QED
    BY <2>1, <2>2
<1>10. OneKeyEach'
  BY <1>9 DEF WalletInv, SessionInv, OneKeyEach
<1>11. ASSUME ~raced' PROVE AllCurrent(sessions)' /\ (\A s \in signed : s.used = s.own)' /\ (\A q \in Processes : HoldsCurrent(q))'
  <2>1. ~raced /\ \A q \in Working \ {p} : process[q].command \notin {"unlock", "sign"}
    BY <1>1, <1>11 DEF OthersIn
  <2>2. HoldsCurrent(p) /\ \A s \in signed : s.used = s.own
    BY <2>1 DEF WalletInv, SessionInv
  <2>3. \A s \in me.loaded[1] : <<s.name, s.key>> \in Current
    BY <1>1, <2>2 DEF HoldsCurrent, AllCurrent
  <2>4. ASSUME NEW s \in sessions' PROVE <<s.name, s.key>> \in Current'
    <3>1. s \in me.loaded[1] /\ s.name # me.name
      BY <1>1, <2>4 DEF SessionsLeft
    <3>2. <<s.name, s.key>> # Pending(p)
      BY <3>1 DEF Pending
    <3> QED
      BY <1>9, <2>3, <3>1, <3>2
  <2>5. ASSUME NEW q \in Processes \ {p} PROVE HoldsCurrent(q)'
    <3>1. process'[q] = process[q] /\ process[q].step # "forget"
      BY <1>2, <1>7 DEF WalletInv, ProcessInv, HalfDeleted
    <3>2. process[q].step \in {"sessions", "keep", "sign"} => process[q].command \in {"delete", "unlock", "sign"} /\ q \in Working
      BY DEF WalletInv, ProcessInv, Working
    <3>3. ~HalfDeleted(q)
      BY <1>7
    <3>4. process[q].step \notin {"keep", "sign"}
      BY <2>1, <3>2 DEF WalletInv, ProcessInv
    <3>5. process[q].step = "sessions" => process[q].command = "delete"
      BY <2>1, <3>2
    <3> QED
      BY <3>1, <3>4, <3>5 DEF HoldsCurrent
  <2>6. HoldsCurrent(p)'
    BY <1>2 DEF HoldsCurrent
  <2> QED
    BY <1>1, <2>2, <2>4, <2>5, <2>6 DEF AllCurrent
<1>12. SessionInv'
  BY <1>10, <1>11 DEF SessionInv
<1> QED
  BY <1>4, <1>5, <1>6, <1>12 DEF WalletInv

\* A command that ends its work on the session file, with sessions and signatures that are right.
LEMMA SessionDone ==
  ASSUME WalletInv, NEW p \in Processes, UNCHANGED <<wallet, lockFile, keys, kept, raced>>, ProcTo(p, "done"),
         process[p].step # "none", process[p].command \in {"unlock", "sign"},
         ~raced => (\A s \in sessions' : <<s.name, s.key>> \in Current) /\ \A s \in signed' : s.used = s.own
  PROVE  WalletInv'
<1> DEFINE me == process[p]
<1>1. /\ DOMAIN process' = Processes /\ \A q \in Processes \ {p} : process'[q] = process[q]
      /\ DOMAIN process'[p] = DOMAIN WaitingProcess
      /\ process'[p].step = "done" /\ process'[p].command = me.command /\ process'[p].name = me.name
      /\ process'[p].new = me.new
  BY ProcMoves DEF WalletInv
<1>2. WalletTyped'
  BY DEF WalletInv, WalletTyped
<1>3. ProcessInv'
  BY <1>1 DEF WalletInv, ProcessInv
<1>4. LockInv'
  BY <1>1, LockStays DEF WalletInv
<1>5. ~HalfDeleted(p) /\ ~HalfDeleted(p)'
  BY <1>1 DEF HalfDeleted
<1>6. Current' = Current
  BY <1>1, <1>5, CurrentStays
<1>7. OneKeyEach'
  BY <1>6 DEF WalletInv, SessionInv, OneKeyEach
<1>8. ASSUME ~raced' PROVE AllCurrent(sessions)' /\ (\A s \in signed : s.used = s.own)' /\ (\A q \in Processes : HoldsCurrent(q))'
  <2>1. ~raced
    BY <1>8
  <2>2. ASSUME NEW q \in Processes \ {p} PROVE HoldsCurrent(q)'
    <3>1. HoldsCurrent(q) /\ process'[q] = process[q]
      BY <1>1, <2>1 DEF WalletInv, SessionInv
    <3> QED
      BY <1>6, <3>1 DEF HoldsCurrent, AllCurrent, Pending
  <2>3. HoldsCurrent(p)'
    BY <1>1 DEF HoldsCurrent
  <2> QED
    BY <1>6, <2>1, <2>2, <2>3 DEF AllCurrent
<1>9. SessionInv'
  BY <1>7, <1>8 DEF SessionInv
<1> QED
  BY <1>2, <1>3, <1>4, <1>9 DEF WalletInv

LEMMA KeepSessionInv ==
  ASSUME WalletInv, NEW p \in Processes, KeepSession(p)
  PROVE  WalletInv'
<1> DEFINE me == process[p]
<1>1. /\ me.step = "keep" /\ UNCHANGED <<wallet, lockFile, keys, kept, signed, raced>> /\ ProcTo(p, "done")
      /\ sessions' = WithSession(me.loaded[1], me.account[1], tokens + 1)
  BY DEF KeepSession, ProcAt
<1>2. me.command \in {"unlock", "sign"}
  BY <1>1 DEF WalletInv, ProcessInv
<1>3. ASSUME ~raced PROVE (\A s \in sessions' : <<s.name, s.key>> \in Current) /\ \A s \in signed' : s.used = s.own
  <2>1. HoldsCurrent(p) /\ \A s \in signed : s.used = s.own
    BY <1>3 DEF WalletInv, SessionInv
  <2>2. /\ \A s \in me.loaded[1] : <<s.name, s.key>> \in Current
        /\ me.account[1].name = me.name /\ <<me.name, me.account[1].key>> \in Current
    BY <1>1, <1>2, <2>1 DEF HoldsCurrent, AllCurrent, Pending
  <2>3. sessions' \subseteq me.loaded[1] \cup {[name |-> me.name, key |-> me.account[1].key, token |-> tokens + 1]}
    BY <1>1, <2>2 DEF WithSession
  <2> HIDE DEF me
  <2> QED
    BY <1>1, <2>1, <2>2, <2>3
<1> QED
  BY <1>1, <1>2, <1>3, SessionDone

\* The session a token opens and the account that was read are of one name, and a name has one key.
LEMMA SignInv ==
  ASSUME WalletInv, NEW p \in Processes, Sign(p)
  PROVE  WalletInv'
<1> DEFINE me == process[p]
           mine == me.account[1].key
<1>1. /\ me.step = "sign" /\ UNCHANGED <<wallet, lockFile, keys, kept, raced>> /\ ProcTo(p, "done")
      /\ OpenedBy(me) # {} => /\ signed' = signed \cup {[used |-> s.key, own |-> mine] : s \in OpenedBy(me)}
                              /\ sessions' = me.loaded[1]
      /\ OpenedBy(me) = {} => /\ signed' = signed \cup {[used |-> mine, own |-> mine]}
                              /\ sessions' = sessions
  BY DEF Sign, ProcAt
<1>2. me.command \in {"unlock", "sign"}
  BY <1>1 DEF WalletInv, ProcessInv
<1>3. ASSUME ~raced PROVE (\A s \in sessions' : <<s.name, s.key>> \in Current) /\ \A s \in signed' : s.used = s.own
  <2>1. HoldsCurrent(p) /\ AllCurrent(sessions) /\ (\A s \in signed : s.used = s.own) /\ OneKeyEach
    BY <1>3 DEF WalletInv, SessionInv
  <2>2. <<me.name, mine>> \in Current
    BY <1>1, <1>2, <2>1 DEF HoldsCurrent, Pending
  <2>3. CASE OpenedBy(me) # {}
    <3>1. me.token # 0
      BY <2>3 DEF OpenedBy
    <3>2. \A s \in me.loaded[1] : <<s.name, s.key>> \in Current
      BY <1>1, <2>1, <3>1 DEF HoldsCurrent, AllCurrent
    <3>3. ASSUME NEW s \in OpenedBy(me) PROVE s.key = mine
      <4>1. s \in me.loaded[1] /\ s.name = me.name
        BY <3>1, <3>3 DEF OpenedBy
      <4>2. <<s.name, s.key>> = <<me.name, mine>>
        <5> DEFINE x == <<s.name, s.key>>
                   y == <<me.name, mine>>
        <5>1. x \in Current /\ y \in Current /\ x[1] = y[1]
          BY <2>2, <3>2, <4>1
        <5> HIDE DEF x, y
        <5>2. x = y
          BY <2>1, <5>1 DEF OneKeyEach
        <5> QED
          BY <5>2 DEF x, y
      <4> QED
        BY <4>2
    <3>4. \A s \in {[used |-> s.key, own |-> mine] : s \in OpenedBy(me)} : s.used = s.own
      BY <3>3
    <3> QED
      BY <1>1, <2>1, <2>3, <3>2, <3>4
  <2>4. CASE OpenedBy(me) = {}
    BY <1>1, <2>1, <2>4 DEF AllCurrent
  <2> QED
    BY <2>3, <2>4
<1> QED
  BY <1>1, <1>2, <1>3, SessionDone

\* Nothing of this is about the time of a session, or a lock nobody holds.
LEMMA AsideInv ==
  ASSUME WalletInv, UNCHANGED <<wallet, sessions, process, keys, kept, signed, raced>>, Working = {} \/ UNCHANGED lockFile
  PROVE  WalletInv'
<1>1. WalletTyped' /\ ProcessInv' /\ LockInv'
  <2>1. WalletTyped'
    BY DEF WalletInv, WalletTyped
  <2>2. ProcessInv'
    BY DEF WalletInv, ProcessInv
  <2>3. LockInv'
    BY DEF WalletInv, LockInv, Working
  <2> QED
    BY <2>1, <2>2, <2>3
<1>2. Current' = Current
  BY DEF Current, HalfDeleted, Pending
<1>3. SessionInv'
  BY <1>2 DEF WalletInv, SessionInv, OneKeyEach, HoldsCurrent, AllCurrent, Pending
<1> QED
  BY <1>1, <1>3 DEF WalletInv

LEMMA WalletStep == WalletInv /\ [WalletNext]_walletVars => WalletInv'
<1> SUFFICES ASSUME WalletInv, [WalletNext]_walletVars PROVE WalletInv'
  OBVIOUS
<1>1. ASSUME NEW p \in Processes, Start(p) PROVE WalletInv'
  BY <1>1, StartInv
<1>2. ASSUME NEW p \in Processes, Load(p) PROVE WalletInv'
  BY <1>2, LoadInv
<1>3. ASSUME NEW p \in Processes, Save(p) PROVE WalletInv'
  BY <1>3, SaveInv
<1>4. ASSUME NEW p \in Processes, Fail(p) PROVE WalletInv'
  <2>1. /\ process[p].step # "none" /\ process' = [process EXCEPT ![p] = WaitingProcess]
        /\ lockFile' = (lockFile /\ ~Mutates(process[p].command)) /\ raced' = (raced \/ HalfDeleted(p))
        /\ UNCHANGED <<wallet, sessions, keys, kept, signed>>
    BY <1>4 DEF Fail, EndCommand, ProcAt
  <2> QED
    BY <2>1, EndsInv
<1>5. ASSUME NEW p \in Processes, Done(p) PROVE WalletInv'
  <2>1. /\ process[p].step = "done" /\ process' = [process EXCEPT ![p] = WaitingProcess]
        /\ lockFile' = (lockFile /\ ~Mutates(process[p].command)) /\ UNCHANGED <<wallet, sessions, keys, kept, signed, raced>>
    BY <1>5 DEF Done, EndCommand, ProcAt, history
  <2>2. ~HalfDeleted(p)
    BY <2>1 DEF HalfDeleted
  <2> QED
    BY <2>1, <2>2, EndsInv
<1>6. ASSUME NEW p \in Processes, KillCommand(p) PROVE WalletInv'
  <2>1. /\ process[p].step # "none" /\ process' = [process EXCEPT ![p] = WaitingProcess]
        /\ raced' = (raced \/ HalfDeleted(p)) /\ UNCHANGED <<wallet, lockFile, sessions, keys, kept, signed>>
    BY <1>6 DEF KillCommand, ProcAt, files
  <2> QED
    BY <2>1, EndsInv
<1>7. ASSUME NEW p \in Processes, LoadSessions(p) PROVE WalletInv'
  BY <1>7, LoadSessionsInv
<1>8. ASSUME NEW p \in Processes, ForgetSessions(p) PROVE WalletInv'
  BY <1>8, ForgetInv
<1>9. ASSUME NEW p \in Processes, KeepSession(p) PROVE WalletInv'
  BY <1>9, KeepSessionInv
<1>10. ASSUME NEW p \in Processes, Sign(p) PROVE WalletInv'
  BY <1>10, SignInv
<1>11. ASSUME Expire PROVE WalletInv'
  <2>1. UNCHANGED <<wallet, lockFile, sessions, process, keys, kept, signed, raced>>
    BY <1>11 DEF Expire, files
  <2> QED
    BY <2>1, AsideInv
<1>12. ASSUME RemoveLock PROVE WalletInv'
  <2>1. Working = {} /\ UNCHANGED <<wallet, sessions, process, keys, kept, signed, raced>>
    BY <1>12 DEF RemoveLock, history
  <2> QED
    BY <2>1, AsideInv
<1>13. ASSUME UNCHANGED walletVars PROVE WalletInv'
  <2>1. UNCHANGED <<wallet, lockFile, sessions, process, keys, kept, signed, raced>>
    BY <1>13 DEF walletVars
  <2> QED
    BY <2>1, AsideInv
<1> QED
  BY <1>1, <1>2, <1>3, <1>4, <1>5, <1>6, <1>7, <1>8, <1>9, <1>10, <1>11, <1>12, <1>13, Zenon DEF WalletNext

LEMMA WalletAlways == WalletSpec => []WalletInv
<1>1. WalletInit => WalletInv
  BY StartWallet
<1>2. WalletInv /\ [WalletNext]_walletVars => WalletInv'
  BY WalletStep
<1> QED
  BY <1>1, <1>2, PTL DEF WalletSpec

(* Whatever commands run at once, fail or are killed, the wallet file holds *)
(* every key made and not deleted, under the passphrase last given to it.   *)
THEOREM WalletKeepsKeys == WalletSpec => []KeysKept
<1>1. WalletInv => KeysKept
  BY DEF WalletInv, WalletTyped, WellFormed, KeysKept
<1> QED
  BY <1>1, WalletAlways, PTL

(* A signature is by the key of the account it is asked of, unless a delete *)
(* ran beside a command that rewrites the session file, or ended before it  *)
(* had removed the sessions of the name.                                    *)
THEOREM SignaturesAreOwn == WalletSpec => []SignsWithOwnKey
<1>1. WalletInv => SignsWithOwnKey
  BY DEF WalletInv, SessionInv, SignsWithOwnKey
<1> QED
  BY <1>1, WalletAlways, PTL
-----------------------------------------------------------------------------
(* HeaderChain: PassedIsStored *)

Partial == [quotient : Nat, rest : Nat]

\* What is divided so far is not more than the digits read so far.
NotAbove(d) == {p \in Partial \X Nat : p[1].quotient * d + p[1].rest <= p[2]}

LEMMA MoreOfBoth ==
  ASSUME NEW a \in Nat, NEW b \in Nat, NEW c \in Nat, a <= b
  PROVE  a * c <= b * c
  OBVIOUS

\* One digit of the division.
LEMMA DigitDivided ==
  ASSUME NEW d \in Nat \ {0}, NEW acc \in Partial, NEW o \in Nat, <<acc, o>> \in NotAbove(d)
  PROVE  DivideDigit(d, acc) \in Partial /\ <<DivideDigit(d, acc), o * Radix + (Radix - 1)>> \in NotAbove(d)
<1> DEFINE q == acc.quotient
           r == acc.rest
           value == r * Radix + (Radix - 1)
           digit == Min({value \div d, Radix - 1})
<1>1. q \in Nat /\ r \in Nat /\ Radix \in Nat /\ Radix - 1 \in Nat /\ q * d + r <= o
  BY RulesAssumption DEF Partial, NotAbove
<1>2. r * Radix \in Nat /\ value \in Nat
  BY <1>1
<1>3. DivideDigit(d, acc) = [quotient |-> q * Radix + digit, rest |-> value % d]
  BY DEF DivideDigit
<1> HIDE DEF q, r
<1>4. value \div d \in Nat /\ value % d \in Nat /\ value = ((value \div d) * d) + (value % d)
  <2> HIDE DEF value
  <2>1. value \div d \in Nat
    BY <1>2
  <2>2. value % d \in Nat
    BY <1>2
  <2>3. value = (d * (value \div d)) + (value % d)
    BY <1>2
  <2>4. d * (value \div d) = (value \div d) * d
    BY <2>1
  <2> QED
    BY <2>1, <2>2, <2>3, <2>4
<1> HIDE DEF value
<1>5. digit \in Nat /\ digit <= value \div d
  <2>1. Min({value \div d, Radix - 1}) \in {value \div d, Radix - 1} /\ Min({value \div d, Radix - 1}) <= value \div d
    BY <1>1, <1>4, LeastOf
  <2> QED
    BY <1>1, <1>4, <2>1
<1> HIDE DEF digit
<1>6. digit * d <= (value \div d) * d
  BY <1>4, <1>5, MoreOfBoth
<1>7. (q * Radix + digit) * d = (q * d) * Radix + digit * d
  BY <1>1, <1>5
<1>8. (q * d + r) * Radix = (q * d) * Radix + r * Radix
  BY <1>1
<1>9. (q * d + r) * Radix <= o * Radix
  <2>1. q * d + r \in Nat
    BY <1>1
  <2> QED
    BY <1>1, <2>1, MoreOfBoth
<1>10. ((q * Radix + digit) * d) + (value % d) <= o * Radix + (Radix - 1)
  <2>1. digit * d \in Nat /\ (value \div d) * d \in Nat
    BY <1>4, <1>5
  <2>3. q * d \in Nat /\ r * Radix \in Nat /\ o * Radix \in Nat
    BY <1>1
  <2>4. (q * d) * Radix \in Nat
    BY <1>1, <2>3
  <2>2. value = r * Radix + (Radix - 1)
    BY DEF value
  <2> QED
    BY <1>1, <1>4, <1>6, <1>7, <1>8, <1>9, <2>1, <2>2, <2>3, <2>4
<1>11. q * Radix + digit \in Nat /\ o * Radix + (Radix - 1) \in Nat
  BY <1>1, <1>5
<1> QED
  BY <1>3, <1>4, <1>10, <1>11 DEF Partial, NotAbove

\* The target of a difficulty, as often as the difficulty says, is not above the largest digest.
LEMMA TargetIsQuotient ==
  ASSUME NEW d \in Nat \ {0}, d <= DivisorLimit
  PROVE  PowTarget(d) \in Nat /\ MaxTarget \in Nat /\ PowTarget(d) * d <= MaxTarget
<1> DEFINE n == DigestDigits
           D == DOMAIN Digits
           start == [quotient |-> 0, rest |-> 0]
           Divided(f, s) == IF s = {} THEN start ELSE DivideDigit(d, f[s \ {Max(s)}])
           Ones(f, s) == IF s = {} THEN 0 ELSE f[s \ {Max(s)}] * Radix + (Radix - 1)
           divided == CHOOSE f : f = [s \in SUBSET D |-> Divided(f, s)]
           ones == CHOOSE f : f = [s \in SUBSET D |-> Ones(f, s)]
           both == [s \in SUBSET D |-> <<divided[s], ones[s]>>]
           pick == [s \in SUBSET D |-> Max(s)]
<1>1. n \in Nat /\ Radix \in Nat /\ Radix - 1 \in Nat /\ IsFiniteSet(D) /\ D = 1..n
  BY RulesAssumption, FS_Interval DEF Digits
<1>2. PowTarget(d) = divided[D].quotient /\ MaxTarget = ones[D]
  <2>1. d # 0 /\ ~(d > DivisorLimit)
    BY RulesAssumption
  <2>2. PowTarget(d) = divided[D].quotient
    BY <2>1 DEF PowTarget, FoldLeft, MapThenFoldSet
  <2>3. MaxTarget = ones[D]
    BY DEF MaxTarget, FoldLeft, MapThenFoldSet
  <2> QED
    BY <2>1, <2>2, <2>3
<1>3. Picks(pick, D) /\ \A s \in SUBSET D : s # {} => Max(s) \in s
  BY <1>1, GreatestOf DEF Picks
<1>4. start \in Partial /\ <<start, 0>> \in NotAbove(d)
  BY DEF Partial, NotAbove
<1>5. \A acc \in Partial : DivideDigit(d, acc) \in Partial
  <2> SUFFICES ASSUME NEW acc \in Partial PROVE DivideDigit(d, acc) \in Partial
    OBVIOUS
  <2>1. acc.quotient * d + acc.rest \in Nat
    BY DEF Partial
  <2>2. <<acc, acc.quotient * d + acc.rest>> \in NotAbove(d)
    BY <2>1 DEF NotAbove
  <2> QED
    BY <2>1, <2>2, DigitDivided
<1> HIDE DEF n, D, start
<1>6. divided = [s \in SUBSET D |-> Divided(divided, s)]
  <2> DEFINE step == [p \in D \X Partial |-> DivideDigit(d, p[2])]
  <2>1. Adds(step, D, Partial)
    BY <1>5 DEF Adds
  <2>2. PICK f \in [SUBSET D -> Partial] : FoldsBy(f, D, start, step, pick)
    <3> HIDE DEF step, pick
    <3> QED
      BY <1>1, <1>3, <1>4, <2>1, FoldExists
  <2>3. ASSUME NEW s \in SUBSET D PROVE f[s] = Divided(f, s)
    <3>1. s # {} => Max(s) \in D /\ f[s \ {Max(s)}] \in Partial
      BY <1>3, <2>2
    <3>2. f[s] = IF s = {} THEN start ELSE step[<<pick[s], f[s \ {pick[s]}]>>]
      BY <2>2 DEF FoldsBy
    <3> QED
      BY <3>1, <3>2
  <2>4. f = [s \in SUBSET D |-> Divided(f, s)]
    BY <2>2, <2>3
  <2> QED
    BY <2>4
<1>7. ones = [s \in SUBSET D |-> Ones(ones, s)]
  <2> DEFINE step == [p \in D \X Nat |-> p[2] * Radix + (Radix - 1)]
  <2>1. Adds(step, D, Nat)
    <3>1. \A p \in D \X Nat : p[2] * Radix + (Radix - 1) \in Nat
      BY <1>1
    <3> QED
      BY <3>1 DEF Adds
  <2>2. PICK f \in [SUBSET D -> Nat] : FoldsBy(f, D, 0, step, pick)
    <3> HIDE DEF step, pick
    <3> QED
      BY <1>1, <1>3, <2>1, FoldExists
  <2>3. ASSUME NEW s \in SUBSET D PROVE f[s] = Ones(f, s)
    <3>1. s # {} => Max(s) \in D /\ f[s \ {Max(s)}] \in Nat
      BY <1>3, <2>2
    <3>2. f[s] = IF s = {} THEN 0 ELSE step[<<pick[s], f[s \ {pick[s]}]>>]
      BY <2>2 DEF FoldsBy
    <3> QED
      BY <3>1, <3>2
  <2>4. f = [s \in SUBSET D |-> Ones(f, s)]
    BY <2>2, <2>3
  <2> QED
    BY <2>4
<1> HIDE DEF divided, ones
<1>8. both[{}] \in NotAbove(d)
  BY <1>4, <1>6, <1>7
<1>9. ASSUME NEW s \in SUBSET D, s # {}, both[s \ {pick[s]}] \in NotAbove(d) PROVE both[s] \in NotAbove(d)
  <2> DEFINE r == s \ {Max(s)}
  <2>1. r \in SUBSET D /\ pick[s] = Max(s)
    OBVIOUS
  <2>2. <<divided[r], ones[r]>> \in NotAbove(d)
    BY <1>9, <2>1
  <2>3. divided[r] \in Partial /\ ones[r] \in Nat
    BY <2>2 DEF NotAbove
  <2>4. divided[s] = DivideDigit(d, divided[r]) /\ ones[s] = ones[r] * Radix + (Radix - 1)
    BY <1>6, <1>7, <1>9
  <2> HIDE DEF r
  <2> QED
    BY <2>2, <2>3, <2>4, DigitDivided
<1>10. both[D] \in NotAbove(d)
  <2>1. \A s \in SUBSET D : s # {} => pick[s] \in s
    BY <1>3
  <2> HIDE DEF pick, both
  <2> QED
    BY <1>1, <1>8, <1>9, <2>1, FoldStays
<1>11. <<divided[D], ones[D]>> \in NotAbove(d)
  BY <1>10
<1>12. divided[D].quotient \in Nat /\ divided[D].rest \in Nat /\ ones[D] \in Nat
       /\ divided[D].quotient * d + divided[D].rest <= ones[D]
  BY <1>11 DEF NotAbove, Partial
<1>13. divided[D].quotient * d \in Nat
  BY <1>12
<1> QED
  BY <1>2, <1>12, <1>13

\* A digest that meets the target of a difficulty has its work.
LEMMA TargetIsWork ==
  ASSUME NEW d \in Nat, NEW x \in Nat, x <= PowTarget(d)
  PROVE  x * d <= MaxTarget
<1>1. MaxTarget \in Nat /\ DivisorLimit \in Nat \ {0}
  BY TargetIsQuotient, RulesAssumption
<1>2. CASE d = 0
  BY <1>1, <1>2
<1>3. CASE d > DivisorLimit
  <2>1. PowTarget(d) = 0
    BY <1>1, <1>3 DEF PowTarget
  <2>2. x = 0
    BY <2>1
  <2> QED
    BY <1>1, <2>2
<1>4. CASE d # 0 /\ d <= DivisorLimit
  <2>1. PowTarget(d) \in Nat /\ PowTarget(d) * d <= MaxTarget
    BY <1>4, TargetIsQuotient
  <2>2. x * d <= PowTarget(d) * d
    BY <2>1, MoreOfBoth
  <2>3. x * d \in Nat /\ PowTarget(d) * d \in Nat
    BY <2>1
  <2> QED
    BY <1>1, <2>1, <2>2, <2>3
<1> QED
  BY <1>1, <1>2, <1>3, <1>4

\* The difficulty of a child is a number.
LEMMA AdjustedIsNumber ==
  ASSUME NEW d \in Nat, NEW before \in Nat, NEW now \in Nat
  PROVE  AdjustMiningDifficulty(d, before, now) \in Nat
<1>1. /\ MinDifficulty \in Nat /\ MaxDifficulty \in Nat /\ BaseDifficulty \in Nat
      /\ Monus(now, before) \in Nat
  BY RulesAssumption DEF Monus
<1>2. \A c \in Nat, e \in Nat : Stepped(c, e) \in Int
  BY DEF Stepped
<1>3. \A x \in Int : Clamp(MinDifficulty, x, MaxDifficulty) \in Nat
  BY <1>1 DEF Clamp
<1> QED
  BY <1>1, <1>2, <1>3 DEF AdjustMiningDifficulty

ChainInv ==
  /\ head.difficulty \in Nat /\ head.time \in Nat /\ clock \in Nat
  /\ PassedIsStored

LEMMA ChainStart == ChainInit => ChainInv
  BY RulesAssumption DEF ChainInit, ChainInv, PassedIsStored, LegacyMiningRoot, GenesisBlock, Header

\* Whoever hands a block in: what the rules of the cache say of it decides.
LEMMA HandInStep ==
  ASSUME ChainInv, NEW by, NEW h, NEW passed \in BOOLEAN, HandIn(by, h, passed),
         h.version \in Nat, h.digest \in Nat, h.time \in Nat,
         passed /\ by # "sync" => Store(h) \/ (by = "miner" /\ clock < head.time)
  PROVE  ChainInv'
<1>1. CASE Store(h)
  <2>1. h.difficulty \in Nat
    <3>1. h.difficulty = AdjustMiningDifficulty(head.difficulty, head.time, h.time) \/ h.difficulty = BaseDifficulty
      BY <1>1 DEF Store, ValidateHeaderContents
    <3>2. AdjustMiningDifficulty(head.difficulty, head.time, h.time) \in Nat
      BY AdjustedIsNumber DEF ChainInv
    <3>3. BaseDifficulty \in Nat
      BY RulesAssumption
    <3> QED
      BY <3>1, <3>2, <3>3
  <2>2. h.version < PowVersion \/ h.digest * head.difficulty <= MaxTarget
    <3>1. h.version >= PowVersion => h.digest <= PowTarget(head.difficulty)
      BY <1>1 DEF Store, ValidateHeaderContents, PowMeetsBlockRule
    <3> QED
      BY <3>1, TargetIsWork DEF ChainInv, PowVersion
  <2>3. last'.worked = (h.version < PowVersion \/ h.digest * head.difficulty <= MaxTarget)
        /\ last'.stored = Store(h) /\ clock' = clock /\ (head' = h \/ head' = head)
    BY DEF HandIn
  <2> QED
    BY <1>1, <2>1, <2>2, <2>3 DEF ChainInv, PassedIsStored
<1>2. CASE ~Store(h)
  <2>1. /\ last'.by = by /\ last'.passed = passed /\ last'.stored = FALSE
        /\ last'.back = (clock < head.time) /\ clock' = clock /\ head' = head
    BY <1>2 DEF HandIn
  <2> QED
    BY <1>2, <2>1 DEF ChainInv, PassedIsStored
<1> QED
  BY <1>1, <1>2

\* What the RPC asks of a share makes a block the cache takes, if the clock was not set back.
LEMMA ShareStep ==
  ASSUME ChainInv, NEW digest \in Digests, NEW label \in ExtraSizes, SubmitWork(digest, label)
  PROVE  ChainInv'
<1> DEFINE h == MinedHeader(head, head.number + 2, clock, digest, label)
           passed == ShareAccepted(head, digest, label)
<1>1. HandIn("miner", h, passed) /\ passed \in BOOLEAN
  BY DEF SubmitWork, ShareAccepted
<1>2. /\ h.version = PowVersion /\ h.digest = digest /\ h.time = clock /\ h.extra = label
      /\ h.sealed /\ h.mixed /\ h.parent = head.hash /\ h.number = head.number + 1
      /\ h.difficulty = AdjustMiningDifficulty(head.difficulty, head.time, clock)
  BY DEF MinedHeader, Header
<1>3. digest \in Nat /\ PowVersion \in Nat /\ PowVersion # 0 /\ clock \in Nat /\ head.time \in Nat
  BY ChainAssumption DEF PowVersion, ChainInv
<1> HIDE DEF h
<1>4. ASSUME passed, ~(clock < head.time) PROVE Store(h)
  <2>1. digest <= PowTarget(head.difficulty) /\ label <= MaxExtra
    BY <1>4 DEF ShareAccepted
  <2>2. PowMeetsBlockRule(h.version, h.digest, head.difficulty)
    BY <1>2, <2>1 DEF PowMeetsBlockRule, PowVersion
  <2> QED
    BY <1>2, <1>3, <1>4, <2>1, <2>2 DEF Store, ValidateHeaderContents, Follows
<1> HIDE DEF passed
<1>5. passed => Store(h) \/ clock < head.time
  BY <1>4
<1> QED
  BY <1>1, <1>2, <1>3, <1>5, HandInStep

\* What the import RPC asks of a header, the cache asks no more.
LEMMA ImportedIsSound ==
  ASSUME NEW h, h.extra \in Nat, h.time \in Nat, head.time \in Nat, ValidateImportedHeader(head, h)
  PROVE  Store(h)
<1>1. h.extra <= MaxExtra
  BY RulesAssumption DEF ValidateImportedHeader
<1>2. h.time >= head.time
  BY DEF ValidateImportedHeader
<1> QED
  BY <1>1, <1>2 DEF ValidateImportedHeader, ValidateHeaderContents, Store

\* The headers of others have numbers where numbers belong.
LEMMA OthersHeaders ==
  ASSUME ChainInv, NEW c \in Candidates, NEW h \in Flawed(c)
  PROVE  h.version \in Nat /\ h.digest \in Nat /\ h.time \in Nat /\ h.extra \in Nat
<1>1. Monus(head.time, 1) \in Nat
  BY DEF Monus, ChainInv
<1>2. PICK v \in Versions, t \in Monus(head.time, 1)..MaxClock, x \in ExtraSizes, d \in Digests :
        c = Header(v, head.number + 1, head.number + 2, head.hash, t,
                   AdjustMiningDifficulty(head.difficulty, head.time, t), x, d)
  BY DEF Candidates
<1>3. /\ c.version = v /\ c.digest = d /\ c.time = t /\ c.extra = x
      /\ {"version", "digest", "time", "extra", "sealed", "mixed", "parent", "number", "difficulty"} \subseteq DOMAIN c
  BY <1>2 DEF Header
<1>4. v \in Nat /\ d \in Nat /\ t \in Nat /\ x \in Nat
  BY <1>1, <1>2, ChainAssumption
<1>5. h.digest = c.digest /\ h.time = c.time /\ h.extra = c.extra /\ (h.version = c.version \/ h.version = 0)
  BY <1>3 DEF Flawed
<1> QED
  BY <1>3, <1>4, <1>5

(* PassedIsStored: a block the RPC lets through is one the block cache        *)
(* takes, unless the clock was set back behind its parent before it was       *)
(* mined; and what is stored has the work its parent's difficulty asks for.   *)
THEOREM WorkIsKept == ChainSpec => []PassedIsStored
<1>1. ASSUME ChainInv, [ChainNext]_chainVars PROVE ChainInv'
  <2>1. CASE UNCHANGED chainVars
    BY <1>1, <2>1 DEF chainVars, ChainInv, PassedIsStored
  <2>2. CASE SetClock
    <3>1. clock' \in Nat /\ head' = head /\ last' = last
      BY <1>1, <2>2, ChainAssumption DEF SetClock, ChainInv
    <3> QED
      BY <1>1, <3>1 DEF ChainInv, PassedIsStored
  <2>3. ASSUME NEW d \in Digests, NEW x \in ExtraSizes, SubmitWork(d, x) PROVE ChainInv'
    BY <1>1, <2>3, ShareStep
  <2>4. ASSUME NEW c \in Candidates, NEW h \in Flawed(c), ImportBlock(h) PROVE ChainInv'
    <3>1. h.version \in Nat /\ h.digest \in Nat /\ h.time \in Nat /\ h.extra \in Nat
      BY <1>1, <2>4, OthersHeaders
    <3>2. ValidateImportedHeader(head, h) => Store(h)
      BY <1>1, <3>1, ImportedIsSound DEF ChainInv
    <3>3. ValidateImportedHeader(head, h) \in BOOLEAN
      BY DEF ValidateImportedHeader
    <3>4. HandIn("import", h, ValidateImportedHeader(head, h))
      BY <2>4 DEF ImportBlock
    <3> QED
      BY <1>1, <3>1, <3>2, <3>3, <3>4, HandInStep
  <2>5. ASSUME NEW c \in Candidates, NEW h \in Flawed(c), SyncBlock(h) PROVE ChainInv'
    <3>1. h.version \in Nat /\ h.digest \in Nat /\ h.time \in Nat
      BY <1>1, <2>5, OthersHeaders
    <3>2. HandIn("sync", h, TRUE)
      BY <2>5 DEF SyncBlock
    <3> QED
      BY <1>1, <3>1, <3>2, HandInStep
  <2> QED
    BY <1>1, <2>1, <2>2, <2>3, <2>4, <2>5 DEF ChainNext
<1>2. ChainInv => PassedIsStored
  BY DEF ChainInv
<1> QED
  BY <1>1, <1>2, ChainStart, PTL DEF ChainSpec
-----------------------------------------------------------------------------
(* Powers *)


\* A function that multiplies by the base at each step gives the powers.
LEMMA PowerValues ==
  ASSUME NEW base \in Nat, NEW n \in Nat
  PROVE  \E f \in [0..n -> Nat] : /\ f[0] = 1 /\ \A k \in 1..n : f[k] = f[k - 1] * base
                                 /\ Power(base, n) = f[n]
<1> DEFINE Body(f, i) == IF i = 0 THEN 1 ELSE f[i - 1] * base
           power == CHOOSE f : f = [i \in 0..n |-> Body(f, i)]
           step == [p \in (1..n) \X Nat |-> p[2] * base]
<1>1. Power(base, n) = power[n]
  BY DEF Power
<1>2. \A k \in 1..n, v \in Nat : step[<<k, v>>] = v * base /\ step[<<k, v>>] \in Nat
  OBVIOUS
<1>3. PICK f \in [0..n -> Nat] : f[0] = 1 /\ \A k \in 1..n : f[k] = step[<<k, f[k - 1]>>]
  <2>1. 1 \in Nat /\ StepsStay(step, n, Nat)
    BY <1>2 DEF StepsStay
  <2> HIDE DEF step
  <2>2. \E f \in [0..n -> Nat] : CountsBy(f, n, 1, step)
    BY <2>1, CountedUp
  <2> QED
    BY <2>2 DEF CountsBy
<1> HIDE DEF step
<1>4. f = [i \in 0..n |-> Body(f, i)]
  <2>1. ASSUME NEW i \in 0..n PROVE f[i] = Body(f, i)
    <3>1. CASE i = 0
      BY <1>3, <3>1
    <3>2. CASE i # 0
      <4>1. i \in 1..n /\ i - 1 \in 0..n
        BY <3>2
      <4>2. f[i - 1] \in Nat
        BY <4>1
      <4> QED
        BY <1>2, <1>3, <3>2, <4>1, <4>2
    <3> QED
      BY <3>1, <3>2
  <2> QED
    BY <2>1
<1>5. power = [i \in 0..n |-> Body(power, i)]
  BY <1>4
<1> HIDE DEF power
<1>6. power[0] = 1 /\ \A k \in 1..n : power[k] = power[k - 1] * base
  BY <1>5
<1>7. \A k \in 0..n : power[k] \in Nat
  <2>1. power[0] \in Nat
    BY <1>6
  <2>2. \A k \in 1..n : power[k - 1] \in Nat => power[k] \in Nat
    BY <1>6
  <2> QED
    BY <2>1, <2>2, CountedIn
<1>8. power \in [0..n -> Nat]
  BY <1>5, <1>7
<1> QED
  BY <1>1, <1>6, <1>8

LEMMA PowerSteps ==
  ASSUME NEW base \in Nat
  PROVE  /\ Power(base, 0) = 1
         /\ \A n \in Nat : Power(base, n) \in Nat /\ Power(base, n + 1) = Power(base, n) * base
<1>1. Power(base, 0) = 1
  <2>1. 0 \in Nat
    OBVIOUS
  <2> QED
    BY <2>1, PowerValues
<1>2. ASSUME NEW n \in Nat PROVE Power(base, n) \in Nat /\ Power(base, n + 1) = Power(base, n) * base
  <2>1. PICK f \in [0..n -> Nat] : /\ f[0] = 1 /\ \A k \in 1..n : f[k] = f[k - 1] * base
                                   /\ Power(base, n) = f[n]
    BY PowerValues
  <2>2. PICK g \in [0..(n + 1) -> Nat] : /\ g[0] = 1 /\ \A k \in 1..(n + 1) : g[k] = g[k - 1] * base
                                         /\ Power(base, n + 1) = g[n + 1]
    <3>1. n + 1 \in Nat
      OBVIOUS
    <3> QED
      BY <3>1, PowerValues
  <2> DEFINE same == [k \in 0..n |-> IF f[k] = g[k] THEN 1 ELSE 0]
  <2>3. \A k \in 0..n : same[k] \in {1}
    <3>1. same[0] \in {1}
      BY <2>1, <2>2
    <3>2. ASSUME NEW k \in 1..n, same[k - 1] \in {1} PROVE same[k] \in {1}
      <4>1. k - 1 \in 0..n /\ k \in 0..n /\ k \in 1..(n + 1)
        OBVIOUS
      <4>2. f[k - 1] = g[k - 1]
        BY <3>2, <4>1
      <4>3. f[k] = g[k]
        BY <2>1, <2>2, <4>1, <4>2
      <4> QED
        BY <4>1, <4>3
    <3>3. \A k \in 1..n : same[k - 1] \in {1} => same[k] \in {1}
      BY <3>2
    <3> DEFINE V == {1}
    <3> HIDE DEF same, V
    <3>4. \A k \in 0..n : same[k] \in V
      <4>1. same[0] \in V /\ \A k \in 1..n : same[k - 1] \in V => same[k] \in V
        BY <3>1, <3>3 DEF V
      <4> QED
        BY <4>1, CountedIn
    <3> QED
      BY <3>4 DEF V
  <2>4. f[n] = g[n] /\ n + 1 \in 1..(n + 1) /\ (n + 1) - 1 = n /\ f[n] \in Nat
    <3>1. same[n] \in {1} /\ n \in 0..n
      BY <2>3
    <3> QED
      BY <3>1
  <2>5. g[n + 1] = g[n] * base
    BY <2>2, <2>4
  <2> QED
    BY <2>1, <2>2, <2>4, <2>5
<1> QED
  BY <1>1, <1>2

\* The power of a sum, and that powers of a number grow.
LEMMA PowerOfSum ==
  ASSUME NEW base \in Nat, NEW m \in Nat, NEW n \in Nat
  PROVE  Power(base, m + n) = Power(base, m) * Power(base, n)
<1> DEFINE A == {k \in Nat : Power(base, m + k) = Power(base, m) * Power(base, k)}
<1>1. 0 \in A
  BY PowerSteps
<1>2. ASSUME NEW k \in Nat, k \in A PROVE k + 1 \in A
  <2> DEFINE a == Power(base, m)
             b == Power(base, k)
             c == Power(base, m + k)
  <2>1. m + k \in Nat /\ m + (k + 1) = (m + k) + 1
    OBVIOUS
  <2>2. a \in Nat /\ b \in Nat /\ c \in Nat /\ Power(base, (m + k) + 1) = c * base /\ Power(base, k + 1) = b * base
    BY <2>1, PowerSteps
  <2>3. c = a * b
    BY <1>2
  <2> HIDE DEF a, b, c
  <2>4. (a * b) * base = a * (b * base)
    BY <2>2
  <2>5. Power(base, m + (k + 1)) = a * Power(base, k + 1)
    BY <2>1, <2>2, <2>3, <2>4
  <2> QED
    BY <2>5 DEF a
<1>3. Nat \subseteq A
  <2> HIDE DEF A
  <2> QED
    BY <1>1, <1>2, AllNumbers
<1> QED
  BY <1>3

LEMMA PowerGrows ==
  ASSUME NEW base \in Nat \ {0}
  PROVE  /\ \A n \in Nat : Power(base, n) >= 1
         /\ \A m, n \in Nat : m <= n => Power(base, m) <= Power(base, n)
<1>1. ASSUME NEW n \in Nat PROVE Power(base, n) >= 1
  <2> DEFINE A == {k \in Nat : Power(base, k) >= 1}
  <2>1. 0 \in A
    BY PowerSteps
  <2>2. ASSUME NEW k \in Nat, k \in A PROVE k + 1 \in A
    <3> DEFINE b == Power(base, k)
    <3>1. b \in Nat /\ b >= 1 /\ Power(base, k + 1) = b * base
      BY <2>2, PowerSteps
    <3> HIDE DEF b
    <3>2. b * base >= 1
      BY <3>1
    <3> QED
      BY <3>1, <3>2
  <2>3. Nat \subseteq A
    <3> HIDE DEF A
    <3> QED
      BY <2>1, <2>2, AllNumbers
  <2> QED
    BY <2>3
<1>2. ASSUME NEW m \in Nat, NEW n \in Nat, m <= n PROVE Power(base, m) <= Power(base, n)
  <2> DEFINE a == Power(base, m)
             b == Power(base, n - m)
  <2>1. n - m \in Nat /\ m + (n - m) = n
    BY <1>2
  <2>2. a \in Nat /\ b \in Nat /\ b >= 1
    BY <1>1, <2>1, PowerSteps
  <2>3. Power(base, n) = a * b
    BY <2>1, PowerOfSum
  <2> HIDE DEF a, b
  <2>4. a <= a * b
    BY <2>2
  <2> QED
    BY <2>3, <2>4 DEF a
<1> QED
  BY <1>1, <1>2
-----------------------------------------------------------------------------
(* Words *)

LEMMA WordSize == Width \in Nat /\ Width >= 1 /\ Digit \in Nat /\ Digit >= 2
<1>1. Width \in Nat /\ Width >= 1 /\ Bits - 1 \in Nat /\ (Bits - 1) + 1 = Bits
  BY WordAssumption
<1>2. Digit \in Nat /\ Digit >= 2
  <2> DEFINE p == Power(2, Bits - 1)
  <2>1. p \in Nat /\ p >= 1 /\ Power(2, Bits) = p * 2
    BY <1>1, PowerSteps, PowerGrows
  <2> HIDE DEF p
  <2> QED
    BY <2>1 DEF Digit
<1> QED
  BY <1>1, <1>2

LEMMA PlaceValues ==
  /\ Place(0) = 1
  /\ \A k \in Nat : Place(k) \in Nat /\ Place(k) >= 1 /\ Place(k + 1) = Place(k) * Digit
  /\ \A m, n \in Nat : Place(m + n) = Place(m) * Place(n) /\ (m <= n => Place(m) <= Place(n))
<1>1. Digit \in Nat \ {0}
  BY WordSize
<1> QED
  BY <1>1, PowerSteps, PowerGrows, PowerOfSum DEF Place

\* The value of a word, from its first digit on.
Valued(v, w) == v[0] = 0 /\ \A k \in 1..Width : v[k] = v[k - 1] * Digit + w[k]

LEMMA ValueOfDigits ==
  ASSUME NEW w \in [1..Width -> Nat]
  PROVE  \E v \in [0..Width -> Nat] : Valued(v, w) /\ IntOf(w) = v[Width]
<1> DEFINE Body(f, i) == IF i = 0 THEN 0 ELSE f[i - 1] * Digit + w[i]
           value == CHOOSE f : f = [i \in 0..Width |-> Body(f, i)]
           step == [p \in (1..Width) \X Nat |-> p[2] * Digit + w[p[1]]]
<1>1. IntOf(w) = value[Width]
  BY DEF IntOf
<1>2. \A k \in 1..Width, v \in Nat : step[<<k, v>>] = v * Digit + w[k] /\ step[<<k, v>>] \in Nat
  <2> SUFFICES ASSUME NEW k \in 1..Width, NEW v \in Nat PROVE v * Digit + w[k] \in Nat
    OBVIOUS
  <2>1. w[k] \in Nat /\ v * Digit \in Nat
    BY WordSize
  <2> QED
    BY <2>1
<1>3. PICK f \in [0..Width -> Nat] : f[0] = 0 /\ \A k \in 1..Width : f[k] = step[<<k, f[k - 1]>>]
  <2>1. 0 \in Nat /\ StepsStay(step, Width, Nat)
    BY <1>2 DEF StepsStay
  <2> HIDE DEF step
  <2>2. \E f \in [0..Width -> Nat] : CountsBy(f, Width, 0, step)
    BY <2>1, CountedUp, WordSize
  <2> QED
    BY <2>2 DEF CountsBy
<1> HIDE DEF step
<1>4. f = [i \in 0..Width |-> Body(f, i)]
  <2>1. ASSUME NEW i \in 0..Width PROVE f[i] = Body(f, i)
    <3>1. CASE i = 0
      BY <1>3, <3>1
    <3>2. CASE i # 0
      <4>1. i \in 1..Width /\ i - 1 \in 0..Width
        BY <3>2, WordSize
      <4>2. f[i - 1] \in Nat
        BY <4>1
      <4> QED
        BY <1>2, <1>3, <3>2, <4>1, <4>2
    <3> QED
      BY <3>1, <3>2
  <2> QED
    BY <2>1
<1>5. value = [i \in 0..Width |-> Body(value, i)]
  BY <1>4
<1> HIDE DEF value
<1>6. Valued(value, w)
  <2>1. value[0] = 0
    BY <1>5, WordSize
  <2>2. ASSUME NEW k \in 1..Width PROVE value[k] = value[k - 1] * Digit + w[k]
    <3>1. k \in 0..Width /\ k # 0
      BY WordSize
    <3> QED
      BY <1>5, <3>1
  <2> QED
    BY <2>1, <2>2 DEF Valued
<1>7. \A k \in 0..Width : value[k] \in Nat
  <2>1. value[0] \in Nat
    BY <1>6 DEF Valued
  <2>2. ASSUME NEW k \in 1..Width, value[k - 1] \in Nat PROVE value[k] \in Nat
    <3>1. w[k] \in Nat /\ value[k] = value[k - 1] * Digit + w[k]
      BY <1>6 DEF Valued
    <3>2. value[k - 1] * Digit \in Nat
      BY <2>2, WordSize
    <3> QED
      BY <3>1, <3>2, WordSize
  <2> QED
    BY <2>1, <2>2, CountedIn, WordSize
<1>8. value \in [0..Width -> Nat]
  BY <1>5, <1>7
<1> QED
  BY <1>1, <1>6, <1>8

LEMMA ValueOf ==
  ASSUME NEW w \in Word
  PROVE  \E v \in [0..Width -> Nat] : Valued(v, w) /\ IntOf(w) = v[Width]
<1>1. w \in [1..Width -> Nat]
  BY WordSize DEF Word
<1> QED
  BY <1>1, ValueOfDigits

\* One digit of a sum and of a difference.
LEMMA DigitOfSum ==
  ASSUME NEW t \in 0..(2 * Digit - 1)
  PROVE  t \div Digit \in {0, 1} /\ t % Digit \in 0..(Digit - 1) /\ t % Digit = t - Digit * (t \div Digit)
<1> DEFINE D == Digit
<1>1. t \in Nat /\ t <= 2 * D - 1 /\ D \in Nat /\ D >= 2
  BY WordSize
<1> HIDE DEF D
<1>2. t = D * (t \div D) + (t % D) /\ t % D \in 0..(D - 1) /\ t \div D \in Nat
  BY <1>1
<1>3. t \div D \in {0, 1}
  <2>1. CASE t < D
    <3>1. t \div D = 0
      BY <1>1, <2>1
    <3> QED
      BY <3>1
  <2>2. CASE t >= D
    <3>1. t \div D = 1
      BY <1>1, <2>2
    <3> QED
      BY <3>1
  <2> QED
    BY <1>1, <2>1, <2>2
<1> QED
  BY <1>1, <1>2, <1>3 DEF D

LEMMA DigitOfDifference ==
  ASSUME NEW t \in (-Digit)..(Digit - 1)
  PROVE  t % Digit \in 0..(Digit - 1) /\ t % Digit = t + (IF t < 0 THEN Digit ELSE 0)
<1> DEFINE D == Digit
<1>1. t \in Int /\ t <= D - 1 /\ t >= -D /\ D \in Nat /\ D >= 2
  BY WordSize
<1> HIDE DEF D
<1>2. t = D * (t \div D) + (t % D) /\ t % D \in 0..(D - 1) /\ t \div D \in Int
  BY <1>1
<1>3. CASE t < 0
  <2>1. t \div D = -1
    BY <1>1, <1>2, <1>3
  <2> QED
    BY <1>1, <1>2, <1>3, <2>1 DEF D
<1>4. CASE t >= 0
  <2>1. t \div D = 0
    BY <1>1, <1>2, <1>4
  <2> QED
    BY <1>1, <1>2, <1>4, <2>1 DEF D
<1> QED
  BY <1>1, <1>3, <1>4

\* What is in the first k digits of a sum, and what is carried into and out of them.
LEMMA WordsAdded ==
  ASSUME NEW a \in Word, NEW b \in Word
  PROVE  LET sum == OverflowingAdd(a, b)
         IN  /\ sum.word \in Word /\ sum.overflow \in BOOLEAN
             /\ IntOf(sum.word) + (IF sum.overflow THEN Modulus ELSE 0) = IntOf(a) + IntOf(b)
<1> DEFINE Body(f, i) == IF i = Width THEN 0 ELSE (a[i + 1] + b[i + 1] + f[i + 1]) \div Digit
           carry == CHOOSE f : f = [i \in 0..Width |-> Body(f, i)]
           s == [i \in 1..Width |-> (a[i] + b[i] + carry[i]) % Digit]
           step == [p \in (1..Width) \X {0, 1} |-> (a[Width - p[1] + 1] + b[Width - p[1] + 1] + p[2]) \div Digit]
<1>1. OverflowingAdd(a, b) = [word |-> s, overflow |-> carry[0] # 0]
  BY DEF OverflowingAdd
<1>2. \A i \in 1..Width : a[i] \in 0..(Digit - 1) /\ b[i] \in 0..(Digit - 1)
  BY DEF Word
<1>3. PICK g \in [0..Width -> {0, 1}] : CountsBy(g, Width, 0, step)
  <2>1. ASSUME NEW k \in 1..Width, NEW v \in {0, 1} PROVE step[<<k, v>>] \in {0, 1}
    <3>1. Width - k + 1 \in 1..Width
      BY WordSize
    <3> DEFINE t == a[Width - k + 1] + b[Width - k + 1] + v
    <3>2. t \div Digit \in {0, 1}
      <4>1. t \in 0..(2 * Digit - 1)
        BY <1>2, <3>1, WordSize
      <4> HIDE DEF t
      <4> QED
        BY <4>1, DigitOfSum
    <3> QED
      BY <3>2
  <2>2. 0 \in {0, 1} /\ StepsStay(step, Width, {0, 1})
    BY <2>1 DEF StepsStay
  <2> HIDE DEF step
  <2> QED
    BY <2>2, WordSize, CountedUp
<1>4. carry = [i \in 0..Width |-> Body(carry, i)]
  <2> DEFINE f == [i \in 0..Width |-> g[Width - i]]
  <2>1. ASSUME NEW i \in 0..Width PROVE f[i] = Body(f, i)
    <3>1. CASE i = Width
      BY <1>3, <3>1, WordSize DEF CountsBy
    <3>2. CASE i # Width
      <4>1. /\ Width - i \in 1..Width /\ i + 1 \in 0..Width /\ (Width - i) - 1 = Width - (i + 1)
            /\ Width - (Width - i) + 1 = i + 1 /\ Width - (i + 1) \in 0..Width
        BY <3>2, WordSize
      <4>2. g[Width - i] = step[<<Width - i, g[Width - (i + 1)]>>]
        BY <1>3, <4>1 DEF CountsBy
      <4>3. step[<<Width - i, g[Width - (i + 1)]>>] = (a[i + 1] + b[i + 1] + g[Width - (i + 1)]) \div Digit
        BY <4>1
      <4>4. f[i] = g[Width - i] /\ f[i + 1] = g[Width - (i + 1)]
        BY <4>1
      <4> QED
        BY <3>2, <4>2, <4>3, <4>4
    <3> QED
      BY <3>1, <3>2
  <2>2. f = [i \in 0..Width |-> Body(f, i)]
    BY <2>1
  <2> QED
    BY <2>2
<1> HIDE DEF carry, step
<1>5. carry[Width] = 0 /\ \A i \in 1..Width : carry[i - 1] = (a[i] + b[i] + carry[i]) \div Digit
  <2>1. carry[Width] = 0
    BY <1>4, WordSize
  <2>2. ASSUME NEW i \in 1..Width PROVE carry[i - 1] = (a[i] + b[i] + carry[i]) \div Digit
    <3>1. i - 1 \in 0..Width /\ i - 1 # Width /\ (i - 1) + 1 = i
      BY WordSize
    <3> QED
      BY <1>4, <3>1
  <2> QED
    BY <2>1, <2>2
<1>6. \A i \in 0..Width : carry[i] \in {0, 1}
  <2> DEFINE back == [k \in 0..Width |-> carry[Width - k]]
  <2>1. back[0] \in {0, 1}
    BY <1>5, WordSize
  <2>2. ASSUME NEW k \in 1..Width, back[k - 1] \in {0, 1} PROVE back[k] \in {0, 1}
    <3> DEFINE i == Width - k + 1
    <3>1. i \in 1..Width /\ Width - (k - 1) = i /\ i - 1 = Width - k /\ k - 1 \in 0..Width
      BY WordSize
    <3>2. carry[i] \in {0, 1}
      BY <2>2, <3>1
    <3> DEFINE t == a[i] + b[i] + carry[i]
    <3>3. t \div Digit \in {0, 1}
      <4>1. t \in 0..(2 * Digit - 1)
        BY <1>2, <3>1, <3>2, WordSize
      <4> HIDE DEF t
      <4> QED
        BY <4>1, DigitOfSum
    <3>4. back[k] = carry[i - 1]
      BY <3>1
    <3> QED
      BY <1>5, <3>1, <3>3, <3>4
  <2> DEFINE V == {0, 1}
  <2>3. back[0] \in V /\ \A k \in 1..Width : back[k - 1] \in V => back[k] \in V
    BY <2>1, <2>2
  <2>4. \A k \in 0..Width : back[k] \in V
    <3> HIDE DEF back, V
    <3> QED
      BY <2>3, WordSize, CountedIn
  <2>5. ASSUME NEW i \in 0..Width PROVE carry[i] \in {0, 1}
    <3>1. Width - i \in 0..Width /\ Width - (Width - i) = i
      BY WordSize
    <3>2. back[Width - i] = carry[i]
      BY <3>1
    <3> QED
      BY <2>4, <3>1, <3>2
  <2> QED
    BY <2>5
<1>7. \A i \in 1..Width : s[i] \in 0..(Digit - 1) /\ s[i] = a[i] + b[i] + carry[i] - Digit * carry[i - 1]
  <2> SUFFICES ASSUME NEW i \in 1..Width
               PROVE  s[i] \in 0..(Digit - 1) /\ s[i] = a[i] + b[i] + carry[i] - Digit * carry[i - 1]
    OBVIOUS
  <2>1. carry[i] \in {0, 1} /\ carry[i - 1] = (a[i] + b[i] + carry[i]) \div Digit
    BY <1>5, <1>6, WordSize
  <2>2. s[i] = (a[i] + b[i] + carry[i]) % Digit
    OBVIOUS
  <2>3. a[i] \in 0..(Digit - 1) /\ b[i] \in 0..(Digit - 1)
    BY <1>2
  <2> DEFINE x == a[i]
             y == b[i]
             c == carry[i]
             q == carry[i - 1]
             t == x + y + c
  <2>4. q = t \div Digit /\ s[i] = t % Digit
    BY <2>1, <2>2
  <2>5. x \in Int /\ y \in Int /\ c \in Int /\ t \in 0..(2 * Digit - 1)
    <3>1. c \in {0, 1}
      BY <2>1
    <3> HIDE DEF x, y, c
    <3> QED
      BY <2>3, <3>1, WordSize DEF x, y
  <2> HIDE DEF s, q, t
  <2>6. s[i] \in 0..(Digit - 1) /\ s[i] = t - Digit * q /\ q \in {0, 1}
    BY <2>4, <2>5, DigitOfSum
  <2>7. Digit * q \in Int
    BY <2>6, WordSize
  <2> HIDE DEF x, y, c
  <2>8. s[i] = x + y + c - Digit * q
    BY <2>5, <2>6, <2>7 DEF t
  <2> QED
    BY <2>6, <2>8 DEF q, x, y, c
<1>8. s \in Word
  BY <1>7 DEF Word
<1>9. PICK va \in [0..Width -> Nat] : Valued(va, a) /\ IntOf(a) = va[Width]
  BY ValueOf
<1>10. PICK vb \in [0..Width -> Nat] : Valued(vb, b) /\ IntOf(b) = vb[Width]
  BY ValueOf
<1>11. PICK vs \in [0..Width -> Nat] : Valued(vs, s) /\ IntOf(s) = vs[Width]
  BY <1>8, ValueOf
<1> HIDE DEF s
<1> DEFINE Holds(k) == vs[k] + carry[0] * Place(k) = va[k] + vb[k] + carry[k]
           h == [k \in 0..Width |-> IF Holds(k) THEN 1 ELSE 0]
<1>12. h[0] = 1
  <2>1. carry[0] \in {0, 1}
    BY <1>6, WordSize
  <2>2. vs[0] = 0 /\ va[0] = 0 /\ vb[0] = 0 /\ Place(0) = 1
    BY <1>9, <1>10, <1>11, PlaceValues DEF Valued
  <2>3. Holds(0)
    BY <2>1, <2>2
  <2> QED
    BY <2>3, WordSize
<1>13. ASSUME NEW k \in 1..Width, h[k - 1] = 1 PROVE h[k] = 1
  <2> DEFINE p == Place(k - 1)
             x == va[k - 1]
             y == vb[k - 1]
             z == vs[k - 1]
             c == carry[0]
             d == carry[k - 1]
             e == carry[k]
             D == Digit
  <2>1. k \in 0..Width /\ k - 1 \in 0..Width /\ k - 1 \in Nat /\ (k - 1) + 1 = k
    BY WordSize
  <2>2. p \in Nat /\ Place(k) = p * D /\ D \in Nat
    BY <2>1, PlaceValues, WordSize
  <2>3. x \in Nat /\ y \in Nat /\ z \in Nat /\ c \in {0, 1} /\ d \in {0, 1} /\ e \in {0, 1}
    BY <1>6, <2>1, WordSize
  <2>4. a[k] \in Nat /\ b[k] \in Nat /\ s[k] = a[k] + b[k] + e - D * d
    BY <1>2, <1>7, WordSize
  <2>5. va[k] = x * D + a[k] /\ vb[k] = y * D + b[k] /\ vs[k] = z * D + s[k]
    BY <1>9, <1>10, <1>11 DEF Valued
  <2>6. z + c * p = x + y + d
    BY <1>13, <2>1
  <2> HIDE DEF p, x, y, z, c, d, e, D
  <2>7. (z + c * p) * D = z * D + c * (p * D) /\ (x + y + d) * D = x * D + y * D + D * d
    BY <2>2, <2>3
  <2>8. x * D \in Int /\ y * D \in Int /\ z * D \in Int /\ D * d \in Int /\ c * (p * D) \in Int
    BY <2>2, <2>3
  <2>9. z * D + c * (p * D) = x * D + y * D + D * d
    BY <2>6, <2>7
  <2>10. (z * D + s[k]) + c * (p * D) = (x * D + a[k]) + (y * D + b[k]) + e
    <3> DEFINE zD == z * D
               xD == x * D
               yD == y * D
               Dd == D * d
               cp == c * (p * D)
    <3>1. zD \in Int /\ xD \in Int /\ yD \in Int /\ Dd \in Int /\ cp \in Int /\ zD + cp = xD + yD + Dd
          /\ s[k] = a[k] + b[k] + e - Dd
      BY <2>4, <2>8, <2>9
    <3> HIDE DEF zD, xD, yD, Dd, cp
    <3> DEFINE A == a[k]
               B == b[k]
               S == s[k]
    <3>2. (zD + S) + cp = (xD + A) + (yD + B) + e
      <4>1. A \in Int /\ B \in Int /\ e \in Int
        BY <2>3, <2>4
      <4>2. S = A + B + e - Dd
        BY <3>1
      <4> HIDE DEF A, B, S
      <4> QED
        BY <3>1, <4>1, <4>2
    <3> QED
      BY <3>2 DEF zD, xD, yD, cp
  <2>11. Holds(k)
    BY <2>2, <2>5, <2>10 DEF c, e
  <2> QED
    BY <2>1, <2>11
<1>14. h[Width] = 1
  <2> DEFINE V == {1}
  <2>1. h[0] \in V /\ \A k \in 1..Width : h[k - 1] \in V => h[k] \in V
    BY <1>12, <1>13
  <2>2. \A k \in 0..Width : h[k] \in V
    <3> HIDE DEF h, V
    <3> QED
      BY <2>1, WordSize, CountedIn
  <2> QED
    BY <2>2, WordSize
<1>15. Holds(Width)
  BY <1>14, WordSize
<1>16. carry[0] \in {0, 1} /\ Place(Width) \in Nat
  BY <1>6, WordSize, PlaceValues
<1>17. IntOf(s) + carry[0] * Modulus = IntOf(a) + IntOf(b)
  BY <1>5, <1>9, <1>10, <1>11, <1>15, WordSize DEF Modulus
<1>18. carry[0] * Modulus = IF carry[0] # 0 THEN Modulus ELSE 0
  BY <1>16 DEF Modulus
<1>19. OverflowingAdd(a, b).word = s /\ OverflowingAdd(a, b).overflow = (carry[0] # 0)
  BY <1>1
<1>20. CASE carry[0] # 0
  BY <1>8, <1>17, <1>18, <1>19, <1>20
<1>21. CASE carry[0] = 0
  BY <1>8, <1>17, <1>18, <1>19, <1>21
<1> QED
  BY <1>20, <1>21

\* What is in the first k digits of a difference, and what is borrowed for them.
LEMMA WordsSubtracted ==
  ASSUME NEW a \in Word, NEW b \in Word
  PROVE  LET rest == OverflowingSub(a, b)
         IN  /\ rest.word \in Word /\ rest.overflow \in BOOLEAN
             /\ IntOf(rest.word) + IntOf(b) = IntOf(a) + (IF rest.overflow THEN Modulus ELSE 0)
<1> DEFINE Body(f, i) == IF i < Width /\ a[i + 1] - b[i + 1] + f[i + 1] < 0 THEN -1 ELSE 0
           borrow == CHOOSE f : f = [i \in 0..Width |-> Body(f, i)]
           s == [i \in 1..Width |-> (a[i] - b[i] + borrow[i]) % Digit]
           step == [p \in (1..Width) \X {-1, 0} |->
                      IF a[Width - p[1] + 1] - b[Width - p[1] + 1] + p[2] < 0 THEN -1 ELSE 0]
<1>1. OverflowingSub(a, b) = [word |-> s, overflow |-> borrow[0] # 0]
  BY DEF OverflowingSub
<1>2. \A i \in 1..Width : a[i] \in 0..(Digit - 1) /\ b[i] \in 0..(Digit - 1)
  BY DEF Word
<1>3. PICK g \in [0..Width -> {-1, 0}] : CountsBy(g, Width, 0, step)
  <2>1. 0 \in {-1, 0} /\ StepsStay(step, Width, {-1, 0})
    BY DEF StepsStay
  <2> HIDE DEF step
  <2> QED
    BY <2>1, WordSize, CountedUp
<1>4. borrow = [i \in 0..Width |-> Body(borrow, i)]
  <2> DEFINE f == [i \in 0..Width |-> g[Width - i]]
  <2>1. ASSUME NEW i \in 0..Width PROVE f[i] = Body(f, i)
    <3>1. CASE i = Width
      <4>1. ~(i < Width) /\ Width - i = 0
        BY <3>1, WordSize
      <4> QED
        BY <1>3, <4>1 DEF CountsBy
    <3>2. CASE i # Width
      <4>1. /\ Width - i \in 1..Width /\ i + 1 \in 0..Width /\ (Width - i) - 1 = Width - (i + 1)
            /\ Width - (Width - i) + 1 = i + 1 /\ Width - (i + 1) \in 0..Width /\ i < Width
        BY <3>2, WordSize
      <4>2. g[Width - i] = step[<<Width - i, g[Width - (i + 1)]>>]
        BY <1>3, <4>1 DEF CountsBy
      <4>3. step[<<Width - i, g[Width - (i + 1)]>>]
              = IF a[i + 1] - b[i + 1] + g[Width - (i + 1)] < 0 THEN -1 ELSE 0
        BY <4>1
      <4>4. f[i] = g[Width - i] /\ f[i + 1] = g[Width - (i + 1)]
        BY <4>1
      <4> QED
        BY <4>1, <4>2, <4>3, <4>4
    <3> QED
      BY <3>1, <3>2
  <2>2. f = [i \in 0..Width |-> Body(f, i)]
    BY <2>1
  <2> QED
    BY <2>2
<1> HIDE DEF borrow, step
<1>5. /\ borrow[Width] = 0 /\ \A i \in 0..Width : borrow[i] \in {-1, 0}
      /\ \A i \in 1..Width : borrow[i - 1] = IF a[i] - b[i] + borrow[i] < 0 THEN -1 ELSE 0
  <2>1. borrow[Width] = 0 /\ \A i \in 0..Width : borrow[i] \in {-1, 0}
    BY <1>4, WordSize
  <2>2. ASSUME NEW i \in 1..Width PROVE borrow[i - 1] = IF a[i] - b[i] + borrow[i] < 0 THEN -1 ELSE 0
    <3>1. i - 1 \in 0..Width /\ i - 1 < Width /\ (i - 1) + 1 = i
      BY WordSize
    <3> QED
      BY <1>4, <3>1
  <2> QED
    BY <2>1, <2>2
<1>6. \A i \in 1..Width : s[i] \in 0..(Digit - 1) /\ s[i] = (a[i] - b[i] + borrow[i]) - Digit * borrow[i - 1]
  <2> SUFFICES ASSUME NEW i \in 1..Width
               PROVE  s[i] \in 0..(Digit - 1) /\ s[i] = (a[i] - b[i] + borrow[i]) - Digit * borrow[i - 1]
    OBVIOUS
  <2> DEFINE c == borrow[i]
             q == borrow[i - 1]
             t == a[i] - b[i] + c
  <2>1. c \in {-1, 0} /\ q = (IF t < 0 THEN -1 ELSE 0) /\ s[i] = t % Digit
    BY <1>5, WordSize
  <2>2. t \in (-Digit)..(Digit - 1)
    <3>1. c \in {-1, 0}
      BY <2>1
    <3> HIDE DEF c
    <3> QED
      BY <1>2, <3>1, WordSize
  <2> HIDE DEF s, t, c, q
  <2>3. s[i] \in 0..(Digit - 1) /\ s[i] = t + (IF t < 0 THEN Digit ELSE 0)
    BY <2>1, <2>2, DigitOfDifference
  <2>4. s[i] = t - Digit * q
    BY <2>1, <2>2, <2>3, WordSize
  <2> QED
    BY <2>3, <2>4 DEF t, c, q
<1>7. s \in Word
  BY <1>6 DEF Word
<1>8. PICK va \in [0..Width -> Nat] : Valued(va, a) /\ IntOf(a) = va[Width]
  BY ValueOf
<1>9. PICK vb \in [0..Width -> Nat] : Valued(vb, b) /\ IntOf(b) = vb[Width]
  BY ValueOf
<1>10. PICK vs \in [0..Width -> Nat] : Valued(vs, s) /\ IntOf(s) = vs[Width]
  BY <1>7, ValueOf
<1> HIDE DEF s
<1> DEFINE Holds(k) == vs[k] + vb[k] + borrow[0] * Place(k) = va[k] + borrow[k]
           h == [k \in 0..Width |-> IF Holds(k) THEN 1 ELSE 0]
<1>11. h[0] = 1
  <2>1. borrow[0] \in {-1, 0}
    BY <1>5, WordSize
  <2>2. vs[0] = 0 /\ va[0] = 0 /\ vb[0] = 0 /\ Place(0) = 1
    BY <1>8, <1>9, <1>10, PlaceValues DEF Valued
  <2>3. Holds(0)
    BY <2>1, <2>2
  <2> QED
    BY <2>3, WordSize
<1>12. ASSUME NEW k \in 1..Width, h[k - 1] = 1 PROVE h[k] = 1
  <2> DEFINE p == Place(k - 1)
             x == va[k - 1]
             y == vb[k - 1]
             z == vs[k - 1]
             c == borrow[0]
             d == borrow[k - 1]
             e == borrow[k]
             D == Digit
             A == a[k]
             B == b[k]
             S == s[k]
  <2>1. k \in 0..Width /\ k - 1 \in 0..Width /\ k - 1 \in Nat /\ (k - 1) + 1 = k
    BY WordSize
  <2>2. p \in Nat /\ Place(k) = p * D /\ D \in Nat
    BY <2>1, PlaceValues, WordSize
  <2>3. x \in Nat /\ y \in Nat /\ z \in Nat /\ c \in {-1, 0} /\ d \in {-1, 0} /\ e \in {-1, 0}
    BY <1>5, <2>1, WordSize
  <2>4. A \in 0..(D - 1) /\ B \in 0..(D - 1) /\ S = (A - B + e) - D * d /\ S \in 0..(D - 1)
    BY <1>2, <1>6
  <2>5. va[k] = x * D + A /\ vb[k] = y * D + B /\ vs[k] = z * D + S
    BY <1>8, <1>9, <1>10 DEF Valued
  <2>6. z + y + c * p = x + d
    BY <1>12, <2>1
  <2> HIDE DEF p, x, y, z, c, d, e, D, A, B, S
  <2>7. (z + y + c * p) * D = z * D + y * D + c * (p * D) /\ (x + d) * D = x * D + D * d
    BY <2>2, <2>3
  <2> DEFINE xD == x * D
             yD == y * D
             zD == z * D
             Dd == D * d
             cp == c * (p * D)
  <2>8. xD \in Int /\ yD \in Int /\ zD \in Int /\ Dd \in Int /\ cp \in Int /\ zD + yD + cp = xD + Dd
    BY <2>2, <2>3, <2>6, <2>7
  <2>9. S = (A - B + e) - Dd
    BY <2>4
  <2> HIDE DEF xD, yD, zD, Dd, cp
  <2>10. (zD + S) + (yD + B) + cp = (xD + A) + e
    <3>1. A \in Int /\ B \in Int /\ S \in Int
      BY <2>2, <2>4
    <3> QED
      BY <2>3, <2>8, <2>9, <3>1
  <2>11. Holds(k)
    BY <2>2, <2>5, <2>10 DEF c, e, xD, yD, zD, cp
  <2> QED
    BY <2>1, <2>11
<1>13. h[Width] = 1
  <2> DEFINE V == {1}
  <2>1. h[0] \in V /\ \A k \in 1..Width : h[k - 1] \in V => h[k] \in V
    BY <1>11, <1>12
  <2>2. \A k \in 0..Width : h[k] \in V
    <3> HIDE DEF h, V
    <3> QED
      BY <2>1, WordSize, CountedIn
  <2> QED
    BY <2>2, WordSize
<1>14. Holds(Width)
  BY <1>13, WordSize
<1>15. borrow[0] \in {-1, 0} /\ Place(Width) \in Nat
  BY <1>5, WordSize, PlaceValues
<1>16. IntOf(a) \in Nat /\ IntOf(b) \in Nat /\ IntOf(s) \in Nat
  BY <1>8, <1>9, <1>10, WordSize
<1>17. IntOf(s) + IntOf(b) + borrow[0] * Modulus = IntOf(a)
  BY <1>5, <1>8, <1>9, <1>10, <1>14, <1>16, WordSize DEF Modulus
<1>18. OverflowingSub(a, b).word = s /\ OverflowingSub(a, b).overflow = (borrow[0] # 0)
  BY <1>1
<1>19. CASE borrow[0] # 0
  <2>1. borrow[0] = -1
    BY <1>15, <1>19
  <2>2. IntOf(s) + IntOf(b) = IntOf(a) + Modulus
    BY <1>15, <1>16, <1>17, <2>1 DEF Modulus
  <2> QED
    BY <1>7, <1>18, <1>19, <2>2
<1>20. CASE borrow[0] = 0
  <2>1. IntOf(s) + IntOf(b) = IntOf(a) + 0
    BY <1>15, <1>16, <1>17, <1>20 DEF Modulus
  <2> QED
    BY <1>7, <1>18, <1>20, <2>1
<1> QED
  BY <1>19, <1>20

\* A number that has a word is the value of its word.
LEMMA WordsValue ==
  ASSUME NEW n \in Nat, n < Modulus
  PROVE  WordOf(n) \in Word /\ IntOf(WordOf(n)) = n
<1> DEFINE w == WordOf(n)
<1>1. \A i \in 1..Width : w[i] = (n \div Place(Width - i)) % Digit
  BY DEF WordOf
<1>2. w \in Word
  <2>1. ASSUME NEW i \in 1..Width PROVE (n \div Place(Width - i)) % Digit \in 0..(Digit - 1)
    <3> DEFINE p == Place(Width - i)
    <3>1. p \in Nat /\ p >= 1
      <4>1. Width - i \in Nat
        BY WordSize
      <4> QED
        BY <4>1, PlaceValues
    <3> HIDE DEF p
    <3>2. n \div p \in Nat
      BY <3>1
    <3> QED
      BY <3>2, WordSize DEF p
  <2> QED
    BY <2>1 DEF WordOf, Word
<1>3. PICK v \in [0..Width -> Nat] : Valued(v, w) /\ IntOf(w) = v[Width]
  BY <1>2, ValueOf
<1> HIDE DEF w
<1> DEFINE Holds(k) == v[k] = n \div Place(Width - k)
           h == [k \in 0..Width |-> IF Holds(k) THEN 1 ELSE 0]
<1>4. h[0] = 1
  <2>1. Modulus = Place(Width - 0) /\ Modulus \in Nat /\ Modulus >= 1
    BY WordSize, PlaceValues DEF Modulus
  <2>2. n \div Modulus = 0
    BY <2>1
  <2>3. v[0] = 0
    BY <1>3 DEF Valued
  <2>4. Holds(0)
    BY <2>1, <2>2, <2>3
  <2> QED
    BY <2>4, WordSize
<1>5. ASSUME NEW k \in 1..Width, h[k - 1] = 1 PROVE h[k] = 1
  <2> DEFINE p == Place(Width - k)
             D == Digit
             m == n \div p
  <2>1. k \in 0..Width /\ k - 1 \in 0..Width /\ Width - k \in Nat /\ Width - (k - 1) = (Width - k) + 1
    BY WordSize
  <2>2. p \in Nat /\ p >= 1 /\ D \in Nat /\ D >= 2 /\ Place(Width - (k - 1)) = p * D
    BY <2>1, PlaceValues, WordSize
  <2>3. v[k - 1] = n \div (p * D)
    BY <1>5, <2>1, <2>2
  <2>4. v[k] = v[k - 1] * D + (m % D)
    <3>1. w[k] = m % D
      BY <1>1
    <3>2. v[k] = v[k - 1] * D + w[k]
      BY <1>3 DEF Valued
    <3> QED
      BY <3>1, <3>2
  <2> HIDE DEF p, D
  <2>5. n \div (p * D) = m \div D /\ m \in Nat
    BY <2>2
  <2> HIDE DEF m
  <2>6. (m \div D) * D + (m % D) = m
    <3> DEFINE q == m \div D
               r == m % D
    <3>1. m = D * q + r /\ q \in Nat /\ r \in Nat
      BY <2>2, <2>5
    <3> HIDE DEF q, r
    <3>2. D * q = q * D
      BY <2>2, <3>1
    <3> QED
      BY <2>5, <3>1, <3>2 DEF q, r
  <2>7. Holds(k)
    BY <2>3, <2>4, <2>5, <2>6 DEF m, p
  <2> QED
    BY <2>1, <2>7
<1>6. h[Width] = 1
  <2> DEFINE V == {1}
  <2>1. h[0] \in V /\ \A k \in 1..Width : h[k - 1] \in V => h[k] \in V
    BY <1>4, <1>5
  <2>2. \A k \in 0..Width : h[k] \in V
    <3> HIDE DEF h, V
    <3> QED
      BY <2>1, WordSize, CountedIn
  <2> QED
    BY <2>2, WordSize
<1>7. v[Width] = n \div Place(0)
  <2>1. Holds(Width) /\ Width - Width = 0
    BY <1>6, WordSize
  <2> QED
    BY <2>1
<1>8. v[Width] = n
  BY <1>7, PlaceValues
<1> QED
  BY <1>2, <1>3, <1>8 DEF w

LEMMA ValueIsNumber == (\A w \in Word : IntOf(w) \in Nat) /\ Zero \in Word /\ IntOf(Zero) = 0
<1>1. \A w \in Word : IntOf(w) \in Nat
  BY ValueOf, WordSize
<1>2. Zero \in Word /\ \A k \in 1..Width : Zero[k] = 0
  BY WordSize DEF Zero, Word
<1>3. PICK v \in [0..Width -> Nat] : Valued(v, Zero) /\ IntOf(Zero) = v[Width]
  BY <1>2, ValueOf
<1>4. v[0] = 0 /\ \A k \in 1..Width : v[k] = v[k - 1] * Digit + 0
  BY <1>2, <1>3 DEF Valued
<1> DEFINE V == {0}
<1>5. v[0] \in V /\ \A k \in 1..Width : v[k - 1] \in V => v[k] \in V
  BY <1>4, WordSize
<1>6. \A k \in 0..Width : v[k] \in V
  <2> HIDE DEF V
  <2> QED
    BY <1>5, WordSize, CountedIn
<1> QED
  BY <1>1, <1>2, <1>3, <1>6, WordSize
-----------------------------------------------------------------------------
(* AccountLedger: LowWordIsSum *)

LEMMA LowHalf ==
  /\ LowModulus \in Nat /\ LowModulus >= 1 /\ Modulus \in Nat /\ LowModulus <= Modulus
  /\ LowModulus <= Place(Width - 1)
  /\ \E q \in Nat : Modulus = q * LowModulus
<1> DEFINE h == Width \div 2
           r == Width - h
<1>1. h \in Nat /\ r \in Nat /\ Width - 1 \in Nat /\ h <= Width - 1 /\ r + h = Width /\ h <= Width
  BY WordSize
<1> HIDE DEF h, r
<1>2. Place(r + h) = Place(r) * Place(h) /\ Place(r) \in Nat /\ Place(h) \in Nat /\ Place(h) >= 1 /\ Place(Width) \in Nat
  BY <1>1, PlaceValues, WordSize
<1>3. Place(h) <= Place(Width - 1) /\ Place(h) <= Place(Width)
  BY <1>1, PlaceValues, WordSize
<1>4. LowModulus = Place(h) /\ Modulus = Place(Width)
  BY DEF LowModulus, Modulus, h
<1> QED
  BY <1>1, <1>2, <1>3, <1>4

LEMMA ModShift ==
  ASSUME NEW m \in Nat \ {0}, NEW x \in Int, NEW k \in Int
  PROVE  (x + k * m) % m = x % m
<1> DEFINE y == x + k * m
           q == x \div m
           r == x % m
           p == y \div m
           s == y % m
<1>1. y \in Int /\ k * m \in Int
  OBVIOUS
<1>2. q \in Int /\ r \in 0..(m - 1) /\ x = m * q + r
  OBVIOUS
<1>3. p \in Int /\ s \in 0..(m - 1) /\ y = m * p + s
  <2> HIDE DEF y
  <2> QED
    BY <1>1
<1>4. y = x + k * m
  OBVIOUS
<1> HIDE DEF y, q, r, p, s
<1> DEFINE d == (q + k) - p
<1>5. m * d = s - r /\ d \in Int
  BY <1>1, <1>2, <1>3, <1>4
<1> HIDE DEF d
<1>6. d = 0
  <2>1. CASE d >= 1
    <3>1. m * d >= m
      BY <1>5, <2>1
    <3> QED
      BY <1>2, <1>3, <1>5, <3>1
  <2>2. CASE d <= -1
    <3>1. m * d <= -m
      BY <1>5, <2>2
    <3> QED
      BY <1>2, <1>3, <1>5, <3>1
  <2> QED
    BY <1>5, <2>1, <2>2
<1>7. s = r
  BY <1>2, <1>3, <1>5, <1>6
<1> QED
  BY <1>7 DEF s, r, y

\* Two numbers with the same low half.
SameLow(x, y) == \E k \in Int : x = y + k * LowModulus

LEMMA SameLowAdds ==
  ASSUME NEW x \in Int, NEW y \in Int, SameLow(x, y), NEW m \in Int, NEW n \in Int, SameLow(m, n)
  PROVE  SameLow(x + m, y + n)
<1>1. PICK j \in Int : x = y + j * LowModulus
  BY DEF SameLow
<1>2. PICK k \in Int : m = n + k * LowModulus
  BY DEF SameLow
<1>3. LowModulus \in Int
  BY LowHalf
<1>4. j * LowModulus \in Int /\ k * LowModulus \in Int /\ (j + k) * LowModulus = j * LowModulus + k * LowModulus
  BY <1>3
<1>5. x + m = (y + n) + (j + k) * LowModulus
  BY <1>1, <1>2, <1>4
<1>6. j + k \in Int
  OBVIOUS
<1> QED
  BY <1>5, <1>6 DEF SameLow

LEMMA WholeIsLow == SameLow(0, 0) /\ SameLow(Modulus, 0) /\ SameLow(-Modulus, 0)
<1>1. PICK q \in Nat : Modulus = q * LowModulus
  BY LowHalf
<1>2. LowModulus \in Nat /\ Modulus \in Nat
  BY LowHalf
<1>3. Modulus = 0 + q * LowModulus /\ -Modulus = 0 + (-q) * LowModulus /\ 0 = 0 + 0 * LowModulus
  BY <1>1, <1>2
<1>4. q \in Int /\ -q \in Int /\ 0 \in Int
  OBVIOUS
<1> QED
  BY <1>3, <1>4 DEF SameLow

\* The word of an i64: its low half is the number, its first digit is 0.
LEMMA SignedWord ==
  ASSUME NEW n \in Int
  PROVE  FromI64(n) \in Word /\ SameLow(IntOf(FromI64(n)), n) /\ ~IsNegative(FromI64(n))
<1> DEFINE L == LowModulus
           m == n % L
           w == FromI64(n)
<1>1. L \in Nat /\ L >= 1
  BY LowHalf
<1>2. m \in Nat /\ m < L /\ \E k \in Int : m = n + k * L
  <2> HIDE DEF L
  <2> DEFINE q == n \div L
  <2>1. n = L * q + m /\ q \in Int /\ m \in 0..(L - 1)
    BY <1>1
  <2> HIDE DEF q, m
  <2>2. L * q \in Int /\ (-q) * L = -(L * q) /\ -q \in Int
    BY <1>1, <2>1
  <2>3. m = n + (-q) * L
    BY <2>1, <2>2
  <2> QED
    BY <1>1, <2>1, <2>2, <2>3
<1>3. w = WordOf(m) /\ m < Modulus
  BY <1>1, <1>2, LowHalf DEF FromI64
<1>4. w \in Word /\ IntOf(w) = m
  BY <1>2, <1>3, WordsValue
<1>5. ~IsNegative(w)
  <2> DEFINE p == Place(Width - 1)
  <2>1. w[1] = (m \div p) % Digit
    BY <1>3, WordSize DEF WordOf
  <2>2. p \in Nat /\ m < p
    <3>1. Width - 1 \in Nat
      BY WordSize
    <3>2. p \in Nat
      BY <3>1, PlaceValues
    <3>3. L <= p
      BY LowHalf
    <3> HIDE DEF L, m, p
    <3> QED
      BY <1>1, <1>2, <3>2, <3>3
  <2> HIDE DEF m, p, w
  <2>3. m \div p = 0
    BY <1>2, <2>2
  <2>4. w[1] = 0
    BY <2>1, <2>3, WordSize
  <2>5. ~(0 >= Digit \div 2)
    BY WordSize
  <2> QED
    BY <2>4, <2>5 DEF IsNegative
<1> QED
  BY <1>2, <1>4, <1>5 DEF SameLow

\* A change, whatever its sign, is added to the low half.
LEMMA BalanceChanged ==
  ASSUME NEW balance \in Word, NEW n \in Int, NEW sum \in Int, SameLow(IntOf(balance), sum)
  PROVE  LET new == UpdateBalance(balance, FromI64(n))
         IN  new.word \in Word /\ SameLow(IntOf(new.word), sum + n)
<1> DEFINE amount == FromI64(n)
           new == UpdateBalance(balance, amount)
           x == IntOf(balance)
           y == IntOf(amount)
           z == IntOf(new.word)
<1>1. amount \in Word /\ SameLow(y, n) /\ ~IsNegative(amount)
  BY SignedWord
<1>2. x \in Int /\ y \in Int /\ Modulus \in Nat
  BY <1>1, ValueIsNumber, LowHalf
<1>3. SameLow(x + y, sum + n)
  BY <1>1, <1>2, SameLowAdds
<1> HIDE DEF amount
<1>4. new.word \in Word /\ \E m \in {0, Modulus, -Modulus} : z = (x + y) + m
  <2>1. CASE IsPositive(amount)
    <3> DEFINE over == OverflowingAdd(balance, amount)
    <3>1. new = over
      BY <2>1 DEF UpdateBalance
    <3>2. over.word \in Word /\ IntOf(over.word) + (IF over.overflow THEN Modulus ELSE 0) = x + y
      BY <1>1, WordsAdded
    <3>3. IntOf(over.word) \in Nat
      BY <3>2, ValueIsNumber
    <3>4. z = IntOf(over.word)
      BY <3>1
    <3> HIDE DEF over, new, x, y, z
    <3>5. CASE over.overflow
      <4>1. z = (x + y) + (-Modulus)
        BY <1>2, <3>2, <3>3, <3>4, <3>5
      <4> QED
        BY <3>1, <3>2, <4>1
    <3>6. CASE ~over.overflow
      <4>1. z = (x + y) + 0
        BY <1>2, <3>2, <3>3, <3>4, <3>6
      <4> QED
        BY <3>1, <3>2, <4>1
    <3> QED
      BY <3>5, <3>6
  <2>2. CASE ~IsPositive(amount)
    <3> DEFINE rest == OverflowingSub(balance, amount)
    <3>1. new.word = rest.word
      BY <2>2 DEF UpdateBalance, OverflowingSub
    <3>2. rest.word \in Word /\ IntOf(rest.word) + y = x + (IF rest.overflow THEN Modulus ELSE 0)
      BY <1>1, WordsSubtracted
    <3>3. IntOf(rest.word) \in Nat /\ y = 0
      BY <1>1, <2>2, <3>2, ValueIsNumber DEF IsPositive
    <3>4. z = IntOf(rest.word)
      BY <3>1
    <3> HIDE DEF rest, new, x, y, z
    <3>5. CASE rest.overflow
      <4>1. z = (x + y) + Modulus
        BY <1>2, <3>2, <3>3, <3>4, <3>5
      <4> QED
        BY <3>1, <3>2, <4>1
    <3>6. CASE ~rest.overflow
      <4>1. z = (x + y) + 0
        BY <1>2, <3>2, <3>3, <3>4, <3>6
      <4> QED
        BY <3>1, <3>2, <4>1
    <3> QED
      BY <3>5, <3>6
  <2> QED
    BY <2>1, <2>2
<1> HIDE DEF new, x, y, z
<1>5. PICK m \in {0, Modulus, -Modulus} : z = (x + y) + m
  BY <1>4
<1>6. m \in Int /\ SameLow(m, 0) /\ 0 \in Int /\ x + y \in Int /\ sum + n \in Int
  BY <1>2, WholeIsLow
<1>7. SameLow((x + y) + m, (sum + n) + 0)
  BY <1>3, <1>6, SameLowAdds
<1>8. (sum + n) + 0 = sum + n
  OBVIOUS
<1>9. new.word \in Word /\ SameLow(z, sum + n)
  BY <1>4, <1>5, <1>7, <1>8
<1> QED
  BY <1>9 DEF z, new, amount

\* What a caller may have to do of a batch: what it adds to a balance is a number.
Kinds == {"balance", "nonce", "storage", "credit", "cache", "compute", "write"}
Addressed == {batch[i].address : batch \in Batches, i \in Nat}
Given == Int \cup {"root"} \cup {batch[i].nonce : batch \in Batches, i \in Nat}
           \cup {batch[i].slot : batch \in Batches, i \in Nat}
Todo == {s \in [kind : Kinds, address : Addressed, what : Given] : s.kind = "balance" => s.what \in Int}

Pended == /\ pending = [t \in Callers |-> pending[t]]
          /\ \A t \in Callers : "steps" \in DOMAIN pending[t] /\ pending[t].steps \in Seq(Todo)

Booked == /\ accounts = [a \in DOMAIN accounts |-> accounts[a]] /\ DOMAIN sums = DOMAIN accounts
          /\ \A a \in DOMAIN accounts :
               /\ "balance" \in DOMAIN accounts[a] /\ accounts[a].balance \in Word
               /\ sums[a] \in Int /\ SameLow(IntOf(accounts[a].balance), sums[a])

LedgerInv == Pended /\ Booked

LEMMA OnePart ==
  ASSUME NEW S, NEW kind, NEW address, NEW what,
         what # Nothing => [kind |-> kind, address |-> address, what |-> what] \in S
  PROVE  Part(kind, address, what) \in Seq(S)
<1>1. CASE what = Nothing
  BY <1>1 DEF Part
<1>2. CASE what # Nothing
  <2> DEFINE p == [kind |-> kind, address |-> address, what |-> what]
  <2>1. p \in S /\ Part(kind, address, what) = <<p>>
    BY <1>2 DEF Part
  <2> HIDE DEF p
  <2> QED
    BY <2>1
<1> QED
  BY <1>1, <1>2

LEMMA BatchTodo ==
  ASSUME NEW batch \in Batches
  PROVE  /\ FlattenSeq([i \in DOMAIN batch |-> ChangeSteps(batch[i])]) \in Seq(Todo)
         /\ FlattenSeq([i \in DOMAIN batch |-> DbSteps(batch[i])])
              \o Part("compute", batch[1].address, "root") \o Part("write", batch[1].address, "root") \in Seq(Todo)
<1>1. batch \in Seq(Range(batch)) /\ \A i \in DOMAIN batch : batch[i].amount \in Int \cup {Nothing}
  BY LedgerNumbers DEF Range
<1>2. Len(batch) \in Nat /\ DOMAIN batch = 1..Len(batch)
  BY <1>1
<1>3. ASSUME NEW i \in DOMAIN batch
      PROVE  ChangeSteps(batch[i]) \in Seq(Todo) /\ DbSteps(batch[i]) \in Seq(Todo)
  <2> DEFINE c == batch[i]
  <2>1. i \in Nat
    BY <1>2
  <2>2. c.address \in Addressed /\ c.nonce \in Given /\ c.slot \in Given /\ (c.amount # Nothing => c.amount \in Int /\ c.amount \in Given)
    <3>1. c.address \in Addressed
      BY <2>1 DEF Addressed
    <3>3. c.nonce \in Given /\ c.slot \in Given
      BY <2>1 DEF Given
    <3>4. c.amount # Nothing => c.amount \in Int /\ c.amount \in Given
      BY <1>1 DEF Given
    <3> QED
      BY <3>1, <3>3, <3>4
  <2> HIDE DEF c
  <2>3. /\ Part("balance", c.address, c.amount) \in Seq(Todo) /\ Part("nonce", c.address, c.nonce) \in Seq(Todo)
        /\ Part("storage", c.address, c.slot) \in Seq(Todo) /\ Part("credit", c.address, c.amount) \in Seq(Todo)
        /\ Part("cache", c.address, c.slot) \in Seq(Todo)
    BY <2>2, OnePart DEF Todo, Kinds
  <2> HIDE DEF Todo
  <2>4. ChangeSteps(c) \in Seq(Todo) /\ DbSteps(c) \in Seq(Todo)
    BY <2>3 DEF ChangeSteps, DbSteps
  <2> QED
    BY <2>4 DEF c
<1> DEFINE changes == [i \in DOMAIN batch |-> ChangeSteps(batch[i])]
           credits == [i \in DOMAIN batch |-> DbSteps(batch[i])]
           compute == Part("compute", batch[1].address, "root")
           write == Part("write", batch[1].address, "root")
<1>4. changes \in Seq(Seq(Todo)) /\ credits \in Seq(Seq(Todo))
  BY <1>2, <1>3
<1>5. compute \in Seq(Todo) /\ write \in Seq(Todo)
  <2>1. batch[1].address \in Addressed /\ "root" \in Given
    BY DEF Addressed, Given
  <2> QED
    BY <2>1, OnePart DEF Todo, Kinds
<1> HIDE DEF changes, credits, compute, write, Todo
<1>6. FlattenSeq(changes) \in Seq(Todo) /\ FlattenSeq(credits) \in Seq(Todo)
  BY <1>4, Flattened
<1>7. FlattenSeq(credits) \o compute \o write \in Seq(Todo)
  BY <1>5, <1>6
<1> QED
  BY <1>6, <1>7 DEF changes, credits, compute, write

LEMMA LedgerStart == LedgerInit => LedgerInv
<1> SUFFICES ASSUME LedgerInit PROVE LedgerInv
  OBVIOUS
<1>1. accounts = [a \in DOMAIN Genesis |-> [Fresh EXCEPT !.balance = Genesis[a]]]
      /\ sums = [a \in DOMAIN Genesis |-> IntOf(Genesis[a])]
  BY DEF LedgerInit
<1>2. ASSUME NEW a \in DOMAIN Genesis
      PROVE  /\ "balance" \in DOMAIN accounts[a] /\ accounts[a].balance \in Word
             /\ sums[a] \in Int /\ SameLow(IntOf(accounts[a].balance), sums[a])
  <2>1. Genesis[a] \in Word
    BY LedgerNumbers
  <2>2. accounts[a] = [balance |-> Genesis[a], nonce |-> 0] /\ sums[a] = IntOf(Genesis[a])
    BY <1>1 DEF Fresh
  <2>3. IntOf(Genesis[a]) \in Int
    BY <2>1, ValueIsNumber
  <2>4. IntOf(Genesis[a]) = IntOf(Genesis[a]) + 0 * LowModulus
    BY <2>3, LowHalf
  <2>5. SameLow(IntOf(Genesis[a]), IntOf(Genesis[a]))
    BY <2>4 DEF SameLow
  <2> QED
    BY <2>1, <2>2, <2>3, <2>5
<1>3. pending = [t \in Callers |-> [steps |-> << >>, root |-> << >>]]
  BY DEF LedgerInit
<1>4. Booked
  <2>1. DOMAIN accounts = DOMAIN Genesis /\ DOMAIN sums = DOMAIN Genesis /\ accounts = [a \in DOMAIN accounts |-> accounts[a]]
    BY <1>1
  <2> QED
    BY <1>2, <2>1 DEF Booked
<1>5. Pended
  <2>1. ASSUME NEW t \in Callers PROVE "steps" \in DOMAIN pending[t] /\ pending[t].steps = << >>
    BY <1>3
  <2>2. << >> \in Seq(Todo) /\ pending = [t \in Callers |-> pending[t]]
    BY <1>3
  <2> QED
    BY <2>1, <2>2 DEF Pended
<1> QED
  BY <1>4, <1>5 DEF LedgerInv

\* What is left to do stays of that kind, whatever part of it is done.
LEMMA TodoStays ==
  ASSUME Pended, NEW t \in Callers,
         \/ UNCHANGED pending
         \/ \E steps \in Seq(Todo) : pending' = [pending EXCEPT ![t].steps = steps]
         \/ \E steps \in Seq(Todo) : \E r : pending' = [pending EXCEPT ![t] = [steps |-> steps, root |-> r]]
  PROVE  Pended'
<1> HIDE DEF Todo
<1>1. CASE \E steps \in Seq(Todo) : pending' = [pending EXCEPT ![t].steps = steps]
  BY <1>1 DEF Pended
<1>2. CASE \E steps \in Seq(Todo) : \E r : pending' = [pending EXCEPT ![t] = [steps |-> steps, root |-> r]]
  <2>0. PICK steps \in Seq(Todo) : \E r : pending' = [pending EXCEPT ![t] = [steps |-> steps, root |-> r]]
    BY <1>2
  <2>1. PICK r : pending' = [pending EXCEPT ![t] = [steps |-> steps, root |-> r]]
    BY <2>0
  <2> DEFINE new == [steps |-> steps, root |-> r]
  <2>2. "steps" \in DOMAIN new /\ new.steps = steps
    OBVIOUS
  <2> HIDE DEF new
  <2>3. pending' = [pending EXCEPT ![t] = new]
    BY <2>1 DEF new
  <2> QED
    BY <2>2, <2>3 DEF Pended
<1>3. CASE UNCHANGED pending
  BY <1>3 DEF Pended
<1> QED
  BY <1>1, <1>2, <1>3

LEMMA PartDone ==
  ASSUME Pended, NEW t \in Callers,
         \/ UNCHANGED pending
         \/ GiveUp(t) \/ (NextPart(t) /\ pending[t].steps # << >>)
         \/ (ComputeStateRoot(t) /\ pending[t].steps # << >>) \/ WriteStateRoot(t)
  PROVE  Pended'
<1> DEFINE old == pending[t].steps
<1>1. old \in Seq(Todo) /\ << >> \in Seq(Todo)
  BY DEF Pended
<1>2. old # << >> => Tail(old) \in Seq(Todo)
  <2> HIDE DEF old
  <2> QED
    BY <1>1
<1>3. CASE GiveUp(t)
  BY <1>1, <1>3, TodoStays DEF GiveUp
<1>4. CASE NextPart(t) /\ old # << >>
  <2>1. pending' = [pending EXCEPT ![t].steps = Tail(old)]
    BY <1>4 DEF NextPart, Pended
  <2> QED
    BY <1>2, <1>4, <2>1, TodoStays
<1>5. CASE ComputeStateRoot(t) /\ old # << >>
  <2>1. PICK listing : pending' = [pending EXCEPT ![t] = [steps |-> Tail(old), root |-> listing]]
    BY <1>5 DEF ComputeStateRoot, Pended
  <2> QED
    BY <1>2, <1>5, <2>1, TodoStays
<1>6. CASE WriteStateRoot(t)
  <2>1. pending' = [pending EXCEPT ![t] = [steps |-> << >>, root |-> << >>]]
    BY <1>6 DEF WriteStateRoot
  <2> QED
    BY <1>1, <2>1, TodoStays
<1>7. CASE UNCHANGED pending
  BY <1>7, TodoStays
<1> QED
  BY <1>3, <1>4, <1>5, <1>6, <1>7

LEMMA BooksStay ==
  ASSUME Booked, NEW t \in Callers, Pended,
         ChangeBalance(t) \/ ChangeNonce(t)
  PROVE  Booked'
<1> DEFINE s == Head(pending[t].steps)
<1>1. ASSUME Doing(t, "balance") PROVE s.what \in Int
  <2>1. pending[t].steps \in Seq(Todo) /\ pending[t].steps # << >> /\ s.kind = "balance"
    BY <1>1 DEF Doing, Pended
  <2>2. s \in Todo
    <3> HIDE DEF Todo
    <3> QED
      BY <2>1
  <2> QED
    BY <2>1, <2>2 DEF Todo
<1> HIDE DEF s
<1>2. CASE UNCHANGED <<accounts, sums>>
  BY <1>2 DEF Booked
<1>3. CASE ChangeBalance(t) /\ ~UNCHANGED <<accounts, sums>>
  <2> DEFINE a == s.address
             new == UpdateBalance(accounts[a].balance, FromI64(s.what))
  <2>1. /\ s.what \in Int /\ a \in DOMAIN accounts
        /\ accounts' = [accounts EXCEPT ![a].balance = new.word]
        /\ sums' = [sums EXCEPT ![a] = @ + s.what]
    BY <1>1, <1>3 DEF ChangeBalance, s
  <2>2. new.word \in Word /\ SameLow(IntOf(new.word), sums[a] + s.what) /\ sums[a] \in Int
    BY <2>1, BalanceChanged DEF Booked
  <2> HIDE DEF new, a
  <2>3. DOMAIN accounts' = DOMAIN accounts /\ DOMAIN sums' = DOMAIN accounts' /\ accounts' = [b \in DOMAIN accounts' |-> accounts'[b]]
    BY <2>1 DEF Booked
  <2>4. ASSUME NEW b \in DOMAIN accounts'
        PROVE  /\ "balance" \in DOMAIN accounts'[b] /\ accounts'[b].balance \in Word
               /\ sums'[b] \in Int /\ SameLow(IntOf(accounts'[b].balance), sums'[b])
    <3>1. CASE b = a
      <4>1. sums'[a] = sums[a] + s.what
        BY <2>1, <2>3 DEF Booked
      <4>2. accounts'[a].balance = new.word /\ "balance" \in DOMAIN accounts'[a]
        BY <2>1, <2>3 DEF Booked
      <4> QED
        BY <2>1, <2>2, <3>1, <4>1, <4>2
    <3>2. CASE b # a
      <4>1. sums'[b] = sums[b] /\ accounts'[b] = accounts[b] /\ b \in DOMAIN accounts
        BY <2>1, <2>3, <3>2 DEF Booked
      <4> QED
        BY <4>1 DEF Booked
    <3> QED
      BY <3>1, <3>2
  <2> QED
    BY <2>3, <2>4 DEF Booked
<1>4. CASE ChangeNonce(t) /\ ~UNCHANGED <<accounts, sums>>
  BY <1>4 DEF ChangeNonce, Booked
<1> QED
  BY <1>2, <1>3, <1>4

LEMMA AccountMade ==
  ASSUME Booked, NEW a, CreateAccount(a) \/ IncrementNonce(a)
  PROVE  Booked'
<1>1. CASE CreateAccount(a)
  <2>1. accounts' = Bound(accounts, a, Fresh) /\ sums' = Bound(sums, a, 0)
    BY <1>1 DEF CreateAccount
  <2>2. DOMAIN accounts' = DOMAIN accounts \cup {a} /\ DOMAIN sums' = DOMAIN accounts'
        /\ accounts' = [b \in DOMAIN accounts' |-> accounts'[b]]
    BY <2>1 DEF Bound, Booked
  <2>3. ASSUME NEW b \in DOMAIN accounts'
        PROVE  /\ "balance" \in DOMAIN accounts'[b] /\ accounts'[b].balance \in Word
               /\ sums'[b] \in Int /\ SameLow(IntOf(accounts'[b].balance), sums'[b])
    <3>1. CASE b = a
      <4>1. accounts'[b] = Fresh /\ sums'[b] = 0
        BY <2>1, <2>2, <3>1 DEF Bound, Booked
      <4>2. "balance" \in DOMAIN Fresh /\ Fresh.balance = Zero
        BY DEF Fresh
      <4> QED
        BY <4>1, <4>2, ValueIsNumber, WholeIsLow
    <3>2. CASE b # a
      <4>1. accounts'[b] = accounts[b] /\ sums'[b] = sums[b] /\ b \in DOMAIN accounts
        BY <2>1, <2>2, <3>2 DEF Bound, Booked
      <4> QED
        BY <4>1 DEF Booked
    <3> QED
      BY <3>1, <3>2
  <2> QED
    BY <2>2, <2>3 DEF Booked
<1>2. CASE IncrementNonce(a)
  BY <1>2 DEF IncrementNonce, Booked
<1> QED
  BY <1>1, <1>2

LEMMA LedgerStep == LedgerInv /\ [LedgerNext]_ledgerVars => LedgerInv'
<1> SUFFICES ASSUME LedgerInv, [LedgerNext]_ledgerVars PROVE LedgerInv'
  OBVIOUS
<1>0. Pended /\ Booked
  BY DEF LedgerInv
<1>1. ASSUME UNCHANGED <<accounts, sums>> PROVE Booked'
  BY <1>0, <1>1 DEF Booked
<1>2. ASSUME UNCHANGED pending PROVE Pended'
  BY <1>0, <1>2 DEF Pended
<1>3. ASSUME NEW t \in Callers, ApplyChanges(t) \/ ApplyToDb(t) PROVE LedgerInv'
  <2>1. PICK batch \in Batches :
          \/ CallLedger(t, FlattenSeq([i \in DOMAIN batch |-> ChangeSteps(batch[i])]))
          \/ CallLedger(t, FlattenSeq([i \in DOMAIN batch |-> DbSteps(batch[i])])
               \o Part("compute", batch[1].address, "root") \o Part("write", batch[1].address, "root"))
    BY <1>3 DEF ApplyChanges, ApplyToDb
  <2>2. \E steps \in Seq(Todo) : pending' = [pending EXCEPT ![t].steps = steps]
    BY <2>1, BatchTodo DEF CallLedger
  <2>3. UNCHANGED <<accounts, sums>>
    BY <1>3 DEF ApplyChanges, ApplyToDb, managed
  <2> QED
    BY <1>0, <1>1, <2>2, <2>3, TodoStays DEF LedgerInv
<1>4. ASSUME NEW t \in Callers, ChangeBalance(t) \/ ChangeNonce(t) PROVE LedgerInv'
  <2>1. GiveUp(t) \/ (NextPart(t) /\ pending[t].steps # << >>)
    BY <1>4 DEF ChangeBalance, ChangeNonce, Doing
  <2>2. Pended'
    BY <1>0, <2>1, PartDone
  <2>3. Booked'
    BY <1>0, <1>4, BooksStay
  <2> QED
    BY <2>2, <2>3 DEF LedgerInv
<1>5. ASSUME NEW t \in Callers, ChangeStorage(t) \/ CreditAccount(t) \/ SetStorage(t) PROVE LedgerInv'
  <2>1. NextPart(t) /\ pending[t].steps # << >>
    BY <1>5 DEF ChangeStorage, CreditAccount, SetStorage, Doing
  <2>2. UNCHANGED <<accounts, sums>>
    BY <1>5 DEF ChangeStorage, CreditAccount, SetStorage, managed
  <2> QED
    BY <1>0, <1>1, <2>1, <2>2, PartDone DEF LedgerInv
<1>6. ASSUME NEW t \in Callers, ComputeStateRoot(t) \/ WriteStateRoot(t) PROVE LedgerInv'
  <2>1. pending[t].steps # << >>
    BY <1>6 DEF ComputeStateRoot, WriteStateRoot, Doing
  <2>2. UNCHANGED <<accounts, sums>>
    BY <1>6 DEF ComputeStateRoot, WriteStateRoot, managed
  <2> QED
    BY <1>0, <1>1, <1>6, <2>1, <2>2, PartDone DEF LedgerInv
<1>7. ASSUME NEW a, CreateAccount(a) \/ IncrementNonce(a) PROVE LedgerInv'
  <2>1. UNCHANGED pending
    BY <1>7 DEF CreateAccount, IncrementNonce
  <2>2. Booked'
    BY <1>0, <1>7, AccountMade
  <2> QED
    BY <1>2, <2>1, <2>2 DEF LedgerInv
<1>8. ASSUME UtxoCall \/ \E a \in Addresses : InsertAccount(a, Zero) \/ InsertAccount(a, Top) PROVE LedgerInv'
  <2>1. UNCHANGED <<accounts, sums>> /\ UNCHANGED pending
    BY <1>8 DEF UtxoCall, InsertAccount, managed
  <2> QED
    BY <1>1, <1>2, <2>1 DEF LedgerInv
<1>9. ASSUME UNCHANGED ledgerVars PROVE LedgerInv'
  BY <1>1, <1>2, <1>9 DEF LedgerInv, ledgerVars, managed
<1> QED
  BY <1>3, <1>4, <1>5, <1>6, <1>7, <1>8, <1>9 DEF LedgerNext

LEMMA LedgerAddsUp == AccountSpec => []LowWordIsSum
<1>1. LedgerInv => LowWordIsSum
  <2> SUFFICES ASSUME LedgerInv, NEW a \in DOMAIN accounts
               PROVE  IntOf(accounts[a].balance) % LowModulus = sums[a] % LowModulus
    BY DEF LowWordIsSum
  <2>1. sums[a] \in Int /\ \E k \in Int : IntOf(accounts[a].balance) = sums[a] + k * LowModulus
    BY DEF LedgerInv, Booked, SameLow
  <2>2. LowModulus \in Nat \ {0}
    BY LowHalf
  <2> QED
    BY <2>1, <2>2, ModShift
<1> QED
  BY <1>1, LedgerStart, LedgerStep, PTL DEF AccountSpec
-----------------------------------------------------------------------------
(* U256: SumsAreExact *)

\* What a word stands for is below the modulus; the largest word is just below it.
LEMMA WordsBounded == Modulus \in Nat /\ (\A w \in Word : IntOf(w) < Modulus) /\ Top \in Word /\ IntOf(Top) = Modulus - 1
<1>1. ASSUME NEW w \in Word, NEW v \in [0..Width -> Nat], Valued(v, w)
      PROVE  v[Width] < Modulus /\ (w = Top => v[Width] = Modulus - 1)
  <2> DEFINE Holds(k) == v[k] < Place(k) /\ (w = Top => v[k] = Place(k) - 1)
             h == [k \in 0..Width |-> IF Holds(k) THEN 1 ELSE 0]
             V == {1}
  <2>1. h[0] = 1
    <3>1. v[0] = 0 /\ Place(0) = 1
      BY <1>1, PlaceValues DEF Valued
    <3>2. Holds(0)
      BY <3>1
    <3> QED
      BY <3>2, WordSize
  <2>2. ASSUME NEW k \in 1..Width, h[k - 1] = 1 PROVE h[k] = 1
    <3> DEFINE p == Place(k - 1)
               x == v[k - 1]
               d == w[k]
               D == Digit
    <3>1. k \in 0..Width /\ k - 1 \in 0..Width /\ k - 1 \in Nat /\ (k - 1) + 1 = k
      BY WordSize
    <3>2. p \in Nat /\ Place(k) = p * D /\ D \in Nat /\ D >= 2
      BY <3>1, PlaceValues, WordSize
    <3>3. x \in Nat /\ v[k] = x * D + d
      BY <1>1, <3>1 DEF Valued
    <3>4. d \in Nat /\ d <= D - 1 /\ (w = Top => d = D - 1)
      BY WordSize DEF Word, Top
    <3>5. x < p /\ (w = Top => x = p - 1)
      BY <2>2, <3>1
    <3> HIDE DEF p, x, d, D
    <3>6. x * D <= (p - 1) * D /\ (p - 1) * D = p * D - D /\ x * D \in Nat /\ p * D \in Nat
      BY <3>2, <3>3, <3>5
    <3>7. v[k] < p * D /\ (w = Top => v[k] = p * D - 1)
      BY <3>2, <3>3, <3>4, <3>5, <3>6
    <3>8. Holds(k)
      BY <3>2, <3>7
    <3> QED
      BY <3>1, <3>8
  <2>3. h[0] \in V /\ \A k \in 1..Width : h[k - 1] \in V => h[k] \in V
    BY <2>1, <2>2
  <2>4. \A k \in 0..Width : h[k] \in V
    <3> HIDE DEF h, V
    <3> QED
      BY <2>3, WordSize, CountedIn
  <2>5. Holds(Width)
    BY <2>4, WordSize
  <2> QED
    BY <2>5 DEF Modulus
<1>2. Modulus \in Nat
  BY PlaceValues, WordSize DEF Modulus
<1>3. Top \in Word
  BY WordSize DEF Top, Word
<1>4. ASSUME NEW w \in Word PROVE IntOf(w) < Modulus /\ (w = Top => IntOf(w) = Modulus - 1)
  <2>1. PICK v \in [0..Width -> Nat] : Valued(v, w) /\ IntOf(w) = v[Width]
    BY ValueOf
  <2> QED
    BY <1>1, <2>1
<1> QED
  BY <1>2, <1>3, <1>4

\* The first digit that differs decides.
LEMMA LessIsLess ==
  ASSUME NEW a \in Word, NEW b \in Word, Less(a, b)
  PROVE  IntOf(a) < IntOf(b)
<1>1. PICK i \in 1..Width : a[i] < b[i] /\ \A j \in 1..(i - 1) : a[j] = b[j]
  BY DEF Less
<1>2. PICK va \in [0..Width -> Nat] : Valued(va, a) /\ IntOf(a) = va[Width]
  BY ValueOf
<1>3. PICK vb \in [0..Width -> Nat] : Valued(vb, b) /\ IntOf(b) = vb[Width]
  BY ValueOf
<1> DEFINE Holds(k) == IF k < i THEN va[k] = vb[k] ELSE va[k] < vb[k]
           h == [k \in 0..Width |-> IF Holds(k) THEN 1 ELSE 0]
           V == {1}
<1>4. h[0] = 1
  <2>1. Holds(0)
    BY <1>2, <1>3, WordSize DEF Valued
  <2> QED
    BY <2>1, WordSize
<1>5. ASSUME NEW k \in 1..Width, h[k - 1] = 1 PROVE h[k] = 1
  <2> DEFINE x == va[k - 1]
             y == vb[k - 1]
             A == a[k]
             B == b[k]
             D == Digit
  <2>1. k \in 0..Width /\ k - 1 \in 0..Width
    BY WordSize
  <2>2. x \in Nat /\ y \in Nat /\ va[k] = x * D + A /\ vb[k] = y * D + B
    BY <1>2, <1>3, <2>1 DEF Valued
  <2>3. A \in 0..(D - 1) /\ B \in 0..(D - 1) /\ D \in Nat /\ D >= 2
    BY WordSize DEF Word
  <2>4. Holds(k - 1)
    BY <1>5, <2>1
  <2>5. (k < i => A = B) /\ (k = i => A < B)
    BY <1>1, WordSize
  <2> HIDE DEF x, y, A, B, D
  <2>6. x * D \in Nat /\ y * D \in Nat
    BY <2>2, <2>3
  <2>7. CASE k < i
    <3>1. x = y
      BY <2>4, <2>7 DEF x, y
    <3>2. va[k] = vb[k]
      BY <2>2, <2>5, <2>7, <3>1
    <3> QED
      BY <2>1, <2>7, <3>2
  <2>8. CASE k = i
    <3>1. x = y
      BY <2>4, <2>8 DEF x, y
    <3>2. va[k] < vb[k]
      BY <2>2, <2>3, <2>5, <2>6, <2>8, <3>1
    <3> QED
      BY <2>1, <2>8, <3>2
  <2>9. CASE k > i
    <3>1. x < y
      BY <2>4, <2>9 DEF x, y
    <3>2. (x + 1) * D <= y * D /\ (x + 1) * D = x * D + D
      BY <2>2, <2>3, <3>1
    <3>3. va[k] < vb[k]
      BY <2>2, <2>3, <2>6, <3>2
    <3> QED
      BY <2>1, <2>9, <3>3
  <2> QED
    BY <2>7, <2>8, <2>9
<1>6. h[0] \in V /\ \A k \in 1..Width : h[k - 1] \in V => h[k] \in V
  BY <1>4, <1>5
<1>7. \A k \in 0..Width : h[k] \in V
  <2> HIDE DEF h, V
  <2> QED
    BY <1>6, WordSize, CountedIn
<1>8. Holds(Width)
  BY <1>7, WordSize
<1>9. va[Width] < vb[Width]
  <2>1. i <= Width /\ Width \in Nat /\ i \in Nat
    BY WordSize
  <2>2. ~(Width < i)
    BY <2>1
  <2> QED
    BY <1>8, <2>2
<1> QED
  BY <1>2, <1>3, <1>9

LEMMA WordsOrdered ==
  ASSUME NEW a \in Word, NEW b \in Word
  PROVE  Less(a, b) = (IntOf(a) < IntOf(b)) /\ (IntOf(a) = IntOf(b) => a = b)
<1>1. a # b => Less(a, b) \/ Less(b, a)
  <2> SUFFICES ASSUME a # b PROVE Less(a, b) \/ Less(b, a)
    OBVIOUS
  <2> DEFINE I == {i \in 1..Width : a[i] # b[i]}
  <2>1. I # {} /\ I \subseteq Nat
    <3>1. a \in [1..Width -> 0..(Digit - 1)] /\ b \in [1..Width -> 0..(Digit - 1)]
      BY DEF Word
    <3>2. a = [i \in 1..Width |-> a[i]] /\ b = [i \in 1..Width |-> b[i]]
      BY <3>1
    <3>3. I = {} => \A i \in 1..Width : a[i] = b[i]
      OBVIOUS
    <3> QED
      BY <3>2, <3>3
  <2> DEFINE m == Min(I)
  <2>2. m \in I /\ \A i \in I : m <= i
    <3> HIDE DEF I
    <3> QED
      BY <2>1, LeastOf
  <2> HIDE DEF m
  <2>3. m \in 1..Width /\ a[m] # b[m] /\ \A j \in 1..(m - 1) : a[j] = b[j]
    BY <2>2, WordSize
  <2>4. a[m] \in Int /\ b[m] \in Int
    BY <2>3, WordSize DEF Word
  <2>5. a[m] < b[m] \/ b[m] < a[m]
    BY <2>3, <2>4
  <2> QED
    BY <2>3, <2>5 DEF Less
<1>2. IntOf(a) \in Int /\ IntOf(b) \in Int
  BY ValueIsNumber
<1>3. Less(a, b) \in BOOLEAN
  BY DEF Less
<1> QED
  BY <1>1, <1>2, <1>3, LessIsLess

\* The word of a number is the only one that stands for it.
LEMMA OnlyWord ==
  ASSUME NEW w \in Word
  PROVE  WordOf(IntOf(w)) = w
<1>1. IntOf(w) \in Nat /\ IntOf(w) < Modulus
  BY ValueIsNumber, WordsBounded
<1>2. WordOf(IntOf(w)) \in Word /\ IntOf(WordOf(IntOf(w))) = IntOf(w)
  BY <1>1, WordsValue
<1> QED
  BY <1>2, WordsOrdered

\* Saturating sums and differences stop at the ends of the words.
LEMMA TwoNumbers ==
  ASSUME NEW a \in Int, NEW b \in Int
  PROVE  Min({a, b}) = (IF a <= b THEN a ELSE b) /\ Max({a, b}) = (IF a >= b THEN a ELSE b)
<1>1. Min({a, b}) = (IF a <= b THEN a ELSE b)
  <2> DEFINE m == IF a <= b THEN a ELSE b
  <2>1. m \in {a, b} /\ \A y \in {a, b} : m <= y
    OBVIOUS
  <2>2. \A x \in {a, b} : (\A y \in {a, b} : x <= y) => x = m
    OBVIOUS
  <2> QED
    BY <2>1, <2>2 DEF Min
<1>2. Max({a, b}) = (IF a >= b THEN a ELSE b)
  <2> DEFINE m == IF a >= b THEN a ELSE b
  <2>1. m \in {a, b} /\ \A y \in {a, b} : m >= y
    OBVIOUS
  <2>2. \A x \in {a, b} : (\A y \in {a, b} : x >= y) => x = m
    OBVIOUS
  <2> QED
    BY <2>1, <2>2 DEF Max
<1> QED
  BY <1>1, <1>2

LEMMA SumIsExact ==
  ASSUME NEW a \in Word, NEW b \in Word
  PROVE  LET x == IntOf(a)
             y == IntOf(b)
         IN  /\ OverflowingAdd(a, b) = [word |-> WordOf((x + y) % Modulus), overflow |-> x + y >= Modulus]
             /\ IntOf(OverflowingAdd(a, b).word) = IF x + y >= Modulus THEN x + y - Modulus ELSE x + y
<1> DEFINE x == IntOf(a)
           y == IntOf(b)
           sum == OverflowingAdd(a, b)
           z == IntOf(sum.word)
           M == Modulus
<1>1. sum.word \in Word /\ sum.overflow \in BOOLEAN /\ z + (IF sum.overflow THEN M ELSE 0) = x + y
  BY WordsAdded
<1>2. x \in Nat /\ y \in Nat /\ z \in Nat /\ M \in Nat /\ x < M /\ y < M /\ z < M /\ M >= 1
  BY <1>1, ValueIsNumber, WordsBounded
<1>3. sum = [word |-> sum.word, overflow |-> sum.overflow]
  BY DEF OverflowingAdd
<1>4. WordOf(z) = sum.word
  BY <1>1, OnlyWord
<1> HIDE DEF sum, z, x, y, M
<1>5. sum.overflow = (x + y >= M) /\ z = (IF x + y >= M THEN x + y - M ELSE x + y)
  BY <1>1, <1>2
<1>6. (x + y) % M = z
  <2>1. CASE x + y >= M
    <3>1. x + y = z + 1 * M /\ z % M = z
      BY <1>2, <1>5, <2>1
    <3>2. M \in Nat \ {0} /\ z \in Int /\ 1 \in Int
      BY <1>2
    <3>3. (z + 1 * M) % M = z % M
      BY <3>2, ModShift
    <3> QED
      BY <3>1, <3>3
  <2>2. CASE ~(x + y >= M)
    BY <1>2, <1>5, <2>2
  <2> QED
    BY <2>1, <2>2
<1> QED
  BY <1>3, <1>4, <1>5, <1>6 DEF sum, z, x, y, M

LEMMA DifferenceIsExact ==
  ASSUME NEW a \in Word, NEW b \in Word
  PROVE  LET x == IntOf(a)
             y == IntOf(b)
         IN  /\ OverflowingSub(a, b) = [word |-> WordOf((x - y) % Modulus), overflow |-> x < y]
             /\ IntOf(OverflowingSub(a, b).word) = IF x < y THEN x - y + Modulus ELSE x - y
<1> DEFINE x == IntOf(a)
           y == IntOf(b)
           rest == OverflowingSub(a, b)
           z == IntOf(rest.word)
           M == Modulus
<1>1. rest.word \in Word /\ rest.overflow \in BOOLEAN /\ z + y = x + (IF rest.overflow THEN M ELSE 0)
  BY WordsSubtracted
<1>2. x \in Nat /\ y \in Nat /\ z \in Nat /\ M \in Nat /\ x < M /\ y < M /\ z < M /\ M >= 1
  BY <1>1, ValueIsNumber, WordsBounded
<1>3. rest = [word |-> rest.word, overflow |-> rest.overflow]
  BY DEF OverflowingSub
<1>4. WordOf(z) = rest.word
  BY <1>1, OnlyWord
<1> HIDE DEF rest, z, x, y, M
<1>5. rest.overflow = (x < y) /\ z = (IF x < y THEN x - y + M ELSE x - y)
  BY <1>1, <1>2
<1>6. (x - y) % M = z
  <2>1. CASE x < y
    <3>1. x - y = z + (-1) * M /\ z % M = z
      BY <1>2, <1>5, <2>1
    <3>2. M \in Nat \ {0} /\ z \in Int /\ -1 \in Int
      BY <1>2
    <3>3. (z + (-1) * M) % M = z % M
      BY <3>2, ModShift
    <3> QED
      BY <3>1, <3>3
  <2>2. CASE ~(x < y)
    BY <1>2, <1>5, <2>2
  <2> QED
    BY <2>1, <2>2
<1> QED
  BY <1>3, <1>4, <1>5, <1>6 DEF rest, z, x, y, M

\* Sums, differences and the order of words.
LEMMA SumsAreNumbers == \A a, b \in Word : SumsAreExact(a, b)
<1> SUFFICES ASSUME NEW a \in Word, NEW b \in Word PROVE SumsAreExact(a, b)
  OBVIOUS
<1> DEFINE x == IntOf(a)
           y == IntOf(b)
           M == Modulus
<1>1. x \in Nat /\ y \in Nat /\ M \in Nat /\ x < M /\ y < M
  BY ValueIsNumber, WordsBounded
<1>2. /\ OverflowingAdd(a, b) = [word |-> WordOf((x + y) % M), overflow |-> x + y >= M]
      /\ OverflowingSub(a, b) = [word |-> WordOf((x - y) % M), overflow |-> x < y]
      /\ Less(a, b) = (x < y)
  BY SumIsExact, DifferenceIsExact, WordsOrdered
<1>3. IntOf(SaturatingAdd(a, b)) = Min({x + y, M - 1})
  <2>1. x + y \in Int /\ M - 1 \in Int
    BY <1>1
  <2>2. Min({x + y, M - 1}) = IF x + y <= M - 1 THEN x + y ELSE M - 1
    BY <2>1, TwoNumbers
  <2>3. IntOf(SaturatingAdd(a, b)) = IF x + y >= M THEN M - 1 ELSE x + y
    <3> DEFINE sum == OverflowingAdd(a, b)
    <3>1. SaturatingAdd(a, b) = IF sum.overflow THEN Top ELSE sum.word
      BY DEF SaturatingAdd
    <3>2. sum.overflow = (x + y >= M) /\ IntOf(sum.word) = IF x + y >= M THEN x + y - M ELSE x + y
      BY SumIsExact
    <3>3. IntOf(Top) = M - 1
      BY WordsBounded
    <3> HIDE DEF sum, x, y, M
    <3> QED
      BY <3>1, <3>2, <3>3
  <2> QED
    BY <1>1, <2>2, <2>3
<1>4. IntOf(SaturatingSub(a, b)) = Max({x - y, 0})
  <2>1. x - y \in Int /\ 0 \in Int
    BY <1>1
  <2>2. Max({x - y, 0}) = IF x - y >= 0 THEN x - y ELSE 0
    BY <2>1, TwoNumbers
  <2>3. IntOf(Zero) = 0
    BY ValueIsNumber
  <2>4. IntOf(SaturatingSub(a, b)) = IF x < y THEN 0 ELSE x - y
    <3> DEFINE rest == OverflowingSub(a, b)
    <3>1. SaturatingSub(a, b) = IF rest.overflow THEN Zero ELSE rest.word
      BY DEF SaturatingSub
    <3>2. rest.overflow = (x < y) /\ IntOf(rest.word) = IF x < y THEN x - y + M ELSE x - y
      BY DifferenceIsExact
    <3> HIDE DEF rest, x, y, M
    <3> QED
      BY <2>3, <3>1, <3>2
  <2> QED
    BY <1>1, <2>2, <2>4
<1> QED
  BY <1>2, <1>3, <1>4 DEF SumsAreExact
-----------------------------------------------------------------------------
(* U256: QuotientsAreExact *)

\* The word of a number that fits one digit.
Small(x) == [i \in 1..Width |-> IF i = Width THEN x ELSE 0]

LEMMA SmallValue ==
  ASSUME NEW x \in 0..(Digit - 1)
  PROVE  Small(x) \in Word /\ IntOf(Small(x)) = x /\ WordOf(x) = Small(x)
<1>1. Small(x) \in Word
  BY WordSize DEF Small, Word
<1>2. PICK v \in [0..Width -> Nat] : Valued(v, Small(x)) /\ IntOf(Small(x)) = v[Width]
  BY <1>1, ValueOf
<1> DEFINE h == [k \in 0..Width |-> IF k < Width THEN v[k] ELSE 0]
           V == {0}
<1>3. h[0] = 0
  BY <1>2, WordSize DEF Valued
<1>4. ASSUME NEW k \in 1..Width, h[k - 1] = 0 PROVE h[k] = 0
  <2>1. CASE k = Width
    BY <2>1, WordSize
  <2>2. CASE k # Width
    <3>1. k \in 0..Width /\ k - 1 \in 0..Width /\ k < Width /\ k - 1 < Width
      BY <2>2, WordSize
    <3>2. v[k - 1] = 0 /\ Small(x)[k] = 0
      BY <1>4, <2>2, <3>1 DEF Small
    <3>3. v[k] = 0 * Digit + 0
      BY <1>2, <3>2 DEF Valued
    <3> QED
      BY <3>1, <3>3, WordSize
  <2> QED
    BY <2>1, <2>2
<1>5. \A k \in 0..Width : h[k] \in V
  <2>1. h[0] \in V /\ \A k \in 1..Width : h[k - 1] \in V => h[k] \in V
    BY <1>3, <1>4
  <2> HIDE DEF h, V
  <2> QED
    BY <2>1, WordSize, CountedIn
<1>6. v[Width - 1] = 0
  <2>1. Width - 1 \in 0..Width /\ Width - 1 < Width
    BY WordSize
  <2> QED
    BY <1>5, <2>1
<1>7. v[Width] = x
  <2>1. Width \in 1..Width /\ Small(x)[Width] = x
    BY WordSize DEF Small
  <2>2. v[Width] = 0 * Digit + x
    BY <1>2, <1>6, <2>1 DEF Valued
  <2> QED
    BY <2>2, WordSize
<1> QED
  BY <1>1, <1>2, <1>7, OnlyWord

\* Digits of any size have a value; a digit counts for its place.
LEMMA ShlSmall ==
  ASSUME NEW b \in 1..(Digit \div 2), NEW r \in 0..(b - 1)
  PROVE  Shl(Small(r), 1) = Small(2 * r) /\ 2 * r + 1 <= Digit - 1 /\ r \in 0..(Digit - 1) /\ b \in 0..(Digit - 1)
<1> DEFINE D == Digit
           H == Power(2, Bits - 1)
<1>1. Bits \in Nat /\ Bits >= 1 /\ Bits - 1 \in Nat /\ D = 2 * H /\ H \in Nat /\ H >= 1
  <2>1. Bits \in Nat \ {0}
    BY WordAssumption
  <2>2. Bits - 1 \in Nat /\ (Bits - 1) + 1 = Bits
    BY <2>1
  <2>3. H \in Nat /\ Power(2, (Bits - 1) + 1) = H * 2
    BY <2>2, PowerSteps
  <2>4. H >= 1
    BY <2>2, PowerGrows
  <2> HIDE DEF H
  <2> QED
    BY <2>1, <2>2, <2>3, <2>4 DEF Digit
<1> HIDE DEF H, D
<1>2. D \div 2 = H
  BY <1>1
<1>3. b \in Nat /\ b <= H /\ r \in Nat /\ r < b
  BY <1>2 DEF D
<1>4. 2 * r + 1 <= D - 1 /\ r \in 0..(D - 1) /\ b \in 0..(D - 1)
  BY <1>1, <1>3
<1>5. CASE Bits = 1
  <2>1. H = 1
    <3>1. Power(2, 0) = 1
      BY PowerSteps
    <3> QED
      BY <1>5, <3>1 DEF H
  <2>2. r = 0
    BY <1>3, <2>1
  <2>3. Small(r) = Zero /\ Small(2 * r) = Zero
    BY <2>2 DEF Small, Zero
  <2>4. CASE 1 >= Bits * Width
    <3>1. Shl(Zero, 1) = Zero
      BY <2>4 DEF Shl
    <3> QED
      BY <1>4, <2>3, <3>1 DEF D
  <2>5. CASE ~(1 >= Bits * Width)
    <3>1. 1 \div Bits = 1 /\ 1 % Bits = 0
      BY <1>5
    <3>2. Shl(Zero, 1) = [i \in 1..Width |-> IF i > 1 THEN ((Zero[i - 1] * Power(2, 0)) % Digit) + 0 ELSE 0]
      BY <2>5, <3>1 DEF Shl
    <3>3. ASSUME NEW i \in 1..Width, i > 1 PROVE ((Zero[i - 1] * Power(2, 0)) % Digit) + 0 = 0
      <4>1. Zero[i - 1] = 0 /\ Power(2, 0) = 1
        <5>1. i - 1 \in 1..Width
          BY <3>3, WordSize
        <5> QED
          BY <5>1, PowerSteps DEF Zero
      <4> QED
        BY <4>1, WordSize
    <3>4. Shl(Zero, 1) = [i \in 1..Width |-> 0]
      BY <3>2, <3>3
    <3>5. Shl(Zero, 1) = Zero
      BY <3>4 DEF Zero
    <3> QED
      BY <1>4, <2>3, <3>5 DEF D
  <2> QED
    BY <2>4, <2>5
<1>6. CASE Bits # 1
  <2>1. 1 \div Bits = 0 /\ 1 % Bits = 1 /\ ~(1 >= Bits * Width)
    <3>1. Bits >= 2 /\ Width >= 1 /\ Width \in Nat
      BY <1>1, <1>6, WordSize
    <3>2. Bits * Width >= 2 * 1
      BY <1>1, <3>1
    <3> QED
      BY <1>1, <3>1, <3>2
  <2> DEFINE w == Small(r)
             Lower(i) == IF 1 > 0 /\ i - 0 > 1 THEN w[i - 0 - 1] \div Power(2, Bits - 1) ELSE 0
  <2>2. Shl(w, 1) = [i \in 1..Width |-> IF i > 0 THEN ((w[i - 0] * Power(2, 1)) % Digit) + Lower(i) ELSE 0]
    BY <2>1 DEF Shl
  <2>3. Power(2, 1) = 2
    BY PowerSteps
  <2>4. ASSUME NEW i \in 1..Width
        PROVE  (IF i > 0 THEN ((w[i - 0] * Power(2, 1)) % Digit) + Lower(i) ELSE 0) = Small(2 * r)[i]
    <3>1. i \in Nat /\ i > 0 /\ i - 0 = i
      BY WordSize
    <3>2. Lower(i) = 0
      <4>1. CASE i > 1
        <5>1. i - 0 - 1 \in 1..Width /\ i - 0 - 1 # Width
          BY <3>1, <4>1, WordSize
        <5>2. w[i - 0 - 1] = 0
          BY <5>1 DEF Small
        <5>3. 0 \div H = 0
          BY <1>1
        <5> QED
          BY <5>2, <5>3 DEF H
      <4>2. CASE ~(i > 1)
        BY <3>1, <4>2
      <4> QED
        BY <4>1, <4>2
    <3>3. CASE i = Width
      <4>1. w[i] = r /\ Small(2 * r)[i] = 2 * r
        BY <3>3 DEF Small
      <4>2. (r * 2) % D = 2 * r
        BY <1>1, <1>3, <1>4
      <4> HIDE DEF w, Lower
      <4> QED
        BY <1>3, <2>3, <3>1, <3>2, <4>1, <4>2 DEF D
    <3>4. CASE i # Width
      <4>1. w[i] = 0 /\ Small(2 * r)[i] = 0
        BY <3>4 DEF Small
      <4>2. (0 * 2) % D = 0
        BY <1>1
      <4> HIDE DEF w, Lower
      <4> QED
        BY <2>3, <3>1, <3>2, <4>1, <4>2 DEF D
    <3> QED
      BY <3>3, <3>4
  <2>5. Shl(w, 1) = [i \in 1..Width |-> Small(2 * r)[i]]
    <3> HIDE DEF w, Lower
    <3> QED
      BY <2>2, <2>4
  <2>6. Small(2 * r) = [i \in 1..Width |-> Small(2 * r)[i]]
    BY DEF Small
  <2> QED
    BY <1>4, <2>5, <2>6 DEF D
<1> QED
  BY <1>5, <1>6

\* A quotient in which the k-th bit is set as well.
BitSet(q, k) == [q EXCEPT ![(k \div Bits) + 1] = @ + Power(2, Bits - 1 - (k % Bits))]

\* One bit of a division: what is left and the next bit, less the divisor if it fits.
LEMMA BitDivided ==
  ASSUME NEW w, NEW b \in 1..(Digit \div 2), NEW r \in 0..(b - 1), NEW q, NEW k, Bit(w, k) \in {0, 1}
  PROVE  DivideBit(w, Small(b), [rest |-> Small(r), quotient |-> q], k) =
           IF 2 * r + Bit(w, k) >= b THEN [rest |-> Small(2 * r + Bit(w, k) - b), quotient |-> BitSet(q, k)]
           ELSE [rest |-> Small(2 * r + Bit(w, k)), quotient |-> q]
<1> DEFINE x == 2 * r + Bit(w, k)
           i == (k \div Bits) + 1
           acc == [rest |-> Small(r), quotient |-> q]
           more == [q EXCEPT ![i] = @ + Power(2, Bits - 1 - (k % Bits))]
           shifted == Shl(acc.rest, 1)
           rest == IF Bit(w, k) = 1 THEN OverflowingAdd(shifted, One).word ELSE shifted
           fits == ~Less(rest, Small(b))
<1>1. shifted = Small(2 * r) /\ 2 * r + 1 <= Digit - 1 /\ r \in 0..(Digit - 1) /\ b \in 0..(Digit - 1)
  BY ShlSmall
<1>2. Digit \in Nat /\ Digit >= 2 /\ r \in Nat /\ b \in Nat /\ r < b
  BY <1>1, WordSize
<1>3. x \in 0..(Digit - 1) /\ 2 * r \in 0..(Digit - 1) /\ 1 \in 0..(Digit - 1) /\ x < 2 * b
  BY <1>1, <1>2
<1>4. rest = Small(x)
  <2>1. CASE Bit(w, k) = 0
    <3>1. x = 2 * r
      BY <1>2, <2>1
    <3>2. rest = shifted
      BY <2>1
    <3> HIDE DEF x, shifted, rest
    <3> QED
      BY <1>1, <3>1, <3>2
  <2>2. CASE Bit(w, k) = 1
    <3> DEFINE s == Small(2 * r)
               sum == OverflowingAdd(s, One)
    <3>1. One = Small(1)
      BY DEF One, Small
    <3>2. s \in Word /\ One \in Word /\ IntOf(s) = 2 * r /\ IntOf(One) = 1
      BY <1>3, <3>1, SmallValue
    <3>3. sum.word \in Word /\ sum.word = WordOf((2 * r + 1) % Modulus)
      BY <3>2, WordsAdded, SumIsExact
    <3>4. Small(2 * r + 1) \in Word /\ IntOf(Small(2 * r + 1)) = 2 * r + 1 /\ WordOf(2 * r + 1) = Small(2 * r + 1)
      <4>1. 2 * r + 1 \in 0..(Digit - 1)
        BY <1>1, <1>2
      <4> QED
        BY <4>1, SmallValue
    <3>5. 2 * r + 1 < Modulus /\ Modulus \in Nat
      BY <3>4, WordsBounded
    <3>6. (2 * r + 1) % Modulus = 2 * r + 1
      BY <1>2, <3>5
    <3>7. rest = sum.word
      BY <1>1, <2>2
    <3>8. x = 2 * r + 1
      BY <2>2
    <3> HIDE DEF x, rest, sum, s
    <3> QED
      BY <3>3, <3>4, <3>6, <3>7, <3>8
  <2> QED
    BY <2>1, <2>2
<1>5. Small(x) \in Word /\ Small(b) \in Word /\ IntOf(Small(x)) = x /\ IntOf(Small(b)) = b
  BY <1>1, <1>3, SmallValue
<1>6. fits = (x >= b)
  <2>1. Less(Small(x), Small(b)) = (x < b)
    BY <1>5, WordsOrdered
  <2>2. fits = ~(x < b)
    <3> HIDE DEF x, rest
    <3> QED
      BY <1>4, <2>1
  <2>3. ~(x < b) = (x >= b)
    <3> HIDE DEF x
    <3> QED
      BY <1>2, <1>3
  <2> HIDE DEF x, fits
  <2> QED
    BY <2>2, <2>3
<1>7. x >= b => OverflowingSub(Small(x), Small(b)).word = Small(x - b)
  <2> SUFFICES ASSUME x >= b PROVE OverflowingSub(Small(x), Small(b)).word = Small(x - b)
    OBVIOUS
  <2> HIDE DEF x
  <2>1. x - b \in 0..(Digit - 1)
    BY <1>2, <1>3
  <2>2. Small(x - b) \in Word /\ IntOf(Small(x - b)) = x - b /\ WordOf(x - b) = Small(x - b)
    BY <2>1, SmallValue
  <2>3. x - b < Modulus /\ Modulus \in Nat
    BY <2>2, WordsBounded
  <2>4. (x - b) % Modulus = x - b
    BY <2>1, <2>3
  <2>5. OverflowingSub(Small(x), Small(b)).word = WordOf((x - b) % Modulus)
    BY <1>5, DifferenceIsExact
  <2> QED
    BY <2>2, <2>4, <2>5
<1>8. DivideBit(w, Small(b), acc, k) =
        [rest |-> IF fits THEN OverflowingSub(rest, Small(b)).word ELSE rest, quotient |-> IF fits THEN more ELSE q]
  BY DEF DivideBit
<1> HIDE DEF x, more, rest, fits, acc
<1>9. DivideBit(w, Small(b), acc, k) =
        IF x >= b THEN [rest |-> Small(x - b), quotient |-> more] ELSE [rest |-> Small(x), quotient |-> q]
  BY <1>4, <1>6, <1>7, <1>8
<1> QED
  BY <1>9 DEF x, more, acc, BitSet

LEMMA QuotientOnly ==
  ASSUME NEW d \in Nat \ {0}, NEW q \in Int, NEW r \in 0..(d - 1), NEW n, n = d * q + r
  PROVE  n \div d = q /\ n % d = r
<1> DEFINE p == n \div d
           s == n % d
<1>1. n \in Int /\ d * q \in Int
  OBVIOUS
<1>2. p \in Int /\ s \in 0..(d - 1) /\ n = d * p + s
  BY <1>1
<1> HIDE DEF p, s
<1> DEFINE e == q - p
<1>3. d * e = d * q - d * p /\ e \in Int /\ d * p \in Int
  BY <1>2
<1>4. d * e = s - r
  BY <1>1, <1>2, <1>3
<1> HIDE DEF e
<1>5. e = 0
  <2>1. CASE e >= 1
    <3>1. d * e >= d
      BY <1>3, <2>1
    <3> QED
      BY <1>2, <1>4, <3>1
  <2>2. CASE e <= -1
    <3>1. d * e <= -d
      BY <1>3, <2>2
    <3> QED
      BY <1>2, <1>4, <3>1
  <2> QED
    BY <1>3, <2>1, <2>2
<1>6. q = p /\ d * e = 0
  BY <1>2, <1>5 DEF e
<1> QED
  BY <1>1, <1>2, <1>4, <1>6 DEF p, s

\* What the first digit of a quotient by twice a number says of that by the number.
LEMMA HalfQuotient ==
  ASSUME NEW n \in Nat, NEW d \in Nat \ {0}
  PROVE  /\ n \div d \in Nat /\ (n \div d) % 2 \in {0, 1}
         /\ n \div d = 2 * (n \div (2 * d)) + ((n \div d) % 2)
<1> DEFINE q == n \div d
           r == n % d
           h == q \div 2
           t == q % 2
<1>1. q \in Nat /\ r \in 0..(d - 1) /\ n = d * q + r
  OBVIOUS
<1> HIDE DEF q, r
<1>2. h \in Nat /\ t \in {0, 1} /\ q = 2 * h + t
  BY <1>1
<1> HIDE DEF h, t
<1>3. d * q = (2 * d) * h + d * t /\ d * t \in {0, d} /\ (2 * d) * h \in Nat
  BY <1>1, <1>2
<1>4. n = (2 * d) * h + (d * t + r) /\ d * t + r \in 0..(2 * d - 1)
  BY <1>1, <1>2, <1>3
<1>5. n \div (2 * d) = h
  <2> DEFINE e == 2 * d
             s == d * t + r
  <2>1. e \in Nat \ {0} /\ h \in Int /\ s \in 0..(e - 1) /\ n = e * h + s
    BY <1>2, <1>4
  <2> HIDE DEF e, s
  <2>2. n \div e = h
    BY <2>1, QuotientOnly
  <2> QED
    BY <2>2 DEF e
<1> QED
  BY <1>1, <1>2, <1>5 DEF q, t

LEMMA BitSize == Bits \in Nat /\ Bits >= 1 /\ Bits * Width \in Nat /\ Bits * Width >= 1
<1>1. \A m, n \in Nat \ {0} : m * n \in Nat /\ m * n >= 1
  OBVIOUS
<1> QED
  BY <1>1, WordAssumption

\* Which bit of which digit is the next, and which the one after it.
LEMMA BitPlace ==
  ASSUME NEW k \in 0..(Bits * Width - 1)
  PROVE  LET i == k \div Bits
             j == k % Bits
         IN  /\ i \in 0..(Width - 1) /\ j \in 0..(Bits - 1) /\ k = Bits * i + j
             /\ j + 1 < Bits => (k + 1) \div Bits = i /\ (k + 1) % Bits = j + 1
             /\ j + 1 = Bits => (k + 1) \div Bits = i + 1 /\ (k + 1) % Bits = 0
<1> DEFINE i == k \div Bits
           j == k % Bits
<1>1. Bits \in Nat \ {0} /\ Width \in Nat \ {0} /\ k \in Nat /\ k < Bits * Width /\ Bits * Width \in Nat
  BY WordAssumption
<1>2. i \in Nat /\ j \in 0..(Bits - 1) /\ k = Bits * i + j
  BY <1>1
<1> HIDE DEF i, j
<1>3. i \in 0..(Width - 1)
  <2> SUFFICES ASSUME i >= Width PROVE FALSE
    BY <1>1, <1>2
  <2>1. Bits * i >= Bits * Width
    BY <1>1, <1>2
  <2> QED
    BY <1>1, <1>2, <2>1
<1>4. ASSUME j + 1 < Bits PROVE (k + 1) \div Bits = i /\ (k + 1) % Bits = j + 1
  <2>1. k + 1 = Bits * i + (j + 1) /\ j + 1 \in 0..(Bits - 1) /\ i \in Int
    <3>1. Bits * i \in Nat
      BY <1>1, <1>2
    <3> QED
      BY <1>1, <1>2, <1>4, <3>1
  <2> DEFINE n == k + 1
             s == j + 1
  <2>2. n = Bits * i + s /\ s \in 0..(Bits - 1) /\ i \in Int
    BY <2>1
  <2> HIDE DEF n, s
  <2>3. n \div Bits = i /\ n % Bits = s
    BY <1>1, <2>2, QuotientOnly
  <2> QED
    BY <2>3 DEF n, s
<1>5. ASSUME j + 1 = Bits PROVE (k + 1) \div Bits = i + 1 /\ (k + 1) % Bits = 0
  <2>1. k + 1 = Bits * (i + 1) + 0 /\ 0 \in 0..(Bits - 1) /\ i + 1 \in Int
    <3>1. Bits * i \in Nat /\ Bits * (i + 1) = Bits * i + Bits
      BY <1>1, <1>2
    <3> QED
      BY <1>1, <1>2, <1>5, <3>1
  <2> QED
    BY <1>1, <2>1, QuotientOnly
<1> QED
  BY <1>2, <1>3, <1>4, <1>5 DEF i, j

\* Of a word the first k bits, of the digits that v adds up.
BitsRead(v, w, k) ==
  IF k % Bits = 0 THEN v[k \div Bits]
  ELSE v[k \div Bits] * Power(2, k % Bits) + (w[(k \div Bits) + 1] \div Power(2, Bits - (k % Bits)))

LEMMA NextBit ==
  ASSUME NEW w \in Word, NEW v \in [0..Width -> Nat], Valued(v, w), NEW k \in 0..(Bits * Width - 1)
  PROVE  /\ Bit(w, k) \in {0, 1} /\ BitsRead(v, w, k) \in Nat
         /\ BitsRead(v, w, k + 1) = 2 * BitsRead(v, w, k) + Bit(w, k)
<1> DEFINE i == k \div Bits
           j == k % Bits
           d == w[i + 1]
           m == Bits - 1 - j
           p == Power(2, m)
           z == Power(2, j)
           x == v[i]
<1>1. /\ i \in 0..(Width - 1) /\ j \in 0..(Bits - 1)
      /\ j + 1 < Bits => (k + 1) \div Bits = i /\ (k + 1) % Bits = j + 1
      /\ j + 1 = Bits => (k + 1) \div Bits = i + 1 /\ (k + 1) % Bits = 0
  BY BitPlace
<1>2. Bits \in Nat /\ Bits >= 1 /\ Width \in Nat /\ Width >= 1
  BY BitSize, WordSize
<1> HIDE DEF i, j
<1>3. i + 1 \in 1..Width /\ i \in 0..Width /\ i + 1 \in 0..Width /\ (i + 1) - 1 = i
  BY <1>1, <1>2
<1>4. d \in Nat /\ d < Digit /\ x \in Nat /\ v[i + 1] = x * Digit + d
  <2>1. d \in 0..(Digit - 1)
    BY <1>3 DEF Word
  <2>2. v[i + 1] = v[(i + 1) - 1] * Digit + d
    BY <1>3 DEF Valued
  <2> QED
    BY <1>3, <2>1, <2>2, WordSize
<1>5. m \in Nat /\ j \in Nat /\ m + 1 = Bits - j /\ m + j = Bits - 1 /\ j + (m + 1) = Bits
  BY <1>1, <1>2
<1> HIDE DEF d, m, x
<1>6. p \in Nat \ {0} /\ Power(2, Bits - j) = 2 * p
  <2>1. p \in Nat /\ Power(2, m + 1) = p * 2
    BY <1>5, PowerSteps
  <2>2. p >= 1
    BY <1>5, PowerGrows
  <2> HIDE DEF p
  <2> QED
    BY <1>5, <2>1, <2>2
<1>7. z \in Nat /\ Power(2, j + 1) = z * 2 /\ (j = 0 => z = 1)
  BY <1>5, PowerSteps
<1>8. Bit(w, k) = (d \div p) % 2
  BY DEF Bit, d, p, m, i, j
<1> HIDE DEF p, z
<1>9. d \div p \in Nat /\ Bit(w, k) \in {0, 1} /\ d \div p = 2 * (d \div (2 * p)) + Bit(w, k)
  BY <1>4, <1>6, <1>8, HalfQuotient
<1>10. BitsRead(v, w, k) = x * z + (d \div (2 * p))
  <2>1. CASE j # 0
    BY <1>6, <2>1 DEF BitsRead, i, j, x, d, z
  <2>2. CASE j = 0
    <3>1. BitsRead(v, w, k) = x
      BY <2>2 DEF BitsRead, i, j, x
    <3>2. 2 * p = Digit
      <4>1. Bits - j = Bits
        BY <1>2, <2>2
      <4> QED
        BY <1>6, <4>1 DEF Digit
    <3>3. d \div (2 * p) = 0
      <4>1. Digit \in Nat \ {0} /\ 0 \in Int /\ d \in 0..(Digit - 1) /\ d = Digit * 0 + d
        BY <1>4, WordSize
      <4> QED
        BY <3>2, <4>1, QuotientOnly
    <3> QED
      BY <1>4, <1>7, <2>2, <3>1, <3>3
  <2> QED
    BY <2>1, <2>2
<1> DEFINE h == d \div (2 * p)
<1>11. h \in Nat
  BY <1>4, <1>6
<1> HIDE DEF h
<1>12. x * z \in Nat /\ x * (z * 2) = 2 * (x * z)
  BY <1>4, <1>7
<1>13. BitsRead(v, w, k + 1) = 2 * (x * z) + (d \div p)
  <2>1. CASE j + 1 < Bits
    <3>1. (k + 1) % Bits # 0 /\ Bits - (j + 1) = m
      BY <1>1, <1>2, <2>1 DEF m
    <3>2. BitsRead(v, w, k + 1) = v[i] * Power(2, j + 1) + (w[i + 1] \div Power(2, Bits - (j + 1)))
      BY <1>1, <2>1, <3>1 DEF BitsRead
    <3>3. BitsRead(v, w, k + 1) = x * Power(2, j + 1) + (d \div p)
      BY <3>1, <3>2 DEF x, d, p
    <3> QED
      BY <1>7, <1>12, <3>3
  <2>2. CASE j + 1 = Bits
    <3>1. BitsRead(v, w, k + 1) = x * Digit + d
      BY <1>1, <1>4, <2>2 DEF BitsRead
    <3>2. m = 0
      BY <1>2, <1>5, <2>2
    <3>3. p = 1
      BY <3>2, PowerSteps DEF p
    <3>4. d \div p = d
      BY <1>4, <3>3
    <3>5. Digit = z * 2
      BY <1>7, <2>2 DEF Digit
    <3> QED
      BY <1>12, <3>1, <3>4, <3>5
  <2> QED
    BY <1>1, <1>2, <2>1, <2>2
<1> QED
  BY <1>9, <1>10, <1>11, <1>12, <1>13 DEF h

LEMMA PlacePower == \A n \in Nat : Place(n) = Power(2, Bits * n)
<1> DEFINE A == {n \in Nat : Place(n) = Power(2, Bits * n)}
<1>1. 0 \in A
  <2>1. Bits * 0 = 0 /\ Place(0) = 1 /\ Power(2, 0) = 1
    BY BitSize, PlaceValues, PowerSteps
  <2> QED
    BY <2>1
<1>2. ASSUME NEW n \in Nat, n \in A PROVE n + 1 \in A
  <2> DEFINE m == Bits * n
  <2>1. m \in Nat /\ Bits * (n + 1) = m + Bits /\ Bits \in Nat
    BY BitSize
  <2>2. Place(n) = Power(2, m)
    BY <1>2
  <2> HIDE DEF m
  <2>3. Place(n + 1) = Place(n) * Digit
    BY PlaceValues
  <2>4. Power(2, m + Bits) = Power(2, m) * Power(2, Bits)
    BY <2>1, PowerOfSum
  <2> QED
    BY <2>1, <2>2, <2>3, <2>4 DEF Digit
<1>3. Nat \subseteq A
  <2> HIDE DEF A
  <2> QED
    BY <1>1, <1>2, AllNumbers
<1> QED
  BY <1>3

\* A digit counts for its place.
LEMMA DigitCounts ==
  ASSUME NEW q \in [1..Width -> Nat], NEW i \in 1..Width, NEW x \in Nat
  PROVE  LET more == [q EXCEPT ![i] = @ + x]
         IN  more \in [1..Width -> Nat] /\ IntOf(q) \in Nat /\ IntOf(more) = IntOf(q) + x * Place(Width - i)
<1> DEFINE more == [q EXCEPT ![i] = @ + x]
<1>1. more \in [1..Width -> Nat] /\ more[i] = q[i] + x /\ \A k \in 1..Width : k # i => more[k] = q[k]
  BY WordSize
<1> HIDE DEF more
<1>2. PICK v \in [0..Width -> Nat] : Valued(v, q) /\ IntOf(q) = v[Width]
  BY ValueOfDigits
<1>3. PICK u \in [0..Width -> Nat] : Valued(u, more) /\ IntOf(more) = u[Width]
  BY <1>1, ValueOfDigits
<1> DEFINE Holds(k) == u[k] = IF k < i THEN v[k] ELSE v[k] + x * Place(k - i)
           h == [k \in 0..Width |-> IF Holds(k) THEN 1 ELSE 0]
           V == {1}
<1>4. i \in Nat /\ i >= 1 /\ i <= Width /\ Width \in Nat /\ Digit \in Nat
  BY WordSize
<1>5. h[0] = 1
  <2>1. u[0] = 0 /\ v[0] = 0
    BY <1>2, <1>3 DEF Valued
  <2> QED
    BY <1>4, <2>1
<1>6. ASSUME NEW k \in 1..Width, h[k - 1] = 1 PROVE h[k] = 1
  <2> DEFINE a == v[k - 1]
             b == u[k - 1]
             d == q[k]
             e == more[k]
  <2>1. k \in 0..Width /\ k - 1 \in 0..Width /\ k \in Nat /\ k - 1 \in Nat /\ k >= 1
    BY <1>4
  <2>2. a \in Nat /\ b \in Nat /\ d \in Nat /\ e \in Nat /\ v[k] = a * Digit + d /\ u[k] = b * Digit + e
    BY <1>1, <1>2, <1>3, <2>1 DEF Valued
  <2>3. Holds(k - 1)
    BY <1>6, <2>1
  <2>4. (k # i => e = d) /\ (k = i => e = d + x)
    BY <1>1
  <2> HIDE DEF d, e
  <2>5. CASE k < i
    <3>1. b = a
      BY <1>4, <2>1, <2>3, <2>5
    <3>2. u[k] = v[k]
      BY <2>2, <2>4, <2>5, <3>1, <1>4, <2>1
    <3> QED
      BY <2>1, <2>5, <3>2
  <2>6. CASE k = i
    <3>1. b = a
      BY <1>4, <2>1, <2>3, <2>6
    <3>2. Place(k - i) = 1
      BY <2>1, <2>6, PlaceValues
    <3> HIDE DEF a, b
    <3>3. u[k] = v[k] + x
      <4>1. a * Digit \in Nat
        BY <1>4, <2>2
      <4> QED
        BY <2>2, <2>4, <2>6, <3>1, <4>1
    <3>4. u[k] = v[k] + x * Place(k - i)
      BY <3>2, <3>3
    <3> QED
      BY <2>1, <2>6, <3>4
  <2>7. CASE k > i
    <3> DEFINE p == Place((k - 1) - i)
    <3>1. (k - 1) - i \in Nat /\ ((k - 1) - i) + 1 = k - i
      BY <1>4, <2>1, <2>7
    <3>2. b = a + x * p
      BY <1>4, <2>1, <2>3, <2>7
    <3>3. p \in Nat /\ Place(k - i) = p * Digit
      BY <3>1, PlaceValues
    <3> HIDE DEF a, b, p
    <3>4. (a + x * p) * Digit = a * Digit + x * (p * Digit) /\ a * Digit \in Nat /\ x * (p * Digit) \in Nat
      BY <1>4, <2>2, <3>3
    <3>5. u[k] = v[k] + x * Place(k - i)
      <4>1. u[k] = (a + x * p) * Digit + d
        BY <1>4, <2>1, <2>2, <2>4, <2>7, <3>2
      <4>2. u[k] = a * Digit + d + x * (p * Digit)
        BY <2>2, <3>4, <4>1
      <4>3. v[k] = a * Digit + d
        BY <2>2
      <4> QED
        BY <3>3, <4>2, <4>3
    <3> QED
      BY <2>1, <2>7, <3>5, <1>4
  <2> QED
    BY <1>4, <2>1, <2>5, <2>6, <2>7
<1>7. h[0] \in V /\ \A k \in 1..Width : h[k - 1] \in V => h[k] \in V
  BY <1>5, <1>6
<1>8. \A k \in 0..Width : h[k] \in V
  <2> HIDE DEF h, V
  <2> QED
    BY <1>7, WordSize, CountedIn
<1>9. Holds(Width)
  BY <1>4, <1>8
<1>10. u[Width] = v[Width] + x * Place(Width - i)
  BY <1>4, <1>9
<1>11. v[Width] \in Nat
  BY <1>4
<1> QED
  BY <1>1, <1>2, <1>3, <1>10, <1>11 DEF more

\* What a division by b may have reached.
Divided(b) == {[rest |-> Small(r), quotient |-> q] : r \in 0..(b - 1), q \in [1..Width -> Nat]}

LEMMA DividedSoFar ==
  ASSUME NEW b, NEW r \in 0..(b - 1), NEW q \in [1..Width -> Nat]
  PROVE  [rest |-> Small(r), quotient |-> q] \in Divided(b)
  BY DEF Divided

LEMMA BitStays ==
  ASSUME NEW w \in Word, NEW b \in 1..(Digit \div 2), NEW acc \in Divided(b), NEW k \in 0..(Bits * Width - 1)
  PROVE  DivideBit(w, Small(b), acc, k) \in Divided(b)
<1>1. PICK r \in 0..(b - 1), q \in [1..Width -> Nat] : acc = [rest |-> Small(r), quotient |-> q]
  BY DEF Divided
<1> DEFINE bit == Bit(w, k)
           x == 2 * r + bit
           more == BitSet(q, k)
<1>2. bit \in {0, 1}
  <2>1. PICK v \in [0..Width -> Nat] : Valued(v, w)
    BY ValueOf
  <2> QED
    BY <2>1, NextBit
<1>3. DivideBit(w, Small(b), acc, k) = IF x >= b THEN [rest |-> Small(x - b), quotient |-> more] ELSE [rest |-> Small(x), quotient |-> q]
  <2>1. DivideBit(w, Small(b), [rest |-> Small(r), quotient |-> q], k) =
          IF x >= b THEN [rest |-> Small(x - b), quotient |-> more] ELSE [rest |-> Small(x), quotient |-> q]
    BY <1>2, BitDivided
  <2> HIDE DEF x, more
  <2> QED
    BY <1>1, <2>1
<1>4. b \in Nat /\ r \in Nat /\ r < b
  BY WordSize
<1> HIDE DEF bit
<1>5. (x >= b => x - b \in 0..(b - 1)) /\ (~(x >= b) => x \in 0..(b - 1))
  BY <1>2, <1>4
<1>6. more \in [1..Width -> Nat]
  <2> DEFINE i == (k \div Bits) + 1
             y == Power(2, Bits - 1 - (k % Bits))
  <2>1. k \div Bits \in 0..(Width - 1) /\ k % Bits \in 0..(Bits - 1)
    BY BitPlace
  <2>2. i \in 1..Width /\ Bits - 1 - (k % Bits) \in Nat
    BY <2>1, WordSize, BitSize
  <2>3. y \in Nat
    BY <2>2, PowerSteps
  <2>4. more = [q EXCEPT ![i] = @ + y]
    BY DEF BitSet
  <2> HIDE DEF i, y, more
  <2> QED
    BY <2>2, <2>3, <2>4, DigitCounts
<1> HIDE DEF x, more
<1>7. CASE x >= b
  <2>1. [rest |-> Small(x - b), quotient |-> more] \in Divided(b)
    BY <1>5, <1>6, <1>7, DividedSoFar
  <2> QED
    BY <1>3, <1>7, <2>1
<1>8. CASE ~(x >= b)
  <2>1. [rest |-> Small(x), quotient |-> q] \in Divided(b)
    BY <1>5, <1>8, DividedSoFar
  <2> QED
    BY <1>3, <1>8, <2>1
<1> QED
  BY <1>7, <1>8

\* The fold of a division, bit by bit.
LEMMA Divides ==
  ASSUME NEW w \in Word, NEW b \in 1..(Digit \div 2), w # Zero
  PROVE  LET n == Bits * Width
         IN  \E g \in [0..n -> Divided(b)] :
               /\ g[0] = [rest |-> Zero, quotient |-> Zero]
               /\ \A k \in 0..(n - 1) : g[k + 1] = DivideBit(w, Small(b), g[k], k)
               /\ Div(w, Small(b)) = g[n].quotient
<1> DEFINE n == Bits * Width
           seq == [k \in 1..n |-> k - 1]
           D == DOMAIN seq
           start == [rest |-> Zero, quotient |-> Zero]
           V == Divided(b)
           Next1(f, s) == IF s = {} THEN start ELSE DivideBit(w, Small(b), f[s \ {Max(s)}], seq[Max(s)])
           iter == CHOOSE f : f = [s \in SUBSET D |-> Next1(f, s)]
           pick == [s \in SUBSET D |-> Max(s)]
           step == [p \in D \X V |-> DivideBit(w, Small(b), p[2], seq[p[1]])]
<1>1. n \in Nat /\ n >= 1 /\ D = 1..n /\ IsFiniteSet(D)
  <2>1. n \in Nat /\ n >= 1
    <3>1. Bits \in Nat \ {0} /\ Width \in Nat \ {0}
      BY WordAssumption
    <3> QED
      BY <3>1
  <2> QED
    BY <2>1, FS_Interval
<1>2. b \in Nat /\ b >= 1 /\ b \in 0..(Digit - 1) /\ b \in 1..(Digit \div 2)
  BY ShlSmall, WordSize
<1>3. Div(w, Small(b)) = iter[D].quotient
  <2>1. Small(b) # Zero
    <3>1. Small(b)[Width] = b /\ Zero[Width] = 0
      BY WordSize DEF Small, Zero
    <3> QED
      BY <1>2, <3>1
  <2> QED
    BY <2>1 DEF Div, FoldLeft, MapThenFoldSet
<1>4. start \in V
  <2>1. Small(0) = Zero /\ Zero \in [1..Width -> Nat] /\ 0 \in 0..(b - 1)
    BY <1>2, WordSize DEF Small, Zero
  <2> QED
    BY <2>1 DEF Divided
<1>5. Adds(step, D, V)
  <2>1. ASSUME NEW p \in D \X V PROVE DivideBit(w, Small(b), p[2], seq[p[1]]) \in V
    <3>1. p[1] \in 1..n /\ p[2] \in V
      BY <1>1, <2>1
    <3>2. seq[p[1]] \in 0..(n - 1)
      BY <1>1, <3>1
    <3> HIDE DEF seq, V
    <3> QED
      BY <3>1, <3>2, BitStays DEF V
  <2> QED
    BY <2>1 DEF Adds
<1>6. Picks(pick, D) /\ \A s \in SUBSET D : s # {} => Max(s) \in s
  BY <1>1, GreatestOf DEF Picks
<1> HIDE DEF n, D, V, start
<1>7. PICK f \in [SUBSET D -> V] : FoldsBy(f, D, start, step, pick)
  <2> HIDE DEF step, pick
  <2> QED
    BY <1>1, <1>4, <1>5, <1>6, FoldExists
<1>8. ASSUME NEW s \in SUBSET D PROVE f[s] = Next1(f, s)
  <2>1. s # {} => Max(s) \in D /\ f[s \ {Max(s)}] \in V
    BY <1>6, <1>7
  <2>2. f[s] = IF s = {} THEN start ELSE step[<<pick[s], f[s \ {pick[s]}]>>]
    BY <1>7 DEF FoldsBy
  <2> HIDE DEF seq
  <2> QED
    BY <2>1, <2>2
<1>9. f = [s \in SUBSET D |-> Next1(f, s)]
  <2> HIDE DEF Next1
  <2> QED
    BY <1>7, <1>8
<1>10. iter = [s \in SUBSET D |-> Next1(iter, s)]
  BY <1>9
<1> HIDE DEF iter
<1> DEFINE g == [k \in 0..n |-> iter[1..k]]
<1>11. g[0] = start
  <2>1. 1..0 = {} /\ {} \in SUBSET D /\ 0 \in 0..n
    BY <1>1
  <2>2. iter[{}] = Next1(iter, {})
    BY <1>10, <2>1
  <2> QED
    BY <2>1, <2>2
<1>12. ASSUME NEW k \in 0..(n - 1) PROVE g[k + 1] = DivideBit(w, Small(b), g[k], k)
  <2> DEFINE s == 1..(k + 1)
  <2>1. s \in SUBSET D /\ s # {} /\ k + 1 \in 0..n /\ k \in 0..n /\ k + 1 \in 1..n
    BY <1>1
  <2>2. Max(s) = k + 1
    <3>1. Max(s) \in s /\ \A e \in s : e <= Max(s)
      <4>1. s \in SUBSET D /\ s # {}
        BY <2>1
      <4> HIDE DEF s
      <4> QED
        BY <1>1, <4>1, GreatestOf
    <3> QED
      BY <1>1, <3>1, <2>1
  <2>3. s \ {Max(s)} = 1..k
    BY <2>1, <2>2, <1>1
  <2>4. seq[Max(s)] = k
    BY <1>1, <2>1, <2>2 DEF n
  <2>5. iter[s] = DivideBit(w, Small(b), iter[s \ {Max(s)}], seq[Max(s)])
    BY <1>10, <2>1
  <2>6. g[k + 1] = iter[s] /\ g[k] = iter[1..k]
    BY <2>1
  <2> HIDE DEF s, g, seq
  <2> QED
    BY <2>3, <2>4, <2>5, <2>6
<1>13. g \in [0..n -> V]
  <2> DEFINE ok == [k \in 0..n |-> g[k]]
  <2>1. g[0] \in V
    BY <1>4, <1>11
  <2>2. ASSUME NEW k \in 1..n, g[k - 1] \in V PROVE g[k] \in V
    <3>1. k - 1 \in 0..(n - 1) /\ (k - 1) + 1 = k
      BY <1>1
    <3> HIDE DEF g
    <3>2. g[k] = DivideBit(w, Small(b), g[k - 1], k - 1)
      BY <1>12, <3>1
    <3> QED
      BY <2>2, <3>1, <3>2, BitStays DEF n, V
  <2>3. \A k \in 0..n : g[k] \in V
    <3> HIDE DEF g
    <3> QED
      BY <1>1, <2>1, <2>2, CountedIn
  <2> QED
    BY <2>3
<1>14. g[n] = iter[D]
  BY <1>1
<1> HIDE DEF g
<1> QED
  BY <1>3, <1>11, <1>12, <1>13, <1>14 DEF n, V, start

\* After k bits the quotient so far, as often as the divisor says, and what is left are the bits read.
Reached(acc, v, w, b, k) ==
  \E q \in Nat, r \in 0..(b - 1), digits \in [1..Width -> Nat] :
    /\ acc = [rest |-> Small(r), quotient |-> digits]
    /\ IntOf(digits) = q * Power(2, Bits * Width - k)
    /\ q * b + r = BitsRead(v, w, k)

LEMMA NextReached ==
  ASSUME NEW w \in Word, NEW v \in [0..Width -> Nat], Valued(v, w), NEW b \in 1..(Digit \div 2),
         NEW k \in 0..(Bits * Width - 1), NEW acc, Reached(acc, v, w, b, k)
  PROVE  Reached(DivideBit(w, Small(b), acc, k), v, w, b, k + 1)
<1> DEFINE n == Bits * Width
           i == k \div Bits
           j == k % Bits
           bit == Bit(w, k)
           R == BitsRead(v, w, k)
           p == Power(2, n - (k + 1))
<1>1. PICK q \in Nat, r \in 0..(b - 1), digits \in [1..Width -> Nat] :
        /\ acc = [rest |-> Small(r), quotient |-> digits]
        /\ IntOf(digits) = q * Power(2, Bits * Width - k)
        /\ q * b + r = BitsRead(v, w, k)
  BY DEF Reached
<1>2. bit \in {0, 1} /\ R \in Nat /\ BitsRead(v, w, k + 1) = 2 * R + bit
  BY NextBit
<1>3. n \in Nat /\ k \in Nat /\ k < n /\ n - (k + 1) \in Nat /\ b \in Nat /\ b >= 1 /\ r \in Nat /\ r < b
  BY BitSize, WordSize
<1>4. p \in Nat /\ Power(2, n - k) = 2 * p
  <2>1. p \in Nat /\ Power(2, (n - (k + 1)) + 1) = p * 2
    BY <1>3, PowerSteps
  <2>2. (n - (k + 1)) + 1 = n - k
    BY <1>3
  <2> HIDE DEF p, n
  <2> QED
    BY <2>1, <2>2
<1> HIDE DEF bit, R, p
<1> DEFINE x == 2 * r + bit
           more == BitSet(digits, k)
<1>5. DivideBit(w, Small(b), acc, k) =
        IF x >= b THEN [rest |-> Small(x - b), quotient |-> more] ELSE [rest |-> Small(x), quotient |-> digits]
  <2>1. Bit(w, k) \in {0, 1}
    BY <1>2 DEF bit
  <2>2. DivideBit(w, Small(b), [rest |-> Small(r), quotient |-> digits], k) =
          IF x >= b THEN [rest |-> Small(x - b), quotient |-> more] ELSE [rest |-> Small(x), quotient |-> digits]
    BY <2>1, BitDivided DEF bit
  <2> HIDE DEF x, more
  <2> QED
    BY <1>1, <2>2
<1>6. more \in [1..Width -> Nat] /\ IntOf(digits) \in Nat /\ IntOf(more) = IntOf(digits) + p
  <2> DEFINE y == Power(2, Bits - 1 - j)
             place == Width - (i + 1)
  <2>1. i \in 0..(Width - 1) /\ j \in 0..(Bits - 1) /\ k = Bits * i + j
    BY BitPlace
  <2> HIDE DEF i, j
  <2>2. i + 1 \in 1..Width /\ Bits - 1 - j \in Nat /\ place \in Nat /\ Bits \in Nat /\ Width \in Nat
    BY <2>1, WordSize, BitSize
  <2>3. y \in Nat
    BY <2>2, PowerSteps
  <2>4. more = [digits EXCEPT ![i + 1] = @ + y]
    BY DEF BitSet, i, j
  <2>5. more \in [1..Width -> Nat] /\ IntOf(digits) \in Nat /\ IntOf(more) = IntOf(digits) + y * Place(place)
    <3> HIDE DEF y, more
    <3> QED
      BY <2>2, <2>3, <2>4, DigitCounts
  <2>6. y * Place(place) = p
    <3> DEFINE e == Bits - 1 - j
               f == Bits * place
    <3>1. e \in Nat /\ f \in Nat /\ Place(place) = Power(2, f)
      <4> HIDE DEF place
      <4> QED
        BY <2>2, PlacePower
    <3>2. e + f = n - (k + 1)
      <4>1. Bits * (Width - (i + 1)) = Bits * Width - Bits * i - Bits /\ Bits * i \in Nat
        BY <2>1, <2>2
      <4> QED
        BY <1>3, <2>1, <2>2, <4>1
    <3> HIDE DEF e, f, n, place
    <3>3. Power(2, e + f) = Power(2, e) * Power(2, f)
      BY <3>1, PowerOfSum
    <3> QED
      BY <3>1, <3>2, <3>3 DEF e, p
  <2> QED
    BY <2>5, <2>6
<1>7. IntOf(digits) = (2 * q) * p
  BY <1>1, <1>4 DEF n
<1>8. (2 * q) * b + x = 2 * R + bit /\ q * b \in Nat
  <2>1. q * b \in Nat /\ q * b + r = R
    BY <1>1, <1>3 DEF R
  <2>2. (2 * q) * b = 2 * (q * b)
    BY <1>3
  <2> QED
    BY <1>2, <1>3, <2>1, <2>2
<1>9. x \in Nat /\ x < 2 * b
  BY <1>2, <1>3
<1> HIDE DEF x, more
<1>10. CASE x >= b
  <2> DEFINE q1 == 2 * q + 1
             r1 == x - b
  <2>1. q1 \in Nat /\ r1 \in 0..(b - 1)
    BY <1>3, <1>9, <1>10
  <2>2. IntOf(more) = q1 * p
    BY <1>4, <1>6, <1>7
  <2>3. q1 * b + r1 = 2 * R + bit
    <3>1. q1 * b = (2 * q) * b + b /\ (2 * q) * b \in Nat
      BY <1>3
    <3> QED
      BY <1>2, <1>3, <1>8, <1>9, <3>1
  <2>4. DivideBit(w, Small(b), acc, k) = [rest |-> Small(r1), quotient |-> more]
    BY <1>5, <1>10
  <2> HIDE DEF q1, r1
  <2> QED
    BY <1>2, <1>6, <2>1, <2>2, <2>3, <2>4 DEF Reached, p, n
<1>11. CASE ~(x >= b)
  <2> DEFINE q1 == 2 * q
  <2>1. q1 \in Nat /\ x \in 0..(b - 1)
    BY <1>3, <1>9, <1>11
  <2>2. IntOf(digits) = q1 * p /\ q1 * b + x = 2 * R + bit
    BY <1>7, <1>8
  <2>3. DivideBit(w, Small(b), acc, k) = [rest |-> Small(x), quotient |-> digits]
    BY <1>5, <1>11
  <2> HIDE DEF q1
  <2> QED
    BY <1>2, <2>1, <2>2, <2>3 DEF Reached, p, n
<1> QED
  BY <1>10, <1>11

LEMMA QuotientIsExact ==
  ASSUME NEW w \in Word, NEW divisor \in Word, IntOf(divisor) \in 1..(Digit \div 2)
  PROVE  IntOf(Div(w, divisor)) = IntOf(w) \div IntOf(divisor)
<1> DEFINE b == IntOf(divisor)
           n == Bits * Width
<1>1. b \in 0..(Digit - 1) /\ 0 \in 0..(b - 1) /\ b \in Nat \ {0}
  <2>1. b \in 1..(Digit \div 2)
    OBVIOUS
  <2> HIDE DEF b
  <2>2. 0 \in 0..(b - 1)
    BY <2>1, WordSize
  <2> QED
    BY <2>1, <2>2, ShlSmall, WordSize
<1>2. divisor = Small(b)
  BY <1>1, OnlyWord, SmallValue
<1> HIDE DEF b
<1>3. CASE w = Zero
  <2>1. Div(w, divisor) = Zero
    BY <1>3 DEF Div
  <2>2. IntOf(Zero) = 0
    BY ValueIsNumber
  <2>3. 0 \div b = 0
    BY <1>1
  <2> QED
    BY <1>3, <2>1, <2>2, <2>3 DEF b
<1>4. CASE w # Zero
  <2>1. PICK v \in [0..Width -> Nat] : Valued(v, w) /\ IntOf(w) = v[Width]
    BY ValueOf
  <2>2. b \in 1..(Digit \div 2)
    BY DEF b
  <2>3. PICK g \in [0..n -> Divided(b)] :
               /\ g[0] = [rest |-> Zero, quotient |-> Zero]
               /\ \A k \in 0..(n - 1) : g[k + 1] = DivideBit(w, Small(b), g[k], k)
               /\ Div(w, Small(b)) = g[n].quotient
    BY <1>4, <2>2, Divides
  <2>4. n \in Nat /\ n >= 1 /\ Bits \in Nat \ {0} /\ Width \in Nat
    <3> HIDE DEF b
    <3> QED
      BY WordAssumption, BitSize
  <2> DEFINE h == [k \in 0..n |-> IF Reached(g[k], v, w, b, k) THEN 1 ELSE 0]
             V == {1}
  <2>5. h[0] = 1
    <3>1. Small(0) = Zero /\ Zero \in [1..Width -> Nat] /\ IntOf(Zero) = 0
      BY ValueIsNumber, WordSize DEF Small, Zero
    <3>2. BitsRead(v, w, 0) = 0
      <4>1. 0 % Bits = 0 /\ 0 \div Bits = 0
        BY <2>4
      <4> QED
        BY <2>1, <4>1 DEF BitsRead, Valued
    <3>3. 0 * b + 0 = 0 /\ 0 * Power(2, n - 0) = 0
      <4>1. Power(2, n) \in Nat /\ n - 0 = n
        BY <2>4, PowerSteps
      <4> QED
        BY <1>1, <4>1
    <3>4. g[0] = [rest |-> Small(0), quotient |-> Zero]
      BY <2>3, <3>1
    <3>5. Reached(g[0], v, w, b, 0)
      BY <1>1, <3>1, <3>2, <3>3, <3>4 DEF Reached
    <3> QED
      BY <2>4, <3>5
  <2>6. ASSUME NEW k \in 1..n, h[k - 1] = 1 PROVE h[k] = 1
    <3>1. k - 1 \in 0..(n - 1) /\ (k - 1) + 1 = k /\ k - 1 \in 0..n /\ k \in 0..n
      BY <2>4
    <3>2. Reached(g[k - 1], v, w, b, k - 1)
      BY <2>6, <3>1
    <3>3. g[k] = DivideBit(w, Small(b), g[k - 1], k - 1)
      BY <2>3, <3>1
    <3>4. Reached(g[k], v, w, b, k)
      <4> DEFINE m == k - 1
      <4>1. m \in 0..(Bits * Width - 1) /\ m + 1 = k /\ Reached(g[m], v, w, b, m) /\ g[k] = DivideBit(w, Small(b), g[m], m)
        BY <3>1, <3>2, <3>3
      <4> HIDE DEF m
      <4>2. Reached(DivideBit(w, Small(b), g[m], m), v, w, b, m + 1)
        BY <2>1, <2>2, <4>1, NextReached
      <4> QED
        BY <4>1, <4>2
    <3> QED
      BY <3>1, <3>4
  <2>7. \A k \in 0..n : h[k] \in V
    <3>1. h[0] \in V /\ \A k \in 1..n : h[k - 1] \in V => h[k] \in V
      BY <2>5, <2>6
    <3> HIDE DEF h, V
    <3> QED
      BY <2>4, <3>1, CountedIn
  <2>8. Reached(g[n], v, w, b, n)
    BY <2>4, <2>7
  <2>9. PICK q \in Nat, r \in 0..(b - 1), digits \in [1..Width -> Nat] :
          /\ g[n] = [rest |-> Small(r), quotient |-> digits]
          /\ IntOf(digits) = q * Power(2, n - n)
          /\ q * b + r = BitsRead(v, w, n)
    BY <2>8 DEF Reached
  <2>10. IntOf(Div(w, divisor)) = q
    <3>1. Div(w, divisor) = digits
      BY <1>2, <2>3, <2>9
    <3>2. n - n = 0 /\ Power(2, 0) = 1
      BY <2>4, PowerSteps
    <3> QED
      BY <2>9, <3>1, <3>2
  <2>11. BitsRead(v, w, n) = IntOf(w)
    <3>1. n \div Bits = Width /\ n % Bits = 0
      <4>1. Width \in Int /\ 0 \in 0..(Bits - 1) /\ n = Bits * Width + 0
        BY <2>4
      <4> HIDE DEF n
      <4> QED
        BY <2>4, <4>1, QuotientOnly
    <3> QED
      BY <2>1, <3>1 DEF BitsRead
  <2>12. IntOf(w) \div b = q
    <3>1. IntOf(w) = b * q + r /\ q \in Int
      BY <1>1, <2>9, <2>11
    <3> QED
      BY <1>1, <3>1, QuotientOnly
  <2> QED
    BY <2>10, <2>12 DEF b
<1> QED
  BY <1>3, <1>4

\* The first digit that is not zero, and its highest bit, bound a word.
LEMMA ZerosAreExact ==
  ASSUME NEW w \in Word, IntOf(w) > 0
  PROVE  LET zeros == LeadingZeros(w)
         IN  Power(2, Bits * Width - 1 - zeros) <= IntOf(w) /\ IntOf(w) < Power(2, Bits * Width - zeros)
<1> DEFINE I == {i \in 1..Width : w[i] # 0}
           first == Min({Width + 1} \cup I)
           d == w[first]
           K == {k \in 1..Bits : d >= Power(2, k - 1)}
           high == Max(K)
<1>1. PICK v \in [0..Width -> Nat] : Valued(v, w) /\ IntOf(w) = v[Width]
  BY ValueOf
<1>2. Width \in Nat /\ Width >= 1 /\ Digit \in Nat /\ Digit >= 2 /\ Bits \in Nat /\ Bits >= 1
  BY WordSize, BitSize
<1>3. I # {}
  <2> SUFFICES ASSUME I = {} PROVE FALSE
    OBVIOUS
  <2>1. \A i \in 1..Width : w[i] = 0
    OBVIOUS
  <2>2. w = Zero
    <3>1. w = [i \in 1..Width |-> w[i]]
      BY DEF Word
    <3> QED
      BY <2>1, <3>1 DEF Zero
  <2> QED
    BY <2>2, ValueIsNumber
<1>4. first \in I /\ \A i \in I : first <= i
  <2> DEFINE J == {Width + 1} \cup I
  <2>1. J \subseteq Nat /\ J # {}
    BY <1>2
  <2>2. Min(J) \in J /\ \A i \in J : Min(J) <= i
    <3> HIDE DEF J
    <3> QED
      BY <2>1, LeastOf
  <2>3. PICK i \in I : TRUE
    BY <1>3
  <2>4. i \in J /\ i <= Width
    BY <1>2, <2>3
  <2>5. Min(J) # Width + 1
    <3> HIDE DEF J
    <3> QED
      BY <1>2, <2>1, <2>2, <2>4
  <2> QED
    BY <2>2, <2>5
<1> HIDE DEF first
<1>5. first \in 1..Width /\ first \in Nat /\ d # 0 /\ \A i \in 1..(first - 1) : w[i] = 0
  BY <1>2, <1>4
<1>6. d \in Nat /\ d >= 1 /\ d < Digit
  <2>1. d \in 0..(Digit - 1)
    BY <1>5 DEF Word
  <2> HIDE DEF d
  <2> QED
    BY <1>2, <1>5, <2>1
<1> HIDE DEF d
<1>7. high \in 1..Bits /\ d >= Power(2, high - 1) /\ d < Power(2, high)
  <2>1. Power(2, 0) = 1 /\ 1 - 1 = 0 /\ 1 \in 1..Bits
    BY <1>2, PowerSteps
  <2>2. K # {} /\ K \subseteq 1..Bits /\ Bits \in Nat
    BY <1>2, <1>6, <2>1
  <2>3. high \in K /\ \A k \in K : k <= high
    <3> HIDE DEF K
    <3> QED
      BY <2>2, GreatestOf
  <2>4. d < Power(2, high)
    <3>1. high \in 1..Bits
      BY <2>3
    <3> HIDE DEF high
    <3>2. CASE high = Bits
      BY <1>6, <3>2 DEF Digit
    <3>3. CASE high # Bits
      <4>1. high + 1 \in 1..Bits /\ (high + 1) - 1 = high /\ high \in Nat
        BY <1>2, <3>1, <3>3
      <4>2. high + 1 \notin K
        BY <2>3, <4>1
      <4>3. ~(d >= Power(2, high))
        BY <4>1, <4>2
      <4>4. Power(2, high) \in Nat
        BY <4>1, PowerSteps
      <4> QED
        BY <1>6, <4>3, <4>4
    <3> QED
      BY <3>2, <3>3
  <2> QED
    BY <2>3, <2>4
<1> HIDE DEF high
<1> DEFINE n == Width - first
           s == Bits * n
<1>8. n \in Nat /\ s \in Nat /\ Bits * Width = s + Bits * first /\ Bits * first \in Nat
  <2>1. n \in Nat /\ Width = n + first
    BY <1>2, <1>5
  <2>2. Bits * (n + first) = Bits * n + Bits * first /\ Bits * n \in Nat /\ Bits * first \in Nat
    BY <1>2, <1>5, <2>1
  <2> HIDE DEF n
  <2> QED
    BY <2>1, <2>2
<1>9. LeadingZeros(w) = (first - 1) * Bits + (Bits - high)
  <2>1. ~(first > Width)
    BY <1>2, <1>5
  <2>2. LeadingZeros(w) = LET hi == IF first > Width THEN 0 ELSE high
                          IN  IF first > Width THEN Width * Bits ELSE (first - 1) * Bits + (Bits - hi)
    BY DEF LeadingZeros, first, high, d
  <2> QED
    BY <2>1, <2>2
<1>10. Bits * Width - LeadingZeros(w) = s + high /\ Bits * Width - 1 - LeadingZeros(w) = s + (high - 1)
  <2>1. (first - 1) * Bits = Bits * first - Bits
    BY <1>2, <1>5
  <2> DEFINE t == Bits * first
             N == Bits * Width
             y == (first - 1) * Bits
             zeros == LeadingZeros(w)
  <2>2. s \in Nat /\ t \in Nat /\ N = s + t /\ y = t - Bits /\ zeros = y + (Bits - high)
    BY <1>8, <1>9, <2>1
  <2>3. high \in Nat
    BY <1>2, <1>7
  <2> HIDE DEF n, s, t, N, y, zeros
  <2>4. N - zeros = s + high /\ N - 1 - zeros = s + (high - 1)
    BY <1>2, <2>2, <2>3
  <2> QED
    BY <2>4 DEF N, zeros
<1> DEFINE Holds(k) == IF k < first THEN v[k] = 0
                       ELSE d * Place(k - first) <= v[k] /\ v[k] < (d + 1) * Place(k - first)
           h == [k \in 0..Width |-> IF Holds(k) THEN 1 ELSE 0]
           V == {1}
<1>11. h[0] = 1
  BY <1>1, <1>2, <1>5 DEF Valued
<1>12. ASSUME NEW k \in 1..Width, h[k - 1] = 1 PROVE h[k] = 1
  <2> DEFINE x == v[k - 1]
             e == w[k]
             D == Digit
  <2>1. k \in Nat /\ k \in 0..Width /\ k - 1 \in 0..Width /\ k - 1 \in Nat
    BY <1>2
  <2>2. Holds(k - 1)
    BY <1>12, <2>1
  <2>3. x \in Nat /\ v[k] = x * D + e
    BY <1>1, <2>1 DEF Valued
  <2>4. e \in Nat /\ e <= D - 1
    <3>1. e \in 0..(D - 1)
      BY DEF Word
    <3> HIDE DEF e, D
    <3> QED
      BY <1>2, <3>1 DEF D
  <2>5. (k < first => e = 0) /\ (k = first => e = d)
    BY <1>5, <2>1 DEF d
  <2>6. D \in Nat /\ D >= 2
    BY <1>2
  <2> HIDE DEF e, D
  <2>7. CASE k < first
    <3>1. x = 0
      BY <1>5, <2>1, <2>2, <2>7
    <3>2. v[k] = 0
      BY <2>3, <2>5, <2>6, <2>7, <3>1
    <3> QED
      BY <2>1, <2>7, <3>2
  <2>8. CASE k = first
    <3>1. x = 0
      BY <1>5, <2>1, <2>2, <2>8
    <3>2. v[k] = d
      BY <1>6, <2>3, <2>5, <2>6, <2>8, <3>1
    <3>3. Place(k - first) = 1
      BY <1>5, <2>8, PlaceValues
    <3>4. d * Place(k - first) <= v[k] /\ v[k] < (d + 1) * Place(k - first)
      BY <1>6, <3>2, <3>3
    <3> QED
      BY <1>5, <2>1, <2>8, <3>4
  <2>9. CASE k > first
    <3> DEFINE p == Place((k - 1) - first)
    <3>1. (k - 1) - first \in Nat /\ ((k - 1) - first) + 1 = k - first
      BY <1>5, <2>1, <2>9
    <3>2. d * p <= x /\ x < (d + 1) * p
      BY <1>5, <2>1, <2>2, <2>9
    <3>3. p \in Nat /\ Place(k - first) = p * D
      BY <3>1, PlaceValues DEF D
    <3> HIDE DEF x, p
    <3> DEFINE a == d * p
               c == (d + 1) * p
    <3>4. a \in Nat /\ c \in Nat /\ d * (p * D) = a * D /\ (d + 1) * (p * D) = c * D
      BY <1>6, <2>6, <3>3
    <3>5. a <= x /\ x + 1 <= c
      BY <2>3, <3>2, <3>4
    <3> HIDE DEF a, c
    <3>6. a * D <= x * D /\ (x + 1) * D <= c * D /\ (x + 1) * D = x * D + D /\ x * D \in Nat /\ a * D \in Nat /\ c * D \in Nat
      BY <2>3, <2>6, <3>4, <3>5
    <3>7. a * D <= v[k] /\ v[k] < c * D
      BY <2>3, <2>4, <2>6, <3>6
    <3>8. d * Place(k - first) <= v[k] /\ v[k] < (d + 1) * Place(k - first)
      BY <3>3, <3>4, <3>7
    <3> QED
      BY <1>5, <2>1, <2>9, <3>8
  <2> QED
    BY <1>5, <2>1, <2>7, <2>8, <2>9
<1>13. \A k \in 0..Width : h[k] \in V
  <2>1. h[0] \in V /\ \A k \in 1..Width : h[k - 1] \in V => h[k] \in V
    BY <1>11, <1>12
  <2> HIDE DEF h, V
  <2> QED
    BY <2>1, WordSize, CountedIn
<1>14. d * Place(n) <= v[Width] /\ v[Width] < (d + 1) * Place(n)
  <2>1. Holds(Width)
    BY <1>2, <1>13
  <2>2. ~(Width < first)
    BY <1>2, <1>5
  <2> QED
    BY <2>1, <2>2
<1> DEFINE p == Place(n)
           a == Power(2, high - 1)
           c == Power(2, high)
<1>15. p \in Nat /\ a \in Nat /\ c \in Nat /\ Power(2, s + (high - 1)) = p * a /\ Power(2, s + high) = p * c
  <2>1. high \in Nat /\ high - 1 \in Nat
    BY <1>2, <1>7
  <2>2. p \in Nat /\ p = Power(2, s)
    <3> HIDE DEF n
    <3> QED
      BY <1>8, PlaceValues, PlacePower
  <2>3. a \in Nat /\ c \in Nat
    BY <2>1, PowerSteps
  <2> HIDE DEF s, p
  <2> QED
    BY <1>8, <2>1, <2>2, <2>3, PowerOfSum
<1>16. a <= d /\ d + 1 <= c
  <2>1. a \in Nat /\ c \in Nat
    BY <1>15
  <2> HIDE DEF a, c
  <2> QED
    BY <1>6, <1>7, <2>1 DEF a, c
<1> HIDE DEF p, a, c, s, n
<1>17. p * a <= d * p /\ (d + 1) * p <= p * c
  BY <1>6, <1>15, <1>16
<1>18. v[Width] \in Nat /\ p * a \in Nat /\ p * c \in Nat /\ d * p \in Nat /\ (d + 1) * p \in Nat
  BY <1>2, <1>6, <1>15
<1>19. p * a <= v[Width] /\ v[Width] < p * c
  BY <1>14, <1>17, <1>18 DEF p
<1> QED
  BY <1>1, <1>10, <1>15, <1>19
-----------------------------------------------------------------------------
(* AccountLedger: FeesAreExact, BooksAreExact *)

\* The sum of two words.
LEMMA SumOfTwo ==
  ASSUME NEW a \in Word, NEW b \in Word, IntOf(a) + IntOf(b) < Modulus
  PROVE  SumOf(<<a, b>>) \in Word /\ IntOf(SumOf(<<a, b>>)) = IntOf(a) + IntOf(b)
<1> DEFINE words == <<a, b>>
           D == DOMAIN words
           Next1(f, s) == IF s = {} THEN Zero ELSE WrappingAdd(f[s \ {Max(s)}], words[Max(s)])
           iter == CHOOSE f : f = [s \in SUBSET D |-> Next1(f, s)]
           first == WrappingAdd(Zero, a)
           second == WrappingAdd(first, b)
           pick == [s \in SUBSET D |-> Max(s)]
           step == [p \in D \X Word |-> WrappingAdd(p[2], words[p[1]])]
<1>1. D = {1, 2} /\ D = 1..2 /\ IsFiniteSet(D)
  <2>1. D = 1..2
    OBVIOUS
  <2>2. IsFiniteSet(1..2)
    <3>1. 1 \in Int /\ 2 \in Int
      OBVIOUS
    <3> QED
      BY <3>1, FS_Interval
  <2> QED
    BY <2>1, <2>2
<1>2. SumOf(words) = iter[D]
  BY DEF SumOf, FoldLeft, MapThenFoldSet
<1>3. Picks(pick, D) /\ \A s \in SUBSET D : s # {} => Max(s) \in s
  BY <1>1, GreatestOf DEF Picks
<1>4. Adds(step, D, Word) /\ Zero \in Word
  <2>1. ASSUME NEW p \in D \X Word PROVE WrappingAdd(p[2], words[p[1]]) \in Word
    <3>1. p[2] \in Word /\ words[p[1]] \in Word
      BY <1>1, <2>1
    <3> QED
      BY <3>1, WordsAdded DEF WrappingAdd
  <2> QED
    BY <2>1, ValueIsNumber DEF Adds
<1> HIDE DEF D
<1>5. PICK f \in [SUBSET D -> Word] : FoldsBy(f, D, Zero, step, pick)
  <2> HIDE DEF step, pick
  <2> QED
    BY <1>1, <1>3, <1>4, FoldExists
<1>6. ASSUME NEW s \in SUBSET D PROVE f[s] = Next1(f, s)
  <2>1. s # {} => Max(s) \in D /\ f[s \ {Max(s)}] \in Word
    BY <1>3, <1>5
  <2>2. f[s] = IF s = {} THEN Zero ELSE step[<<pick[s], f[s \ {pick[s]}]>>]
    BY <1>5 DEF FoldsBy
  <2> HIDE DEF words
  <2> QED
    BY <2>1, <2>2
<1>7. iter = [s \in SUBSET D |-> Next1(iter, s)]
  <2>1. f = [s \in SUBSET D |-> Next1(f, s)]
    <3> HIDE DEF Next1
    <3> QED
      BY <1>5, <1>6
  <2> QED
    BY <2>1
<1> HIDE DEF iter
<1>8. iter[D] = second
  <2>1. ASSUME NEW n \in 1..2, NEW s \in SUBSET D, s = 1..n PROVE Max(s) = n /\ s # {}
    <3>1. s # {} /\ n \in s
      BY <2>1
    <3>2. Max(s) \in s /\ \A e \in s : e <= Max(s)
      BY <1>1, <3>1, GreatestOf
    <3> QED
      BY <2>1, <3>1, <3>2
  <2>2. {} \in SUBSET D /\ {1} \in SUBSET D /\ {1} = 1..1 /\ D \in SUBSET D /\ D = 1..2
    BY <1>1
  <2>3. Max({1}) = 1 /\ Max(D) = 2
    BY <2>1, <2>2
  <2>4. {1} \ {1} = {} /\ D \ {2} = {1} /\ D # {} /\ {1} # {}
    BY <1>1
  <2>5. iter[{}] = Zero
    BY <1>7, <2>2
  <2>6. iter[{1}] = first
    <3>1. iter[{1}] = WrappingAdd(iter[{1} \ {Max({1})}], words[Max({1})])
      BY <1>7, <2>2, <2>4
    <3>2. Max({1}) = 1 /\ {1} \ {Max({1})} = {} /\ words[1] = a
      BY <2>3, <2>4
    <3>3. iter[{1}] = WrappingAdd(iter[{}], a)
      <4> HIDE DEF words
      <4> QED
        BY <3>1, <3>2
    <3> QED
      BY <2>5, <3>3 DEF first
  <2>7. iter[D] = WrappingAdd(iter[D \ {Max(D)}], words[Max(D)])
    BY <1>7, <2>2, <2>4
  <2>8. Max(D) = 2 /\ D \ {Max(D)} = {1} /\ words[2] = b
    BY <2>3, <2>4
  <2> HIDE DEF first, words
  <2>9. iter[D] = WrappingAdd(first, b)
    BY <2>6, <2>7, <2>8
  <2> QED
    BY <2>9
<1>9. first \in Word /\ IntOf(first) = IntOf(a)
  <2>1. Zero \in Word /\ IntOf(Zero) = 0 /\ IntOf(a) \in Nat /\ IntOf(a) < Modulus /\ Modulus \in Nat
    BY ValueIsNumber, WordsBounded
  <2>2. first \in Word
    BY <2>1, WordsAdded DEF WrappingAdd
  <2>3. IntOf(first) = IF IntOf(Zero) + IntOf(a) >= Modulus THEN IntOf(Zero) + IntOf(a) - Modulus ELSE IntOf(Zero) + IntOf(a)
    BY <2>1, SumIsExact DEF WrappingAdd
  <2> HIDE DEF first
  <2> QED
    BY <2>1, <2>2, <2>3
<1> HIDE DEF first
<1>10. second \in Word /\ IntOf(second) = IntOf(a) + IntOf(b)
  <2>1. IntOf(a) \in Nat /\ IntOf(b) \in Nat /\ Modulus \in Nat
    BY ValueIsNumber, WordsBounded
  <2>2. second \in Word
    BY <1>9, WordsAdded DEF WrappingAdd
  <2>3. IntOf(second) = IF IntOf(first) + IntOf(b) >= Modulus THEN IntOf(first) + IntOf(b) - Modulus ELSE IntOf(first) + IntOf(b)
    BY <1>9, SumIsExact DEF WrappingAdd
  <2> HIDE DEF second
  <2> QED
    BY <1>9, <2>1, <2>2, <2>3
<1> HIDE DEF second, words
<1> QED
  BY <1>2, <1>8, <1>10 DEF words

LEMMA FeeIsExact ==
  ASSUME NEW left \in Word, NEW right \in Word
  PROVE  FeesAreExact(left, right)
<1> DEFINE a == IntOf(left)
           b == IntOf(right)
           in == SumOf(<<left, right>>)
           out == SumOf(<<right, right>>)
<1> SUFFICES ASSUME a + b < Modulus, 2 * b < Modulus, Validate(<<left, right>>, <<right, right>>)
             PROVE  IntOf(Fee(<<left, right>>, <<right, right>>)) = a - b
  BY DEF FeesAreExact
<1>1. a \in Nat /\ b \in Nat /\ Modulus \in Nat
  BY ValueIsNumber, WordsBounded
<1>2. b + b < Modulus
  <2> HIDE DEF b
  <2> QED
    BY <1>1
<1>3. in \in Word /\ IntOf(in) = a + b /\ out \in Word /\ IntOf(out) = b + b
  BY <1>2, SumOfTwo
<1>4. ~Less(in, out)
  BY DEF Validate
<1>5. Fee(<<left, right>>, <<right, right>>) = OverflowingSub(in, out).word
  BY DEF Fee, WrappingSub
<1> HIDE DEF a, b, in, out
<1>6. ~(a + b < b + b)
  BY <1>3, <1>4, WordsOrdered
<1>7. IntOf(OverflowingSub(in, out).word) = (a + b) - (b + b)
  <2>1. IntOf(OverflowingSub(in, out).word) =
          IF IntOf(in) < IntOf(out) THEN IntOf(in) - IntOf(out) + Modulus ELSE IntOf(in) - IntOf(out)
    BY <1>3, DifferenceIsExact
  <2> QED
    BY <1>3, <1>6, <2>1
<1> QED
  BY <1>1, <1>5, <1>7

(* The digit-wise arithmetic of U256 is that of the integers, for words of any *)
(* size: sums, differences, the order of words and their leading zeros; the    *)
(* quotient by at most half a digit; and the fee of a UTXO operation that      *)
(* validates and whose sums have words.                                        *)
THEOREM WordsAreNumbers == WordsAreExact
<1> SUFFICES ASSUME NEW left \in Word, NEW right \in Word
             PROVE  SumsAreExact(left, right) /\ QuotientsAreExact(left, right) /\ FeesAreExact(left, right)
  BY DEF WordsAreExact
<1>1. QuotientsAreExact(left, right)
  BY ZerosAreExact, QuotientIsExact DEF QuotientsAreExact
<1> QED
  BY <1>1, SumsAreNumbers, FeeIsExact

(* Changes of either sign that any number of threads apply to balances add up  *)
(* in the half of the word that an i64 fills, though a loss is added as the    *)
(* large number it looks like; and what they add with is exact.                *)
THEOREM BooksAddUp == AccountSpec => []BooksAreExact
<1>1. LowWordIsSum /\ WordsAreExact => BooksAreExact
  BY DEF BooksAreExact
<1> QED
  BY <1>1, LedgerAddsUp, WordsAreNumbers, PTL
-----------------------------------------------------------------------------
(* TrieStore: TrieHolds *)

Keys(n) == [1..n -> Nibbles]

LEMMA KeyLengths ==
  ASSUME NEW n \in Nat, NEW k \in Keys(n)
  PROVE  k \in Seq(Nibbles) /\ Len(k) = n
  BY DEF Keys

LEMMA SameKey ==
  ASSUME NEW n \in Nat, NEW k \in Keys(n), NEW l \in Keys(n), \A i \in 1..n : k[i] = l[i]
  PROVE  k = l
  BY DEF Keys

LEMMA KeyCut ==
  ASSUME NEW n \in Nat, NEW k \in Keys(n), NEW m \in 0..n
  PROVE  /\ SubSeq(k, 1, m) \in Keys(m) /\ \A i \in 1..m : SubSeq(k, 1, m)[i] = k[i]
         /\ From(k, m + 1) \in Keys(n - m) /\ \A i \in 1..(n - m) : From(k, m + 1)[i] = k[m + i]
<1>1. k \in Seq(Nibbles) /\ Len(k) = n
  BY KeyLengths
<1>2. /\ SubSeq(k, 1, m) \in Seq(Nibbles) /\ Len(SubSeq(k, 1, m)) = m
      /\ \A i \in 1..m : SubSeq(k, 1, m)[i] = k[i]
      /\ SubSeq(k, m + 1, n) \in Seq(Nibbles) /\ Len(SubSeq(k, m + 1, n)) = n - m
      /\ \A i \in 1..(n - m) : SubSeq(k, m + 1, n)[i] = k[m + i]
  BY <1>1, CutAnywhere
<1>3. SubSeq(k, 1, m) \in Keys(m) /\ SubSeq(k, m + 1, n) \in Keys(n - m)
  BY <1>2, LenProperties DEF Keys
<1> QED
  BY <1>1, <1>2, <1>3 DEF From

LEMMA KeyStep ==
  ASSUME NEW n \in Nat, n >= 1, NEW k \in Keys(n)
  PROVE  /\ Head(k) = k[1] /\ k[1] \in Nibbles
         /\ Tail(k) \in Keys(n - 1) /\ \A i \in 1..(n - 1) : Tail(k)[i] = k[i + 1]
<1>1. k \in Seq(Nibbles) /\ Len(k) = n /\ k # << >>
  BY KeyLengths
<1>2. Tail(k) \in Seq(Nibbles) /\ Len(Tail(k)) = n - 1 /\ \A i \in 1..(n - 1) : Tail(k)[i] = k[i + 1]
  BY <1>1, HeadTailProperties
<1>3. Tail(k) \in Keys(n - 1)
  BY <1>2, LenProperties DEF Keys
<1>4. 1 \in 1..n
  OBVIOUS
<1> QED
  BY <1>2, <1>3, <1>4 DEF Keys

\* What two keys have in common ends where they differ, or with one of them.
LEMMA KeyCommon ==
  ASSUME NEW a \in Nat, NEW b \in Nat, NEW s \in Keys(a), NEW t \in Keys(b)
  PROVE  /\ Common(s, t) \in Nat /\ Common(s, t) <= a /\ Common(s, t) <= b
         /\ \A i \in 1..Common(s, t) : s[i] = t[i]
         /\ Common(s, t) < a /\ Common(s, t) < b => s[Common(s, t) + 1] # t[Common(s, t) + 1]
<1> DEFINE m == Min({a, b})
           N == {n \in 0..m : SubSeq(s, 1, n) = SubSeq(t, 1, n)}
           c == Max(N)
<1>1. Common(s, t) = c
  BY KeyLengths DEF Common
<1>2. m \in Nat /\ m <= a /\ m <= b /\ (m = a \/ m = b)
  BY LeastOf
<1> HIDE DEF m
<1>3. 0 \in N
  BY <1>2, SubSeqEmpty
<1>4. N \subseteq 0..m
  OBVIOUS
<1>5. c \in N /\ \A n \in N : n <= c
  <2> HIDE DEF N
  <2> QED
    BY <1>2, <1>3, <1>4, GreatestUpTo
<1> HIDE DEF c
<1>6. c \in Nat /\ c <= m /\ SubSeq(s, 1, c) = SubSeq(t, 1, c)
  BY <1>2, <1>5
<1>7. \A i \in 1..c : s[i] = t[i]
  <2>1. c \in 0..a /\ c \in 0..b
    BY <1>2, <1>6
  <2>2. \A i \in 1..c : SubSeq(s, 1, c)[i] = s[i] /\ SubSeq(t, 1, c)[i] = t[i]
    BY <2>1, KeyCut
  <2> QED
    BY <1>6, <2>2
<1>8. ASSUME c < a, c < b, s[c + 1] = t[c + 1] PROVE FALSE
  <2>1. c + 1 \in 0..m /\ c + 1 \in 0..a /\ c + 1 \in 0..b
    BY <1>2, <1>6, <1>8
  <2>2. SubSeq(s, 1, c + 1) = SubSeq(t, 1, c + 1)
    <3>1. \A i \in 1..(c + 1) : s[i] = t[i]
      BY <1>6, <1>7, <1>8
    <3>2. /\ SubSeq(s, 1, c + 1) \in Keys(c + 1) /\ SubSeq(t, 1, c + 1) \in Keys(c + 1)
          /\ \A i \in 1..(c + 1) : SubSeq(s, 1, c + 1)[i] = s[i] /\ SubSeq(t, 1, c + 1)[i] = t[i]
      BY <2>1, KeyCut
    <3> QED
      BY <2>1, <3>1, <3>2, SameKey
  <2>3. c + 1 \in N
    BY <2>1, <2>2
  <2> QED
    BY <1>5, <1>6, <2>3
<1> QED
  BY <1>1, <1>2, <1>6, <1>7, <1>8

LEMMA FitsAll ==
  ASSUME NEW m \in Nat, NEW p \in Keys(m), NEW n \in Nat, NEW k \in Keys(n), m <= n
  PROVE  Fits(p, k) <=> \A i \in 1..m : p[i] = k[i]
<1> DEFINE c == Common(k, p)
<1>1. /\ c \in Nat /\ c <= n /\ c <= m /\ \A i \in 1..c : k[i] = p[i]
      /\ c < n /\ c < m => k[c + 1] # p[c + 1]
  BY KeyCommon
<1>2. Fits(p, k) <=> c = m
  BY KeyLengths DEF Fits
<1> HIDE DEF c
<1>3. ASSUME c # m PROVE \E i \in 1..m : p[i] # k[i]
  <2>1. c + 1 \in 1..m /\ k[c + 1] # p[c + 1]
    BY <1>1, <1>3
  <2> QED
    BY <2>1
<1> QED
  BY <1>1, <1>2, <1>3

\* A trie under which keys of n nibbles are: pairs of node and n, with all that hangs below.
OfNibbles(ch) == ch = [x \in Nibbles |-> ch[x]]
LeafShape(trie, n) == \E s \in Keys(n) : \E v : trie = Leaf(s, v)
Grown(T) ==
  \A t \in T :
    /\ t[2] \in Nat
    /\ \/ t[1] = NoNode
       \/ LeafShape(t[1], t[2])
       \/ \E m \in 1..(t[2] - 1) : \E p \in Keys(m) : \E ch :
            t[1] = Extension(p, Branch(ch)) /\ <<Branch(ch), t[2] - m>> \in T
       \/ \E ch : /\ t[1] = Branch(ch) /\ OfNibbles(ch) /\ t[2] >= 1
                  /\ \A x \in Nibbles : <<ch[x], t[2] - 1>> \in T
Shaped(trie, n) == \E T : Grown(T) /\ <<trie, n>> \in T

LEMMA ShapedCases ==
  ASSUME NEW trie, NEW n, Shaped(trie, n)
  PROVE  /\ n \in Nat
         /\ \/ trie = NoNode
            \/ LeafShape(trie, n)
            \/ \E m \in 1..(n - 1) : \E p \in Keys(m) : \E ch :
                 trie = Extension(p, Branch(ch)) /\ Shaped(Branch(ch), n - m)
            \/ \E ch : /\ trie = Branch(ch) /\ OfNibbles(ch) /\ n >= 1
                       /\ \A x \in Nibbles : Shaped(ch[x], n - 1)
<1>1. PICK T : Grown(T) /\ <<trie, n>> \in T
  BY DEF Shaped
<1>2. \A x, m : <<x, m>> \in T => Shaped(x, m)
  BY <1>1 DEF Shaped
<1> DEFINE t == <<trie, n>>
<1>3. t \in T /\ t[1] = trie /\ t[2] = n
  BY <1>1
<1> HIDE DEF t
<1>4. /\ n \in Nat
      /\ \/ trie = NoNode
         \/ LeafShape(trie, n)
         \/ \E m \in 1..(n - 1) : \E p \in Keys(m) : \E ch :
              trie = Extension(p, Branch(ch)) /\ <<Branch(ch), n - m>> \in T
         \/ \E ch : /\ trie = Branch(ch) /\ OfNibbles(ch) /\ n >= 1
                    /\ \A x \in Nibbles : <<ch[x], n - 1>> \in T
  BY <1>1, <1>3 DEF Grown
<1> QED
  BY <1>2, <1>4

LEMMA ShapedNone == ASSUME NEW n \in Nat PROVE Shaped(NoNode, n)
<1> DEFINE T == {<<NoNode, n>>}
<1>1. Grown(T) /\ <<NoNode, n>> \in T
  BY DEF Grown
<1> QED
  BY <1>1 DEF Shaped

LEMMA ShapedLeaf == ASSUME NEW n \in Nat, NEW s \in Keys(n), NEW v PROVE Shaped(Leaf(s, v), n)
<1> DEFINE T == {<<Leaf(s, v), n>>}
<1>1. Grown(T) /\ <<Leaf(s, v), n>> \in T
  BY DEF Grown, LeafShape
<1> QED
  BY <1>1 DEF Shaped

LEMMA ShapedExtension ==
  ASSUME NEW n \in Nat, NEW m \in 1..(n - 1), NEW p \in Keys(m), NEW ch, Shaped(Branch(ch), n - m)
  PROVE  Shaped(Extension(p, Branch(ch)), n)
<1>1. PICK T : Grown(T) /\ <<Branch(ch), n - m>> \in T
  BY DEF Shaped
<1> DEFINE t == <<Extension(p, Branch(ch)), n>>
           U == T \cup {t}
<1>2. ASSUME NEW u \in U
      PROVE  /\ u[2] \in Nat
             /\ \/ u[1] = NoNode
                \/ LeafShape(u[1], u[2])
                \/ \E i \in 1..(u[2] - 1) : \E q \in Keys(i) : \E c :
                     u[1] = Extension(q, Branch(c)) /\ <<Branch(c), u[2] - i>> \in U
                \/ \E c : /\ u[1] = Branch(c) /\ OfNibbles(c) /\ u[2] >= 1
                          /\ \A x \in Nibbles : <<c[x], u[2] - 1>> \in U
  <2>1. CASE u \in T
    BY <1>1, <2>1 DEF Grown
  <2>2. CASE u = t
    BY <1>1, <2>2
  <2> QED
    BY <2>1, <2>2
<1>3. Grown(U) /\ t \in U
  <2> HIDE DEF t
  <2>1. t \in U
    OBVIOUS
  <2> HIDE DEF U
  <2> QED
    BY <1>2, <2>1 DEF Grown
<1> QED
  BY <1>3 DEF Shaped

LEMMA ShapedBranch ==
  ASSUME NEW n \in Nat, n >= 1, NEW ch, OfNibbles(ch), \A x \in Nibbles : Shaped(ch[x], n - 1)
  PROVE  Shaped(Branch(ch), n)
<1> DEFINE below(x) == CHOOSE T : Grown(T) /\ <<ch[x], n - 1>> \in T
           t == <<Branch(ch), n>>
           B == UNION {below(x) : x \in Nibbles}
           U == B \cup {t}
<1>1. \A x \in Nibbles : Grown(below(x)) /\ <<ch[x], n - 1>> \in below(x)
  BY DEF Shaped
<1> HIDE DEF below
<1>2. \A x \in Nibbles : <<ch[x], n - 1>> \in U
  BY <1>1
<1>3. ASSUME NEW u \in U
      PROVE  /\ u[2] \in Nat
             /\ \/ u[1] = NoNode
                \/ LeafShape(u[1], u[2])
                \/ \E i \in 1..(u[2] - 1) : \E q \in Keys(i) : \E c :
                     u[1] = Extension(q, Branch(c)) /\ <<Branch(c), u[2] - i>> \in U
                \/ \E c : /\ u[1] = Branch(c) /\ OfNibbles(c) /\ u[2] >= 1
                          /\ \A x \in Nibbles : <<c[x], u[2] - 1>> \in U
  <2>1. CASE u \in B
    <3>1. PICK y \in Nibbles : u \in below(y)
      BY <2>1
    <3>2. Grown(below(y)) /\ below(y) \subseteq U
      BY <1>1
    <3> HIDE DEF U
    <3> QED
      BY <3>1, <3>2 DEF Grown
  <2>2. CASE u = t
    <3>1. u[1] = Branch(ch) /\ u[2] = n
      BY <2>2
    <3> HIDE DEF U, t
    <3> QED
      BY <1>2, <3>1
  <2> QED
    BY <2>1, <2>2
<1>4. Grown(U) /\ t \in U
  <2> HIDE DEF t
  <2>1. t \in U
    OBVIOUS
  <2> HIDE DEF U
  <2> QED
    BY <1>3, <2>1 DEF Grown
<1> QED
  BY <1>4 DEF Shaped

LEMMA NodeKinds ==
  /\ NoNode.kind = "none"
  /\ \A s, v : Leaf(s, v).kind = "leaf" /\ Leaf(s, v).suffix = s /\ Leaf(s, v).value = v
  /\ \A p, x : Extension(p, x).kind = "extension" /\ Extension(p, x).prefix = p /\ Extension(p, x).child = x
  /\ \A ch : Branch(ch).kind = "branch" /\ Branch(ch).children = ch
  /\ \A trie, n : LeafShape(trie, n) => trie.kind = "leaf"
<1>1. \A s, v : Leaf(s, v).kind = "leaf"
  BY DEF Leaf
<1>2. \A trie, n : LeafShape(trie, n) => trie.kind = "leaf"
  BY <1>1 DEF LeafShape
<1> QED
  BY <1>2 DEF NoNode, Leaf, Extension, Branch

\* A call with a key as long as the trie is deep.
Fitting(c, n) == c = Call(c.node, c.key) /\ c.key \in Keys(n) /\ Shaped(c.node, n)

LEMMA DeeperFits ==
  ASSUME NEW n, NEW c, Fitting(c, n), GoesOn(c)
  PROVE  n \in Nat /\ n >= 1 /\ \E k \in 0..(n - 1) : Fitting(Deeper(c), k)
<1>1. n \in Nat /\ c.key \in Keys(n) /\ Shaped(c.node, n) /\ c.node.kind \in {"branch", "extension"}
  BY ShapedCases DEF Fitting, GoesOn
<1>2. CASE c.node.kind = "branch"
  <2>1. PICK ch : /\ c.node = Branch(ch) /\ OfNibbles(ch) /\ n >= 1
                  /\ \A x \in Nibbles : Shaped(ch[x], n - 1)
    <3>1. c.node # NoNode /\ ~LeafShape(c.node, n) /\ \A p, x : c.node # Extension(p, x)
      BY <1>2, NodeKinds
    <3> QED
      BY <1>1, <3>1, ShapedCases
  <2>2. Head(c.key) \in Nibbles /\ Tail(c.key) \in Keys(n - 1)
    BY <1>1, <2>1, KeyStep
  <2>3. Deeper(c) = Call(ch[Head(c.key)], Tail(c.key))
    BY <1>2, <2>1 DEF Deeper, Branch
  <2>4. Fitting(Deeper(c), n - 1)
    BY <2>1, <2>2, <2>3 DEF Fitting, Call
  <2>5. n - 1 \in 0..(n - 1)
    BY <1>1, <2>1
  <2> QED
    BY <1>1, <2>1, <2>4, <2>5
<1>3. CASE c.node.kind = "extension"
  <2>1. PICK m \in 1..(n - 1) : \E p \in Keys(m) : \E ch :
           c.node = Extension(p, Branch(ch)) /\ Shaped(Branch(ch), n - m)
    <3>1. c.node # NoNode /\ ~LeafShape(c.node, n) /\ \A ch : c.node # Branch(ch)
      BY <1>3, NodeKinds
    <3> QED
      BY <1>1, <3>1, ShapedCases
  <2>2. PICK p, ch : p \in Keys(m) /\ c.node = Extension(p, Branch(ch)) /\ Shaped(Branch(ch), n - m)
    BY <2>1
  <2>3. Len(p) = m
    BY <2>2, KeyLengths
  <2>4. Deeper(c) = Call(Branch(ch), From(c.key, m + 1))
    BY <1>3, <2>2, <2>3 DEF Deeper, Extension
  <2>5. From(c.key, m + 1) \in Keys(n - m)
    BY <1>1, KeyCut
  <2>6. Fitting(Deeper(c), n - m)
    BY <2>2, <2>4, <2>5 DEF Fitting, Call
  <2>7. n - m \in 0..(n - 1) /\ n >= 1
    BY <1>1
  <2> QED
    BY <1>1, <2>6, <2>7
<1> QED
  BY <1>1, <1>2, <1>3

LEMMA CallsAre ==
  ASSUME NEW trie, NEW n \in Nat, NEW key \in Keys(n)
  PROVE  /\ Calls(trie, key)[0] = Call(trie, key)
         /\ \A i \in 1..n : Calls(trie, key)[i] = Onward(Calls(trie, key)[i - 1])
<1> DEFINE A == {m \in Nat : m <= n => \E f : f = [i \in 0..m |-> IF i = 0 THEN Call(trie, key) ELSE Onward(f[i - 1])]}
<1>1. 0 \in A
  <2> DEFINE f == [i \in 0..0 |-> Call(trie, key)]
  <2>1. f = [i \in 0..0 |-> IF i = 0 THEN Call(trie, key) ELSE Onward(f[i - 1])]
    OBVIOUS
  <2> QED
    BY <2>1
<1>2. ASSUME NEW m \in Nat, m \in A PROVE m + 1 \in A
  <2> SUFFICES ASSUME m + 1 <= n
               PROVE  \E f : f = [i \in 0..(m + 1) |-> IF i = 0 THEN Call(trie, key) ELSE Onward(f[i - 1])]
    OBVIOUS
  <2>1. PICK f : f = [i \in 0..m |-> IF i = 0 THEN Call(trie, key) ELSE Onward(f[i - 1])]
    BY <1>2
  <2> DEFINE g == [i \in 0..(m + 1) |-> IF i = m + 1 THEN Onward(f[m]) ELSE f[i]]
  <2>2. ASSUME NEW i \in 0..(m + 1) PROVE g[i] = IF i = 0 THEN Call(trie, key) ELSE Onward(g[i - 1])
    <3>1. CASE i = m + 1
      BY <3>1
    <3>2. CASE i # m + 1
      <4>1. i \in 0..m /\ (i # 0 => i - 1 \in 0..m /\ i - 1 # m + 1 /\ i - 1 \in 0..(m + 1))
        BY <3>2
      <4>2. f[i] = IF i = 0 THEN Call(trie, key) ELSE Onward(f[i - 1])
        BY <2>1, <4>1
      <4> QED
        BY <3>2, <4>1, <4>2
    <3> QED
      BY <3>1, <3>2
  <2>3. g = [i \in 0..(m + 1) |-> IF i = 0 THEN Call(trie, key) ELSE Onward(g[i - 1])]
    <3>1. g = [i \in 0..(m + 1) |-> g[i]]
      OBVIOUS
    <3> HIDE DEF g
    <3> QED
      BY <2>2, <3>1
  <2> QED
    BY <2>3
<1>3. Nat \subseteq A
  <2> HIDE DEF A
  <2> QED
    BY <1>1, <1>2, AllNumbers
<1>4. \E f : f = [i \in 0..n |-> IF i = 0 THEN Call(trie, key) ELSE Onward(f[i - 1])]
  BY <1>3
<1> DEFINE w == Calls(trie, key)
<1>5. w = [i \in 0..n |-> IF i = 0 THEN Call(trie, key) ELSE Onward(w[i - 1])]
  <2>1. Len(key) = n
    BY KeyLengths
  <2>2. w = CHOOSE f : f = [i \in 0..n |-> IF i = 0 THEN Call(trie, key) ELSE Onward(f[i - 1])]
    BY <2>1 DEF Calls
  <2> HIDE DEF w
  <2> QED
    BY <1>4, <2>2
<1> HIDE DEF w
<1>6. w[0] = Call(trie, key)
  BY <1>5
<1>7. ASSUME NEW i \in 1..n PROVE w[i] = Onward(w[i - 1])
  <2>1. i \in 0..n /\ i # 0
    OBVIOUS
  <2> QED
    BY <1>5, <2>1
<1> QED
  BY <1>6, <1>7 DEF w

\* Every call uses up a part of the key, and the last goes no further.
LEMMA CallsEnd ==
  ASSUME NEW trie, NEW n \in Nat, NEW key \in Keys(n), Shaped(trie, n)
  PROVE  ~GoesOn(Calls(trie, key)[n])
<1> DEFINE w == Calls(trie, key)
           Holds(i) == \E k \in Nat : Fitting(w[i], k) /\ (GoesOn(w[i]) => k <= n - i)
           h == [i \in 0..n |-> IF Holds(i) THEN 1 ELSE 0]
           V == {1}
<1>1. w[0] = Call(trie, key) /\ \A i \in 1..n : w[i] = Onward(w[i - 1])
  BY CallsAre
<1> HIDE DEF w
<1>2. h[0] \in V
  <2>1. Fitting(w[0], n)
    BY <1>1 DEF Fitting, Call
  <2>2. Holds(0)
    BY <2>1
  <2> QED
    BY <2>2
<1>3. ASSUME NEW i \in 1..n, h[i - 1] \in V PROVE h[i] \in V
  <2>1. i - 1 \in 0..n /\ i \in 0..n
    OBVIOUS
  <2>2. Holds(i - 1)
    BY <1>3, <2>1
  <2>3. PICK k \in Nat : Fitting(w[i - 1], k) /\ (GoesOn(w[i - 1]) => k <= n - (i - 1))
    BY <2>2
  <2>4. CASE GoesOn(w[i - 1])
    <3>1. PICK l \in 0..(k - 1) : Fitting(Deeper(w[i - 1]), l)
      BY <2>3, <2>4, DeeperFits
    <3>2. w[i] = Deeper(w[i - 1])
      BY <1>1, <2>4 DEF Onward
    <3>3. l \in Nat /\ l <= n - i
      BY <2>3, <2>4
    <3>4. Holds(i)
      BY <3>1, <3>2, <3>3
    <3> QED
      BY <2>1, <3>4
  <2>5. CASE ~GoesOn(w[i - 1])
    <3>1. w[i] = w[i - 1]
      BY <1>1, <2>5 DEF Onward
    <3>2. Holds(i)
      BY <2>3, <2>5, <3>1
    <3> QED
      BY <2>1, <3>2
  <2> QED
    BY <2>4, <2>5
<1>4. Holds(n)
  <2>1. \A i \in 0..n : h[i] \in V
    <3> HIDE DEF h, V
    <3> QED
      BY <1>2, <1>3, CountedIn
  <2> QED
    BY <2>1
<1>5. PICK k \in Nat : Fitting(w[n], k) /\ (GoesOn(w[n]) => k <= n - n)
  BY <1>4
<1>6. ASSUME GoesOn(w[n]) PROVE FALSE
  <2>1. k >= 1
    BY <1>5, <1>6, DeeperFits
  <2> QED
    BY <1>5, <1>6, <2>1
<1> QED
  BY <1>6 DEF w

Answers(f, task, w, m, n) ==
  f = [i \in m..n |-> IF GoesOn(w[i]) THEN Returning(task, w[i], f[i + 1]) ELSE AtEnd(task, w[i])]

LEMMA AnswersExist ==
  ASSUME NEW task, NEW n \in Nat, NEW w, ~GoesOn(w[n])
  PROVE  \E f : Answers(f, task, w, 0, n)
<1> USE DEF Answers
<1> DEFINE A == {m \in Nat : m <= n => \E f : Answers(f, task, w, n - m, n)}
<1>1. 0 \in A
  <2> DEFINE f == [i \in (n - 0)..n |-> AtEnd(task, w[n])]
  <2>1. f = [i \in (n - 0)..n |-> IF GoesOn(w[i]) THEN Returning(task, w[i], f[i + 1]) ELSE AtEnd(task, w[i])]
    <3>1. \A i \in (n - 0)..n : i = n
      OBVIOUS
    <3> QED
      BY <3>1
  <2> QED
    BY <2>1
<1>2. ASSUME NEW m \in Nat, m \in A PROVE m + 1 \in A
  <2> SUFFICES ASSUME m + 1 <= n PROVE \E f : Answers(f, task, w, n - (m + 1), n)
    OBVIOUS
  <2>1. PICK f : Answers(f, task, w, n - m, n)
    BY <1>2
  <2> DEFINE j == n - (m + 1)
             first == IF GoesOn(w[j]) THEN Returning(task, w[j], f[j + 1]) ELSE AtEnd(task, w[j])
             g == [i \in j..n |-> IF i = j THEN first ELSE f[i]]
  <2>2. j \in Nat /\ j < n /\ j + 1 = n - m
    OBVIOUS
  <2> HIDE DEF j
  <2>3. ASSUME NEW i \in j..n
        PROVE  g[i] = IF GoesOn(w[i]) THEN Returning(task, w[i], g[i + 1]) ELSE AtEnd(task, w[i])
    <3>1. CASE i = j
      <4>1. j \in j..n /\ j + 1 \in j..n /\ j + 1 # j
        BY <2>2
      <4>2. g[j] = first /\ g[j + 1] = f[j + 1]
        BY <4>1
      <4> QED
        BY <3>1, <4>2
    <3>2. CASE i # j
      <4>1. i \in (n - m)..n /\ (i = n \/ (i + 1 \in j..n /\ i + 1 # j))
        BY <2>2, <3>2
      <4>2. f[i] = IF GoesOn(w[i]) THEN Returning(task, w[i], f[i + 1]) ELSE AtEnd(task, w[i])
        BY <2>1, <4>1
      <4>3. g[i] = f[i] /\ (i # n => g[i + 1] = f[i + 1])
        BY <3>2, <4>1
      <4> HIDE DEF g
      <4> QED
        BY <4>2, <4>3
    <3> QED
      BY <3>1, <3>2
  <2>4. g = [i \in j..n |-> IF GoesOn(w[i]) THEN Returning(task, w[i], g[i + 1]) ELSE AtEnd(task, w[i])]
    <3>1. g = [i \in j..n |-> g[i]]
      OBVIOUS
    <3> HIDE DEF g
    <3> QED
      BY <2>3, <3>1
  <2> HIDE DEF g
  <2> QED
    BY <2>4 DEF j
<1>3. Nat \subseteq A
  <2> HIDE DEF A
  <2> QED
    BY <1>1, <1>2, AllNumbers
<1>4. n \in A
  <2> HIDE DEF A
  <2> QED
    BY <1>3
<1>5. n - n = 0 /\ n <= n
  OBVIOUS
<1> QED
  BY <1>4, <1>5

\* What the calls return, and that the first one's is the result.
AnswersTo(f, task, trie, key, n) ==
  /\ Result(task, trie, key) = f[0]
  /\ \A i \in 0..n : f[i] = IF GoesOn(Calls(trie, key)[i]) THEN Returning(task, Calls(trie, key)[i], f[i + 1])
                            ELSE AtEnd(task, Calls(trie, key)[i])

LEMMA ResultIs ==
  ASSUME NEW task, NEW trie, NEW n \in Nat, NEW key \in Keys(n), Shaped(trie, n)
  PROVE  \E f : AnswersTo(f, task, trie, key, n)
<1> DEFINE w == Calls(trie, key)
           f == CHOOSE f : f = [i \in 0..n |-> IF GoesOn(w[i]) THEN Returning(task, w[i], f[i + 1]) ELSE AtEnd(task, w[i])]
<1>1. Result(task, trie, key) = f[0]
  <2>1. Len(key) = n
    BY KeyLengths
  <2> QED
    BY <2>1 DEF Result
<1>2. ~GoesOn(w[n])
  BY CallsEnd
<1> HIDE DEF w
<1>3. f = [i \in 0..n |-> IF GoesOn(w[i]) THEN Returning(task, w[i], f[i + 1]) ELSE AtEnd(task, w[i])]
  <2>1. \E g : g = [i \in 0..n |-> IF GoesOn(w[i]) THEN Returning(task, w[i], g[i + 1]) ELSE AtEnd(task, w[i])]
    <3>1. PICK g : Answers(g, task, w, 0, n)
      BY <1>2, AnswersExist
    <3> QED
      BY <3>1 DEF Answers
  <2> QED
    BY <2>1
<1> HIDE DEF f
<1>4. \A i \in 0..n : f[i] = IF GoesOn(w[i]) THEN Returning(task, w[i], f[i + 1]) ELSE AtEnd(task, w[i])
  BY <1>3
<1>5. AnswersTo(f, task, trie, key, n)
  BY <1>1, <1>4 DEF w, AnswersTo
<1> QED
  BY <1>5

\* The recursion: what a call returns, from what the one below returns.
LEMMA Descends ==
  ASSUME NEW task, NEW n, NEW c, Fitting(c, n)
  PROVE  Result(task, c.node, c.key) =
           IF GoesOn(c) THEN Returning(task, c, Result(task, Deeper(c).node, Deeper(c).key)) ELSE AtEnd(task, c)
<1>1. n \in Nat /\ c.key \in Keys(n) /\ Shaped(c.node, n) /\ c = Call(c.node, c.key)
  BY ShapedCases DEF Fitting
<1> DEFINE w == Calls(c.node, c.key)
<1>2. PICK f : /\ Result(task, c.node, c.key) = f[0]
               /\ \A i \in 0..n : f[i] = IF GoesOn(w[i]) THEN Returning(task, w[i], f[i + 1]) ELSE AtEnd(task, w[i])
  <2>1. PICK f : AnswersTo(f, task, c.node, c.key, n)
    BY <1>1, ResultIs
  <2> QED
    BY <2>1 DEF AnswersTo
<1>3. w[0] = c /\ \A i \in 1..n : w[i] = Onward(w[i - 1])
  BY <1>1, CallsAre
<1> HIDE DEF w
<1>4. f[0] = IF GoesOn(c) THEN Returning(task, c, f[1]) ELSE AtEnd(task, c)
  <2>1. 0 \in 0..n /\ 0 + 1 = 1
    BY <1>1
  <2> QED
    BY <1>2, <1>3, <2>1
<1>5. CASE GoesOn(c)
  <2> DEFINE d == Deeper(c)
             u == Calls(d.node, d.key)
  <2>1. PICK k \in 0..(n - 1) : Fitting(d, k)
    BY <1>5, DeeperFits
  <2>2. k \in Nat /\ k < n /\ d.key \in Keys(k) /\ Shaped(d.node, k) /\ d = Call(d.node, d.key)
    BY <1>1, <2>1 DEF Fitting
  <2>3. PICK g : /\ Result(task, d.node, d.key) = g[0]
                 /\ \A i \in 0..k : g[i] = IF GoesOn(u[i]) THEN Returning(task, u[i], g[i + 1]) ELSE AtEnd(task, u[i])
    <3>1. PICK g : AnswersTo(g, task, d.node, d.key, k)
      BY <2>2, ResultIs
    <3> QED
      BY <3>1 DEF AnswersTo
  <2>4. u[0] = d /\ (\A i \in 1..k : u[i] = Onward(u[i - 1])) /\ ~GoesOn(u[k])
    BY <2>2, CallsAre, CallsEnd
  <2>5. w[1] = d
    <3>1. 1 \in 1..n /\ 1 - 1 = 0
      BY <1>1, <2>2
    <3> QED
      BY <1>3, <1>5, <3>1 DEF Onward
  <2> HIDE DEF d, u
  <2>6. \A i \in 0..k : w[i + 1] = u[i]
    <3> DEFINE h == [i \in 0..k |-> IF w[i + 1] = u[i] THEN 1 ELSE 0]
               V == {1}
    <3>1. h[0] \in V
      BY <2>2, <2>4, <2>5
    <3>2. ASSUME NEW i \in 1..k, h[i - 1] \in V PROVE h[i] \in V
      <4>1. i - 1 \in 0..k /\ i \in 0..k /\ (i - 1) + 1 = i /\ i + 1 \in 1..n /\ (i + 1) - 1 = i
        BY <1>1, <2>2
      <4>2. w[i] = u[i - 1]
        BY <3>2, <4>1
      <4>3. w[i + 1] = Onward(w[i]) /\ u[i] = Onward(u[i - 1])
        BY <1>3, <2>4, <4>1
      <4> QED
        BY <4>1, <4>2, <4>3
    <3>3. \A i \in 0..k : h[i] \in V
      <4> HIDE DEF h, V
      <4> QED
        BY <2>2, <3>1, <3>2, CountedIn
    <3> QED
      BY <3>3
  <2>7. \A i \in 0..k : f[(k - i) + 1] = g[k - i]
    <3> DEFINE h == [i \in 0..k |-> IF f[(k - i) + 1] = g[k - i] THEN 1 ELSE 0]
               V == {1}
    <3>1. ASSUME NEW j \in 0..k, GoesOn(u[j]) => f[(j + 1) + 1] = g[j + 1] PROVE f[j + 1] = g[j]
      <4>1. j + 1 \in 0..n
        BY <1>1, <2>2
      <4>2. f[j + 1] = IF GoesOn(w[j + 1]) THEN Returning(task, w[j + 1], f[(j + 1) + 1]) ELSE AtEnd(task, w[j + 1])
        BY <1>2, <4>1
      <4>3. g[j] = IF GoesOn(u[j]) THEN Returning(task, u[j], g[j + 1]) ELSE AtEnd(task, u[j])
        BY <2>3
      <4>4. w[j + 1] = u[j]
        BY <2>6
      <4> QED
        BY <3>1, <4>2, <4>3, <4>4
    <3>2. h[0] \in V
      <4>1. k \in 0..k /\ k - 0 = k
        BY <2>2
      <4>2. f[k + 1] = g[k]
        BY <2>4, <3>1, <4>1
      <4> QED
        BY <4>1, <4>2
    <3>3. ASSUME NEW i \in 1..k, h[i - 1] \in V PROVE h[i] \in V
      <4>1. i - 1 \in 0..k /\ i \in 0..k /\ k - i \in 0..k /\ k - (i - 1) = (k - i) + 1
        BY <2>2
      <4>2. f[((k - i) + 1) + 1] = g[(k - i) + 1]
        BY <3>3, <4>1
      <4>3. f[(k - i) + 1] = g[k - i]
        BY <3>1, <4>1, <4>2
      <4> QED
        BY <4>1, <4>3
    <3>4. \A i \in 0..k : h[i] \in V
      <4> HIDE DEF h, V
      <4> QED
        BY <2>2, <3>2, <3>3, CountedIn
    <3>5. ASSUME NEW i \in 0..k PROVE f[(k - i) + 1] = g[k - i]
      <4>1. h[i] = 1
        BY <3>4
      <4>2. h[i] = IF f[(k - i) + 1] = g[k - i] THEN 1 ELSE 0
        OBVIOUS
      <4> HIDE DEF h
      <4> QED
        BY <4>1, <4>2
    <3> QED
      BY <3>5
  <2>8. f[1] = g[0]
    <3>1. k \in 0..k /\ k - k = 0 /\ 0 + 1 = 1
      BY <2>2
    <3> QED
      BY <2>7, <3>1
  <2> QED
    BY <1>2, <1>4, <1>5, <2>3, <2>8 DEF d
<1>6. CASE ~GoesOn(c)
  BY <1>2, <1>4, <1>6
<1> QED
  BY <1>5, <1>6

LEMMA ResultStops ==
  ASSUME NEW task, NEW n \in Nat, NEW key \in Keys(n), NEW trie, trie = NoNode \/ LeafShape(trie, n)
  PROVE  Result(task, trie, key) = AtEnd(task, Call(trie, key))
<1> DEFINE c == Call(trie, key)
<1>1. c.node = trie /\ c.key = key
  BY DEF Call
<1>2. Shaped(trie, n)
  BY ShapedNone, ShapedLeaf DEF LeafShape
<1>3. ~GoesOn(c)
  BY <1>1, NodeKinds DEF GoesOn
<1>4. Fitting(c, n)
  BY <1>1, <1>2 DEF Fitting
<1> HIDE DEF c
<1>5. Result(task, c.node, c.key) = AtEnd(task, c)
  BY <1>3, <1>4, Descends
<1> QED
  BY <1>1, <1>5 DEF c

Starts(p, m, key) == \A i \in 1..m : p[i] = key[i]

LEMMA ResultExtension ==
  ASSUME NEW task, NEW n \in Nat, NEW key \in Keys(n), NEW m \in 1..(n - 1), NEW p \in Keys(m), NEW ch, Shaped(Branch(ch), n - m)
  PROVE  LET c == Call(Extension(p, Branch(ch)), key)
         IN  Result(task, Extension(p, Branch(ch)), key) =
               IF Starts(p, m, key) THEN Returning(task, c, Result(task, Branch(ch), From(key, m + 1)))
               ELSE AtEnd(task, c)
<1> DEFINE trie == Extension(p, Branch(ch))
           c == Call(trie, key)
           d == Deeper(c)
<1>1. c.node = trie /\ c.key = key
  BY DEF Call
<1>2. Shaped(trie, n)
  BY ShapedExtension
<1>3. Fitting(c, n)
  BY <1>1, <1>2 DEF Fitting
<1>4. GoesOn(c) <=> Starts(p, m, key)
  <2>1. Fits(p, key) <=> Starts(p, m, key)
    BY FitsAll DEF Starts
  <2> QED
    BY <1>1, <2>1, NodeKinds DEF GoesOn
<1>5. d.node = Branch(ch) /\ d.key = From(key, m + 1)
  <2>1. Len(p) = m
    BY KeyLengths
  <2> QED
    BY <1>1, <2>1, NodeKinds DEF Deeper, Call
<1> HIDE DEF c, d
<1>6. Result(task, c.node, c.key) = IF GoesOn(c) THEN Returning(task, c, Result(task, d.node, d.key)) ELSE AtEnd(task, c)
  BY <1>3, Descends DEF d
<1>7. Result(task, trie, key) =
        IF Starts(p, m, key) THEN Returning(task, c, Result(task, Branch(ch), From(key, m + 1))) ELSE AtEnd(task, c)
  <2> HIDE DEF trie
  <2> QED
    BY <1>1, <1>4, <1>5, <1>6
<1> QED
  BY <1>7 DEF c

LEMMA ResultBranch ==
  ASSUME NEW task, NEW n \in Nat, n >= 1, NEW key \in Keys(n), NEW ch, OfNibbles(ch), \A x \in Nibbles : Shaped(ch[x], n - 1)
  PROVE  Result(task, Branch(ch), key) = Returning(task, Call(Branch(ch), key), Result(task, ch[key[1]], Tail(key)))
<1> DEFINE c == Call(Branch(ch), key)
           d == Deeper(c)
<1>1. c.node = Branch(ch) /\ c.key = key
  BY DEF Call
<1>2. Shaped(Branch(ch), n)
  BY ShapedBranch
<1>3. Fitting(c, n)
  BY <1>1, <1>2 DEF Fitting
<1>4. GoesOn(c)
  BY <1>1, NodeKinds DEF GoesOn
<1>5. d.node = ch[key[1]] /\ d.key = Tail(key)
  <2>1. Head(key) = key[1]
    BY KeyStep
  <2> QED
    BY <1>1, <2>1, NodeKinds DEF Deeper, Call
<1> HIDE DEF c, d
<1>6. Result(task, c.node, c.key) = Returning(task, c, Result(task, d.node, d.key))
  BY <1>3, <1>4, Descends DEF d
<1>7. Result(task, Branch(ch), key) = Returning(task, c, Result(task, ch[key[1]], Tail(key)))
  BY <1>1, <1>5, <1>6
<1> QED
  BY <1>7 DEF c

\* What is found in each kind of node.
LEMMA ReadingAnswers ==
  /\ \A c : AtEnd(Reading, c) = IF c.node.kind = "leaf" /\ c.node.suffix = c.key THEN {c.node.value} ELSE {}
  /\ \A c, answer : Returning(Reading, c, answer) = answer
  BY DEF AtEnd, Returning, Reading

LEMMA FoundNone ==
  ASSUME NEW n \in Nat, NEW key \in Keys(n)
  PROVE  Lookup(NoNode, key) = {}
<1>1. AtEnd(Reading, Call(NoNode, key)) = {}
  BY ReadingAnswers, NodeKinds DEF Call
<1> QED
  BY <1>1, ResultStops DEF Lookup

LEMMA FoundLeaf ==
  ASSUME NEW n \in Nat, NEW key \in Keys(n), NEW s \in Keys(n), NEW v
  PROVE  Lookup(Leaf(s, v), key) = IF s = key THEN {v} ELSE {}
<1> DEFINE c == Call(Leaf(s, v), key)
<1>1. AtEnd(Reading, c) = IF s = key THEN {v} ELSE {}
  <2>1. c.node = Leaf(s, v) /\ c.key = key
    BY DEF Call
  <2>2. c.node.kind = "leaf" /\ c.node.suffix = s /\ c.node.value = v
    BY <2>1, NodeKinds
  <2> HIDE DEF c
  <2>3. AtEnd(Reading, c) = IF c.node.kind = "leaf" /\ c.node.suffix = c.key THEN {c.node.value} ELSE {}
    BY ReadingAnswers
  <2> QED
    BY <2>1, <2>2, <2>3
<1>2. LeafShape(Leaf(s, v), n)
  BY DEF LeafShape
<1> QED
  BY <1>1, <1>2, ResultStops DEF Lookup

LEMMA FoundExtension ==
  ASSUME NEW n \in Nat, NEW key \in Keys(n), NEW m \in 1..(n - 1), NEW p \in Keys(m), NEW ch, Shaped(Branch(ch), n - m)
  PROVE  Lookup(Extension(p, Branch(ch)), key) =
           IF \A i \in 1..m : p[i] = key[i] THEN Lookup(Branch(ch), From(key, m + 1)) ELSE {}
<1> DEFINE c == Call(Extension(p, Branch(ch)), key)
<1>1. AtEnd(Reading, c) = {}
  BY ReadingAnswers, NodeKinds DEF Call
<1>2. Returning(Reading, c, Lookup(Branch(ch), From(key, m + 1))) = Lookup(Branch(ch), From(key, m + 1))
  BY ReadingAnswers
<1> HIDE DEF c
<1>3. Lookup(Extension(p, Branch(ch)), key) =
        IF Starts(p, m, key) THEN Returning(Reading, c, Lookup(Branch(ch), From(key, m + 1)))
        ELSE AtEnd(Reading, c)
  BY ResultExtension DEF Lookup, c
<1> QED
  BY <1>1, <1>2, <1>3 DEF Starts

LEMMA FoundBranch ==
  ASSUME NEW n \in Nat, n >= 1, NEW key \in Keys(n), NEW ch, OfNibbles(ch), \A x \in Nibbles : Shaped(ch[x], n - 1)
  PROVE  Lookup(Branch(ch), key) = Lookup(ch[key[1]], Tail(key))
<1>1. Lookup(Branch(ch), key) = Returning(Reading, Call(Branch(ch), key), Lookup(ch[key[1]], Tail(key)))
  BY ResultBranch DEF Lookup
<1> QED
  BY <1>1, ReadingAnswers

LEMMA FromFrom ==
  ASSUME NEW n \in Nat, NEW k \in Keys(n), NEW a \in 0..n, NEW b \in 0..(n - a)
  PROVE  From(From(k, a + 1), b + 1) = From(k, a + b + 1)
<1> DEFINE l == From(k, a + 1)
           x == From(l, b + 1)
           y == From(k, (a + b) + 1)
<1>1. l \in Keys(n - a) /\ (\A i \in 1..(n - a) : l[i] = k[a + i]) /\ n - a \in Nat
  <2>1. l \in Keys(n - a) /\ (\A i \in 1..(n - a) : l[i] = k[a + i])
    BY KeyCut
  <2> QED
    BY <2>1
<1> HIDE DEF l
<1>2. x \in Keys((n - a) - b) /\ \A i \in 1..((n - a) - b) : x[i] = l[b + i]
  BY <1>1, KeyCut
<1>3. a + b \in 0..n
  OBVIOUS
<1>4. y \in Keys(n - (a + b)) /\ \A i \in 1..(n - (a + b)) : y[i] = k[(a + b) + i]
  BY <1>3, KeyCut
<1> HIDE DEF x, y
<1>5. (n - a) - b = n - (a + b) /\ n - (a + b) \in Nat
  OBVIOUS
<1>6. ASSUME NEW i \in 1..(n - (a + b)) PROVE x[i] = y[i]
  <2>1. b + i \in 1..(n - a) /\ a + (b + i) = (a + b) + i
    OBVIOUS
  <2>2. x[i] = l[b + i] /\ y[i] = k[(a + b) + i]
    BY <1>2, <1>4, <1>5
  <2> QED
    BY <1>1, <2>1, <2>2
<1>7. x = y
  BY <1>2, <1>4, <1>5, <1>6, SameKey
<1> QED
  BY <1>7 DEF x, y, l

LEMMA TailFrom ==
  ASSUME NEW n \in Nat, NEW k \in Keys(n), NEW c \in 0..(n - 1)
  PROVE  From(k, c + 1)[1] = k[c + 1] /\ Tail(From(k, c + 1)) = From(k, c + 2)
<1> DEFINE l == From(k, c + 1)
           x == Tail(l)
           y == From(k, (c + 1) + 1)
<1>1. l \in Keys(n - c) /\ (\A i \in 1..(n - c) : l[i] = k[c + i]) /\ n - c \in Nat /\ n - c >= 1
  <2>1. c \in 0..n
    OBVIOUS
  <2>2. l \in Keys(n - c) /\ (\A i \in 1..(n - c) : l[i] = k[c + i])
    BY <2>1, KeyCut
  <2> HIDE DEF l
  <2> QED
    BY <2>2
<1> HIDE DEF l
<1>2. x \in Keys((n - c) - 1) /\ \A i \in 1..((n - c) - 1) : x[i] = l[i + 1]
  BY <1>1, KeyStep
<1>3. c + 1 \in 0..n
  OBVIOUS
<1>4. y \in Keys(n - (c + 1)) /\ \A i \in 1..(n - (c + 1)) : y[i] = k[(c + 1) + i]
  BY <1>3, KeyCut
<1> HIDE DEF x, y
<1>5. (n - c) - 1 = n - (c + 1) /\ n - (c + 1) \in Nat
  OBVIOUS
<1>6. ASSUME NEW i \in 1..(n - (c + 1)) PROVE x[i] = y[i]
  <2>1. i + 1 \in 1..(n - c) /\ c + (i + 1) = (c + 1) + i
    OBVIOUS
  <2>2. x[i] = l[i + 1] /\ y[i] = k[(c + 1) + i]
    BY <1>2, <1>4, <1>5
  <2> QED
    BY <1>1, <2>1, <2>2
<1>7. x = y
  BY <1>2, <1>4, <1>5, <1>6, SameKey
<1>8. l[1] = k[c + 1] /\ (c + 1) + 1 = c + 2
  BY <1>1
<1> QED
  BY <1>7, <1>8 DEF x, y, l

\* A key is its first nibbles, the next, and the rest.
LEMMA KeyParts ==
  ASSUME NEW n \in Nat, NEW k \in Keys(n), NEW l \in Keys(n), NEW c \in 0..(n - 1)
  PROVE  k = l <=> (\A i \in 1..c : k[i] = l[i]) /\ k[c + 1] = l[c + 1] /\ From(k, c + 2) = From(l, c + 2)
<1>1. ASSUME \A i \in 1..c : k[i] = l[i], k[c + 1] = l[c + 1], From(k, c + 2) = From(l, c + 2) PROVE k = l
  <2>1. c + 1 \in 0..n /\ (c + 1) + 1 = c + 2
    OBVIOUS
  <2>2. \A i \in 1..(n - (c + 1)) : From(k, (c + 1) + 1)[i] = k[(c + 1) + i] /\ From(l, (c + 1) + 1)[i] = l[(c + 1) + i]
    BY <2>1, KeyCut
  <2>3. ASSUME NEW i \in 1..n PROVE k[i] = l[i]
    <3>1. CASE i \in 1..(c + 1)
      BY <1>1, <3>1
    <3>2. CASE ~(i \in 1..(c + 1))
      <4>1. i - (c + 1) \in 1..(n - (c + 1)) /\ (c + 1) + (i - (c + 1)) = i
        BY <3>2
      <4>2. /\ From(k, (c + 1) + 1)[i - (c + 1)] = k[(c + 1) + (i - (c + 1))]
            /\ From(l, (c + 1) + 1)[i - (c + 1)] = l[(c + 1) + (i - (c + 1))]
        BY <2>2, <4>1
      <4>3. From(k, (c + 1) + 1) = From(l, (c + 1) + 1)
        BY <1>1, <2>1
      <4> QED
        BY <4>1, <4>2, <4>3
    <3> QED
      BY <3>1, <3>2
  <2> QED
    BY <2>3, SameKey
<1> QED
  BY <1>1

LEMMA AboveBranch ==
  ASSUME NEW n \in Nat, NEW m \in 0..(n - 1), NEW p \in Keys(m), NEW ch, Shaped(Branch(ch), n - m)
  PROVE  LET trie == Above(p, Branch(ch))
         IN  /\ Shaped(trie, n) /\ trie # NoNode
             /\ \A k \in Keys(n) : Lookup(trie, k) = IF \A i \in 1..m : p[i] = k[i] THEN Lookup(Branch(ch), From(k, m + 1)) ELSE {}
<1> DEFINE trie == Above(p, Branch(ch))
<1>1. CASE m = 0
  <2>1. p = << >>
    <3>1. p \in Seq(Nibbles) /\ Len(p) = 0
      BY <1>1, KeyLengths
    <3> QED
      BY <3>1, EmptySeq
  <2>2. trie = Branch(ch)
    BY <2>1 DEF Above
  <2>3. ASSUME NEW k \in Keys(n) PROVE From(k, m + 1) = k
    <3>1. 0 \in 0..n
      OBVIOUS
    <3>2. From(k, 0 + 1) \in Keys(n - 0) /\ \A i \in 1..(n - 0) : From(k, 0 + 1)[i] = k[0 + i]
      BY <3>1, KeyCut
    <3>3. n - 0 = n /\ \A i \in 1..n : 0 + i = i
      OBVIOUS
    <3>4. From(k, 0 + 1) = k
      BY <3>2, <3>3, SameKey
    <3> QED
      BY <1>1, <3>4
  <2>4. n - m = n /\ \A k : \A i \in 1..m : p[i] = k[i]
    BY <1>1
  <2> HIDE DEF trie
  <2>5. \A k \in Keys(n) : Lookup(trie, k) = IF \A i \in 1..m : p[i] = k[i] THEN Lookup(Branch(ch), From(k, m + 1)) ELSE {}
    BY <2>2, <2>3, <2>4
  <2>6. Shaped(trie, n) /\ trie # NoNode
    BY <2>2, <2>4, NodeKinds
  <2> QED
    BY <2>5, <2>6 DEF trie
<1>2. CASE m # 0
  <2>1. p # << >> /\ m \in 1..(n - 1)
    BY <1>2, KeyLengths
  <2>2. trie = Extension(p, Branch(ch))
    BY <2>1 DEF Above
  <2>3. Shaped(trie, n) /\ trie # NoNode
    BY <2>1, <2>2, ShapedExtension, NodeKinds
  <2>4. \A k \in Keys(n) : Lookup(trie, k) = IF \A i \in 1..m : p[i] = k[i] THEN Lookup(Branch(ch), From(k, m + 1)) ELSE {}
    BY <2>1, <2>2, FoundExtension
  <2> QED
    BY <2>3, <2>4
<1> QED
  BY <1>1, <1>2

\* A branch with two children, the one a new leaf.
Fork(x, child, y, leaf) == [NoChildren EXCEPT ![x] = child, ![y] = leaf]

LEMMA ForkFound ==
  ASSUME NEW n \in Nat, n >= 1, NEW x \in Nibbles, NEW y \in Nibbles, x # y,
         NEW child, Shaped(child, n - 1), NEW leaf, Shaped(leaf, n - 1)
  PROVE  /\ Shaped(Branch(Fork(x, child, y, leaf)), n)
         /\ \A k \in Keys(n) : Lookup(Branch(Fork(x, child, y, leaf)), k) =
                                 IF k[1] = x THEN Lookup(child, Tail(k))
                                 ELSE IF k[1] = y THEN Lookup(leaf, Tail(k)) ELSE {}
<1> DEFINE ch == Fork(x, child, y, leaf)
<1>1. OfNibbles(ch)
  BY DEF OfNibbles, Fork, NoChildren
<1>2. \A z \in Nibbles : ch[z] = IF z = x THEN child ELSE IF z = y THEN leaf ELSE NoNode
  BY DEF Fork, NoChildren
<1> HIDE DEF ch
<1>3. n - 1 \in Nat
  OBVIOUS
<1>4. \A z \in Nibbles : Shaped(ch[z], n - 1)
  BY <1>2, <1>3, ShapedNone
<1>5. Shaped(Branch(ch), n)
  BY <1>1, <1>4, ShapedBranch
<1>6. ASSUME NEW k \in Keys(n)
      PROVE  Lookup(Branch(ch), k) = IF k[1] = x THEN Lookup(child, Tail(k))
                                     ELSE IF k[1] = y THEN Lookup(leaf, Tail(k)) ELSE {}
  <2>1. k[1] \in Nibbles /\ Tail(k) \in Keys(n - 1)
    BY KeyStep
  <2>2. Lookup(Branch(ch), k) = Lookup(ch[k[1]], Tail(k))
    BY <1>1, <1>4, FoundBranch
  <2>3. Lookup(NoNode, Tail(k)) = {}
    BY <1>3, <2>1, FoundNone
  <2> QED
    BY <1>2, <2>1, <2>2, <2>3
<1> QED
  BY <1>5, <1>6 DEF ch

\* A node split where a new key leaves it: what was below is found as before, and the key.
SplitAt(key, value, c, x, child) ==
  Above(SubSeq(key, 1, c), Branch(Fork(x, child, key[c + 1], Leaf(From(key, c + 2), value))))

LEMMA SplitFound ==
  ASSUME NEW n \in Nat, NEW key \in Keys(n), NEW value, NEW c \in 0..(n - 1),
         NEW x \in Nibbles, x # key[c + 1], NEW child, Shaped(child, n - (c + 1))
  PROVE  /\ Shaped(SplitAt(key, value, c, x, child), n) /\ SplitAt(key, value, c, x, child) # NoNode
         /\ \A k \in Keys(n) :
              Lookup(SplitAt(key, value, c, x, child), k) =
                IF k = key THEN {value}
                ELSE IF (\A i \in 1..c : k[i] = key[i]) /\ k[c + 1] = x THEN Lookup(child, From(k, c + 2)) ELSE {}
<1> DEFINE y == key[c + 1]
           rest == From(key, c + 2)
           leaf == Leaf(rest, value)
           ch == Fork(x, child, y, leaf)
           p == SubSeq(key, 1, c)
           m == n - c
           trie == Above(p, Branch(ch))
<1>1. m \in Nat /\ m >= 1 /\ m - 1 = n - (c + 1) /\ m - 1 \in Nat /\ c \in 0..n /\ c + 1 \in 1..n /\ c + 1 \in 0..n /\ (c + 1) + 1 = c + 2
  OBVIOUS
<1>2. y \in Nibbles /\ y # x
  BY <1>1 DEF Keys
<1>3. p \in Keys(c) /\ \A i \in 1..c : p[i] = key[i]
  BY <1>1, KeyCut
<1>4. \A k \in Keys(n) : From(k, c + 2) \in Keys(m - 1)
  <2>1. \A k \in Keys(n) : From(k, (c + 1) + 1) \in Keys(n - (c + 1))
    BY <1>1, KeyCut
  <2> QED
    BY <1>1, <2>1
<1>5. \A k \in Keys(n) : From(k, c + 1) \in Keys(m) /\ From(k, c + 1)[1] = k[c + 1] /\ Tail(From(k, c + 1)) = From(k, c + 2)
  BY <1>1, KeyCut, TailFrom
<1>6. rest \in Keys(m - 1)
  BY <1>4
<1>7. Shaped(leaf, m - 1) /\ Shaped(child, m - 1)
  BY <1>1, <1>6, ShapedLeaf
<1>8. SplitAt(key, value, c, x, child) = trie
  BY DEF SplitAt
<1> HIDE DEF m, y, rest, p
<1>9. /\ Shaped(Branch(ch), m)
      /\ \A l \in Keys(m) : Lookup(Branch(ch), l) = IF l[1] = x THEN Lookup(child, Tail(l))
                                                    ELSE IF l[1] = y THEN Lookup(leaf, Tail(l)) ELSE {}
  <2> HIDE DEF leaf
  <2> QED
    BY <1>1, <1>2, <1>7, ForkFound
<1> HIDE DEF ch
<1>10. /\ Shaped(trie, n) /\ trie # NoNode
       /\ \A k \in Keys(n) : Lookup(trie, k) = IF \A i \in 1..c : p[i] = k[i] THEN Lookup(Branch(ch), From(k, c + 1)) ELSE {}
  <2>1. Shaped(Branch(ch), n - c)
    BY <1>9 DEF m
  <2> QED
    BY <1>3, <2>1, AboveBranch
<1> HIDE DEF trie
<1>11. ASSUME NEW k \in Keys(n)
       PROVE  Lookup(trie, k) =
                IF k = key THEN {value}
                ELSE IF (\A i \in 1..c : k[i] = key[i]) /\ k[c + 1] = x THEN Lookup(child, From(k, c + 2)) ELSE {}
  <2> DEFINE same == \A i \in 1..c : k[i] = key[i]
             below == From(k, c + 2)
  <2>1. k = key <=> same /\ k[c + 1] = y /\ below = rest
    BY KeyParts DEF y, rest
  <2>2. same <=> \A i \in 1..c : p[i] = k[i]
    BY <1>3
  <2>3. Lookup(Branch(ch), From(k, c + 1)) = IF k[c + 1] = x THEN Lookup(child, below)
                                             ELSE IF k[c + 1] = y THEN Lookup(leaf, below) ELSE {}
    BY <1>5, <1>9
  <2>4. Lookup(leaf, below) = IF rest = below THEN {value} ELSE {}
    BY <1>1, <1>4, <1>6, FoundLeaf
  <2>5. Lookup(trie, k) = IF same THEN Lookup(Branch(ch), From(k, c + 1)) ELSE {}
    BY <1>10, <2>2
  <2> HIDE DEF same, below, leaf
  <2>6. Lookup(trie, k) = IF k = key THEN {value} ELSE IF same /\ k[c + 1] = x THEN Lookup(child, below) ELSE {}
    <3>1. CASE ~same
      BY <2>1, <2>5, <3>1
    <3>2. CASE same /\ k[c + 1] = x
      BY <1>2, <2>1, <2>3, <2>5, <3>2
    <3>3. CASE same /\ k[c + 1] # x
      BY <2>1, <2>3, <2>4, <2>5, <3>3
    <3> QED
      BY <3>1, <3>2, <3>3
  <2> QED
    BY <2>6 DEF same, below
<1> QED
  BY <1>8, <1>10, <1>11

LEMMA SplitLeafFound ==
  ASSUME NEW n \in Nat, NEW key \in Keys(n), NEW value, NEW s \in Keys(n), s # key, NEW v
  PROVE  LET new == SplitLeaf(Leaf(s, v), key, value)
         IN  /\ Shaped(new, n) /\ new # NoNode
             /\ \A k \in Keys(n) : Lookup(new, k) = IF k = key THEN {value} ELSE Lookup(Leaf(s, v), k)
<1> DEFINE c == Common(key, s)
           x == s[c + 1]
           rest == From(s, c + 2)
           child == Leaf(rest, v)
           new == SplitAt(key, value, c, x, child)
<1>1. SplitLeaf(Leaf(s, v), key, value) = new
  <2> DEFINE trie == Leaf(s, v)
  <2>1. trie.suffix = s /\ trie.value = v
    BY NodeKinds
  <2> HIDE DEF trie
  <2>2. SplitLeaf(trie, key, value) = new
    BY <2>1 DEF SplitLeaf, SplitAt, Fork
  <2> QED
    BY <2>2 DEF trie
<1>2. /\ c \in Nat /\ c <= n /\ \A i \in 1..c : key[i] = s[i]
      /\ c < n => key[c + 1] # s[c + 1]
  BY KeyCommon
<1> HIDE DEF c
<1>3. c \in 0..(n - 1)
  <2>1. c # n
    BY <1>2, SameKey
  <2> QED
    BY <1>2, <2>1
<1>4. c + 1 \in 1..n /\ c + 1 \in 0..n /\ n - (c + 1) \in Nat /\ (c + 1) + 1 = c + 2
  BY <1>3
<1>5. x \in Nibbles /\ x # key[c + 1]
  BY <1>2, <1>3, <1>4 DEF Keys
<1>6. \A k \in Keys(n) : From(k, c + 2) \in Keys(n - (c + 1))
  <2>1. \A k \in Keys(n) : From(k, (c + 1) + 1) \in Keys(n - (c + 1))
    BY <1>4, KeyCut
  <2> QED
    BY <1>4, <2>1
<1>7. rest \in Keys(n - (c + 1)) /\ Shaped(child, n - (c + 1))
  BY <1>4, <1>6, ShapedLeaf
<1> HIDE DEF x, rest, child
<1>8. /\ Shaped(new, n) /\ new # NoNode
      /\ \A k \in Keys(n) :
           Lookup(new, k) = IF k = key THEN {value}
                            ELSE IF (\A i \in 1..c : k[i] = key[i]) /\ k[c + 1] = x THEN Lookup(child, From(k, c + 2)) ELSE {}
  BY <1>3, <1>5, <1>7, SplitFound
<1> HIDE DEF new
<1>9. ASSUME NEW k \in Keys(n) PROVE Lookup(new, k) = IF k = key THEN {value} ELSE Lookup(Leaf(s, v), k)
  <2> DEFINE same == \A i \in 1..c : k[i] = key[i]
             below == From(k, c + 2)
  <2>1. Lookup(Leaf(s, v), k) = IF s = k THEN {v} ELSE {}
    BY FoundLeaf
  <2>2. Lookup(child, below) = IF rest = below THEN {v} ELSE {}
    BY <1>4, <1>6, <1>7, FoundLeaf DEF child
  <2>3. k = s <=> (\A i \in 1..c : k[i] = s[i]) /\ k[c + 1] = x /\ below = rest
    BY <1>3, KeyParts DEF x, rest
  <2>4. same <=> \A i \in 1..c : k[i] = s[i]
    BY <1>2
  <2>5. Lookup(new, k) = IF k = key THEN {value} ELSE IF same /\ k[c + 1] = x THEN Lookup(child, below) ELSE {}
    BY <1>8
  <2> HIDE DEF same, below
  <2> QED
    BY <2>1, <2>2, <2>3, <2>4, <2>5
<1> QED
  BY <1>1, <1>8, <1>9

LEMMA SplitExtensionFound ==
  ASSUME NEW n \in Nat, NEW key \in Keys(n), NEW value, NEW m \in 1..(n - 1), NEW p \in Keys(m), NEW ch,
         Shaped(Branch(ch), n - m), ~\A i \in 1..m : p[i] = key[i]
  PROVE  LET ext == Extension(p, Branch(ch))
             new == SplitExtension(ext, key, value)
         IN  /\ Shaped(new, n) /\ new # NoNode
             /\ \A k \in Keys(n) : Lookup(new, k) = IF k = key THEN {value} ELSE Lookup(ext, k)
<1> DEFINE ext == Extension(p, Branch(ch))
           c == Common(key, p)
           x == p[c + 1]
           rest == From(p, c + 2)
           child == Above(rest, Branch(ch))
           new == SplitAt(key, value, c, x, child)
<1>1. SplitExtension(ext, key, value) = new
  <2> DEFINE trie == ext
  <2>1. trie.prefix = p /\ trie.child = Branch(ch)
    BY NodeKinds
  <2> HIDE DEF trie
  <2>2. SplitExtension(trie, key, value) = new
    BY <2>1 DEF SplitExtension, SplitAt, Fork
  <2> QED
    BY <2>2 DEF trie
<1>2. /\ c \in Nat /\ c <= n /\ c <= m /\ \A i \in 1..c : key[i] = p[i]
      /\ c < n /\ c < m => key[c + 1] # p[c + 1]
  BY KeyCommon
<1> HIDE DEF c
<1>3. c \in 0..(m - 1) /\ c \in 0..(n - 1)
  <2>1. c # m
    BY <1>2
  <2> QED
    BY <1>2, <2>1
<1> DEFINE l == n - (c + 1)
           r == m - (c + 1)
<1>4. /\ c + 1 \in 1..n /\ c + 1 \in 0..n /\ c + 1 \in 1..m /\ c + 1 \in 0..m /\ (c + 1) + 1 = c + 2
      /\ l \in Nat /\ r \in 0..(l - 1) /\ l - r = n - m /\ (c + 1) + r = m
  BY <1>3
<1>5. x \in Nibbles /\ x # key[c + 1]
  BY <1>2, <1>3, <1>4 DEF Keys
<1>6. \A k \in Keys(n) : From(k, c + 2) \in Keys(l) /\ \A i \in 1..l : From(k, c + 2)[i] = k[(c + 1) + i]
  <2>1. \A k \in Keys(n) : From(k, (c + 1) + 1) \in Keys(n - (c + 1))
                           /\ \A i \in 1..(n - (c + 1)) : From(k, (c + 1) + 1)[i] = k[(c + 1) + i]
    BY <1>4, KeyCut
  <2> QED
    BY <1>4, <2>1
<1>7. rest \in Keys(r) /\ \A i \in 1..r : rest[i] = p[(c + 1) + i]
  <2>1. From(p, (c + 1) + 1) \in Keys(m - (c + 1))
        /\ \A i \in 1..(m - (c + 1)) : From(p, (c + 1) + 1)[i] = p[(c + 1) + i]
    <3>1. m \in Nat
      OBVIOUS
    <3> QED
      BY <1>4, <3>1, KeyCut
  <2> QED
    BY <1>4, <2>1
<1> HIDE DEF l, r, x, rest
<1>8. /\ Shaped(child, l)
      /\ \A k \in Keys(l) : Lookup(child, k) = IF \A i \in 1..r : rest[i] = k[i] THEN Lookup(Branch(ch), From(k, r + 1)) ELSE {}
  BY <1>4, <1>7, AboveBranch
<1> HIDE DEF child
<1>9. /\ Shaped(new, n) /\ new # NoNode
      /\ \A k \in Keys(n) :
           Lookup(new, k) = IF k = key THEN {value}
                            ELSE IF (\A i \in 1..c : k[i] = key[i]) /\ k[c + 1] = x THEN Lookup(child, From(k, c + 2)) ELSE {}
  BY <1>3, <1>5, <1>8, SplitFound DEF l
<1> HIDE DEF new
<1>10. ASSUME NEW k \in Keys(n) PROVE Lookup(new, k) = IF k = key THEN {value} ELSE Lookup(ext, k)
  <2> DEFINE same == \A i \in 1..c : k[i] = key[i]
             below == From(k, c + 2)
             fits == \A i \in 1..m : p[i] = k[i]
             fitsBelow == \A i \in 1..r : rest[i] = below[i]
  <2>1. Lookup(ext, k) = IF fits THEN Lookup(Branch(ch), From(k, m + 1)) ELSE {}
    BY FoundExtension
  <2>2. below \in Keys(l) /\ \A i \in 1..l : below[i] = k[(c + 1) + i]
    BY <1>6
  <2>3. Lookup(child, below) = IF fitsBelow THEN Lookup(Branch(ch), From(below, r + 1)) ELSE {}
    BY <1>8, <2>2
  <2>4. From(below, r + 1) = From(k, m + 1)
    <3>1. c + 1 \in 0..n /\ r \in 0..(n - (c + 1))
      BY <1>4 DEF l
    <3>2. From(From(k, (c + 1) + 1), r + 1) = From(k, (c + 1) + r + 1)
      BY <3>1, FromFrom
    <3> QED
      BY <1>4, <3>2
  <2>5. fits <=> same /\ k[c + 1] = x /\ fitsBelow
    <3>1. ASSUME fits PROVE same /\ k[c + 1] = x /\ fitsBelow
      <4>1. same
        BY <1>2, <1>3, <3>1
      <4>2. k[c + 1] = x
        BY <1>4, <3>1 DEF x
      <4>3. ASSUME NEW i \in 1..r PROVE rest[i] = below[i]
        <5>1. (c + 1) + i \in 1..m /\ i \in 1..l
          BY <1>3, <1>4
        <5> QED
          BY <1>7, <2>2, <3>1, <5>1
      <4> QED
        BY <4>1, <4>2, <4>3
    <3>2. ASSUME same, k[c + 1] = x, fitsBelow, NEW i \in 1..m PROVE p[i] = k[i]
      <4>1. CASE i \in 1..c
        BY <1>2, <3>2, <4>1
      <4>2. CASE i = c + 1
        BY <3>2, <4>2 DEF x
      <4>3. CASE i > c + 1
        <5> DEFINE j == i - (c + 1)
        <5>1. j \in 1..r /\ j \in 1..l /\ (c + 1) + j = i
          BY <1>3, <1>4, <4>3 DEF r
        <5> HIDE DEF j
        <5>2. rest[j] = p[(c + 1) + j] /\ below[j] = k[(c + 1) + j] /\ rest[j] = below[j]
          BY <1>7, <2>2, <3>2, <5>1
        <5> QED
          BY <5>1, <5>2
      <4> QED
        BY <1>3, <4>1, <4>2, <4>3
    <3> QED
      BY <3>1, <3>2
  <2>6. Lookup(new, k) = IF k = key THEN {value} ELSE IF same /\ k[c + 1] = x THEN Lookup(child, below) ELSE {}
    BY <1>9
  <2> HIDE DEF same, below, fits, fitsBelow
  <2> QED
    BY <2>1, <2>3, <2>4, <2>5, <2>6
<1> QED
  BY <1>1, <1>9, <1>10

\* What is found once a key was put.
Put(trie, new, key, value, n) ==
  /\ Shaped(new, n) /\ new # NoNode
  /\ trie.kind = "branch" => new.kind = "branch"
  /\ \A k \in Keys(n) : Lookup(new, k) = IF k = key THEN {value} ELSE Lookup(trie, k)
AddsAt(value, n) == \A trie, key : Shaped(trie, n) /\ key \in Keys(n) => Put(trie, Inserted(trie, key, value), key, value, n)

LEMMA InsertionAnswers ==
  ASSUME NEW value
  PROVE  /\ \A c : AtEnd(Insertion(value), c) = Placed(c, value)
         /\ \A c, answer : Returning(Insertion(value), c, answer) = WithChild(c, answer)
<1>1. Insertion(value).op = "insert" /\ Insertion(value).value = value
  BY DEF Insertion
<1> QED
  BY <1>1 DEF AtEnd, Returning

LEMMA CallParts == ASSUME NEW trie, NEW key PROVE Call(trie, key).node = trie /\ Call(trie, key).key = key
  BY DEF Call

LEMMA BranchOf ==
  ASSUME NEW trie, NEW n, Shaped(trie, n), trie.kind = "branch"
  PROVE  \E ch : trie = Branch(ch) /\ OfNibbles(ch) /\ n >= 1 /\ \A x \in Nibbles : Shaped(ch[x], n - 1)
<1>1. trie # NoNode /\ ~LeafShape(trie, n) /\ \A p, x : trie # Extension(p, x)
  BY NodeKinds
<1> QED
  BY <1>1, ShapedCases

\* Of all keys one is found otherwise.
Differs(new, old, key, given, n) == \A k \in Keys(n) : Lookup(new, k) = IF k = key THEN given ELSE Lookup(old, k)

LEMMA ChildReplaced ==
  ASSUME NEW n \in Nat, n >= 1, NEW ch, OfNibbles(ch), \A x \in Nibbles : Shaped(ch[x], n - 1),
         NEW key \in Keys(n), NEW new, Shaped(new, n - 1), NEW given,
         Differs(new, ch[key[1]], Tail(key), given, n - 1)
  PROVE  LET left == [ch EXCEPT ![Head(key)] = new]
         IN  /\ Shaped(Branch(left), n) /\ OfNibbles(left) /\ \A x \in Nibbles : Shaped(left[x], n - 1)
             /\ Differs(Branch(left), Branch(ch), key, given, n)
<1> DEFINE left == [ch EXCEPT ![Head(key)] = new]
           h == key[1]
<1>1. Head(key) = h /\ h \in Nibbles /\ n - 1 \in Nat
  BY KeyStep
<1>2. OfNibbles(left) /\ \A x \in Nibbles : left[x] = IF x = h THEN new ELSE ch[x]
  BY <1>1 DEF OfNibbles
<1> HIDE DEF left, h
<1>3. \A x \in Nibbles : Shaped(left[x], n - 1)
  BY <1>2
<1>4. Shaped(Branch(left), n)
  BY <1>2, <1>3, ShapedBranch
<1>5. ASSUME NEW k \in Keys(n) PROVE Lookup(Branch(left), k) = IF k = key THEN given ELSE Lookup(Branch(ch), k)
  <2>1. k[1] \in Nibbles /\ Tail(k) \in Keys(n - 1)
    BY KeyStep
  <2>2. Lookup(Branch(left), k) = Lookup(left[k[1]], Tail(k)) /\ Lookup(Branch(ch), k) = Lookup(ch[k[1]], Tail(k))
    BY <1>2, <1>3, FoundBranch
  <2>3. k = key <=> k[1] = h /\ Tail(k) = Tail(key)
    <3>1. ASSUME k[1] = h, Tail(k) = Tail(key), NEW i \in 1..n PROVE k[i] = key[i]
      <4>1. CASE i = 1
        BY <3>1, <4>1 DEF h
      <4>2. CASE i # 1
        <5>1. i - 1 \in 1..(n - 1) /\ (i - 1) + 1 = i
          BY <4>2
        <5>2. Tail(k)[i - 1] = k[(i - 1) + 1] /\ Tail(key)[i - 1] = key[(i - 1) + 1]
          BY <5>1, KeyStep
        <5> QED
          BY <3>1, <5>1, <5>2
      <4> QED
        BY <4>1, <4>2
    <3>2. ASSUME k[1] = h, Tail(k) = Tail(key) PROVE k = key
      BY <3>1, <3>2, SameKey
    <3> QED
      BY <3>2 DEF h
  <2>4. CASE k[1] = h
    <3>1. Lookup(new, Tail(k)) = IF Tail(k) = Tail(key) THEN given ELSE Lookup(ch[h], Tail(k))
      BY <2>1 DEF h, Differs
    <3> QED
      BY <1>2, <2>1, <2>2, <2>3, <2>4, <3>1
  <2>5. CASE k[1] # h
    BY <1>2, <2>1, <2>2, <2>3, <2>5
  <2> QED
    BY <2>4, <2>5
<1> QED
  BY <1>2, <1>3, <1>4, <1>5 DEF left, Differs

LEMMA BelowReplaced ==
  ASSUME NEW n \in Nat, NEW m \in 1..(n - 1), NEW p \in Keys(m), NEW ch, Shaped(Branch(ch), n - m),
         NEW key \in Keys(n), Starts(p, m, key),
         NEW new, Shaped(Branch(new), n - m), NEW given,
         Differs(Branch(new), Branch(ch), From(key, m + 1), given, n - m)
  PROVE  /\ Shaped(Extension(p, Branch(new)), n)
         /\ Differs(Extension(p, Branch(new)), Extension(p, Branch(ch)), key, given, n)
<1> DEFINE trie == Extension(p, Branch(new))
           old == Extension(p, Branch(ch))
<1>1. Shaped(trie, n)
  BY ShapedExtension
<1>2. ASSUME NEW k \in Keys(n) PROVE Lookup(trie, k) = IF k = key THEN given ELSE Lookup(old, k)
  <2> DEFINE fits == \A i \in 1..m : p[i] = k[i]
             below == From(k, m + 1)
             rest == From(key, m + 1)
  <2>1. Lookup(trie, k) = IF fits THEN Lookup(Branch(new), below) ELSE {}
    BY FoundExtension
  <2>2. Lookup(old, k) = IF fits THEN Lookup(Branch(ch), below) ELSE {}
    BY FoundExtension
  <2>3. m \in 0..n
    OBVIOUS
  <2>4. /\ below \in Keys(n - m) /\ \A i \in 1..(n - m) : below[i] = k[m + i]
        /\ \A i \in 1..(n - m) : rest[i] = key[m + i]
    BY <2>3, KeyCut
  <2>5. k = key <=> fits /\ below = rest
    <3>1. ASSUME fits, below = rest, NEW i \in 1..n PROVE k[i] = key[i]
      <4>1. CASE i \in 1..m
        BY <3>1, <4>1 DEF Starts
      <4>2. CASE ~(i \in 1..m)
        <5>1. i - m \in 1..(n - m) /\ m + (i - m) = i
          BY <4>2
        <5>2. below[i - m] = k[m + (i - m)] /\ rest[i - m] = key[m + (i - m)]
          BY <2>4, <5>1
        <5> QED
          BY <3>1, <5>1, <5>2
      <4> QED
        BY <4>1, <4>2
    <3>2. ASSUME fits, below = rest PROVE k = key
      BY <3>1, <3>2, SameKey
    <3>3. ASSUME k = key PROVE fits /\ below = rest
      BY <3>3 DEF Starts
    <3> QED
      BY <3>2, <3>3
  <2>6. Lookup(Branch(new), below) = IF below = rest THEN given ELSE Lookup(Branch(ch), below)
    BY <2>4 DEF Differs
  <2> HIDE DEF fits, below, rest, trie, old
  <2> QED
    BY <2>1, <2>2, <2>5, <2>6
<1> QED
  BY <1>1, <1>2 DEF Differs

LEMMA AddedHere ==
  ASSUME NEW value, NEW n \in Nat, \A m \in 0..(n - 1) : AddsAt(value, m)
  PROVE  AddsAt(value, n)
<1> SUFFICES ASSUME NEW trie, NEW key \in Keys(n), Shaped(trie, n)
             PROVE  Put(trie, Inserted(trie, key, value), key, value, n)
  BY DEF AddsAt
<1> DEFINE task == Insertion(value)
           c == Call(trie, key)
           new == Inserted(trie, key, value)
<1>1. new = Result(task, trie, key)
  BY DEF Inserted
<1>2. AtEnd(task, c) = Placed(c, value) /\ \A answer : Returning(task, c, answer) = WithChild(c, answer)
  BY InsertionAnswers
<1>3. c.node = trie /\ c.key = key
  BY CallParts
<1> HIDE DEF task, new, c
<1>4. CASE trie = NoNode
  <2>1. new = Placed(c, value)
    BY <1>1, <1>2, <1>4, ResultStops DEF c
  <2>2. new = Leaf(key, value)
    BY <1>3, <1>4, <2>1, NodeKinds DEF Placed
  <2>3. Shaped(new, n) /\ new # NoNode /\ trie.kind # "branch"
    BY <1>4, <2>2, ShapedLeaf, NodeKinds
  <2>4. \A k \in Keys(n) : Lookup(new, k) = IF key = k THEN {value} ELSE {}
    BY <2>2, FoundLeaf
  <2>5. \A k \in Keys(n) : Lookup(trie, k) = {}
    BY <1>4, FoundNone
  <2> QED
    BY <2>3, <2>4, <2>5 DEF Put, new
<1>5. CASE LeafShape(trie, n)
  <2>1. PICK s, v : s \in Keys(n) /\ trie = Leaf(s, v)
    BY <1>5 DEF LeafShape
  <2>2. new = Placed(c, value)
    BY <1>1, <1>2, <1>5, ResultStops DEF c
  <2>3. new = IF s = key THEN Leaf(key, value) ELSE SplitLeaf(Leaf(s, v), key, value)
    BY <1>3, <2>1, <2>2, NodeKinds DEF Placed
  <2>4. trie.kind # "branch"
    BY <2>1, NodeKinds
  <2>5. CASE s = key
    <3>1. Shaped(new, n) /\ new # NoNode
      BY <2>3, <2>5, ShapedLeaf, NodeKinds
    <3>2. \A k \in Keys(n) : Lookup(new, k) = IF key = k THEN {value} ELSE {}
      BY <2>3, <2>5, FoundLeaf
    <3>3. \A k \in Keys(n) : Lookup(trie, k) = IF key = k THEN {v} ELSE {}
      BY <2>1, <2>5, FoundLeaf
    <3> QED
      BY <2>4, <3>1, <3>2, <3>3 DEF Put, new
  <2>6. CASE s # key
    <3>1. /\ Shaped(new, n) /\ new # NoNode
          /\ \A k \in Keys(n) : Lookup(new, k) = IF k = key THEN {value} ELSE Lookup(Leaf(s, v), k)
      <4> DEFINE split == SplitLeaf(Leaf(s, v), key, value)
      <4>1. /\ Shaped(split, n) /\ split # NoNode
            /\ \A k \in Keys(n) : Lookup(split, k) = IF k = key THEN {value} ELSE Lookup(Leaf(s, v), k)
        BY <2>1, <2>6, SplitLeafFound
      <4>2. new = split
        BY <2>3, <2>6
      <4> HIDE DEF split
      <4> QED
        BY <4>1, <4>2
    <3> QED
      BY <2>1, <2>4, <3>1 DEF Put, new
  <2> QED
    BY <2>5, <2>6
<1>6. CASE \E m \in 1..(n - 1) : \E p \in Keys(m) : \E ch : trie = Extension(p, Branch(ch)) /\ Shaped(Branch(ch), n - m)
  <2>1. PICK m \in 1..(n - 1) : \E p \in Keys(m) : \E ch : trie = Extension(p, Branch(ch)) /\ Shaped(Branch(ch), n - m)
    BY <1>6
  <2>2. PICK p, ch : p \in Keys(m) /\ trie = Extension(p, Branch(ch)) /\ Shaped(Branch(ch), n - m)
    BY <2>1
  <2> DEFINE rest == From(key, m + 1)
             fits == Starts(p, m, key)
             below == Inserted(Branch(ch), rest, value)
  <2>3. new = IF fits THEN WithChild(c, below) ELSE Placed(c, value)
    <3>1. Result(task, trie, key) = IF fits THEN Returning(task, c, Result(task, Branch(ch), rest)) ELSE AtEnd(task, c)
      <4> DEFINE ext == Extension(p, Branch(ch))
      <4>1. Result(task, ext, key) =
              IF fits THEN Returning(task, Call(ext, key), Result(task, Branch(ch), From(key, m + 1)))
              ELSE AtEnd(task, Call(ext, key))
        <5>1. p \in Keys(m) /\ Shaped(Branch(ch), n - m)
          BY <2>2
        <5> HIDE DEF task
        <5> QED
          BY <5>1, ResultExtension
      <4>2. trie = ext
        BY <2>2
      <4> HIDE DEF ext
      <4> QED
        BY <4>1, <4>2 DEF c
    <3>2. below = Result(task, Branch(ch), rest)
      BY DEF Inserted, task
    <3> HIDE DEF below, fits, rest
    <3> QED
      BY <1>1, <1>2, <3>1, <3>2
  <2>4. trie.kind # "branch" /\ c.node.kind = "extension" /\ c.node.prefix = p
    BY <1>3, <2>2, NodeKinds
  <2>5. CASE fits
    <3>1. m \in 0..n /\ n - m \in 0..(n - 1)
      OBVIOUS
    <3>2. rest \in Keys(n - m)
      BY <3>1, KeyCut
    <3> HIDE DEF rest
    <3>3. Put(Branch(ch), below, rest, value, n - m)
      BY <2>2, <3>1, <3>2 DEF AddsAt
    <3>4. PICK ch2 : below = Branch(ch2)
      <4>1. Shaped(below, n - m) /\ below.kind = "branch"
        BY <3>3, NodeKinds DEF Put
      <4> HIDE DEF below
      <4> QED
        BY <4>1, BranchOf
    <3> HIDE DEF below
    <3>5. new = Extension(p, Branch(ch2))
      <4>1. new = WithChild(c, below)
        BY <2>3, <2>5
      <4> QED
        BY <2>4, <3>4, <4>1 DEF WithChild
    <3>6. /\ Shaped(Branch(ch2), n - m)
          /\ \A l \in Keys(n - m) : Lookup(Branch(ch2), l) = IF l = rest THEN {value} ELSE Lookup(Branch(ch), l)
      BY <3>3, <3>4 DEF Put
    <3>7. /\ Shaped(new, n)
          /\ \A k \in Keys(n) : Lookup(new, k) = IF k = key THEN {value} ELSE Lookup(trie, k)
      <4> DEFINE ext == Extension(p, Branch(ch2))
                 old == Extension(p, Branch(ch))
      <4>1. /\ Shaped(ext, n)
            /\ \A k \in Keys(n) : Lookup(ext, k) = IF k = key THEN {value} ELSE Lookup(old, k)
        <5>1. p \in Keys(m) /\ Shaped(Branch(ch), n - m) /\ Shaped(Branch(ch2), n - m) /\ Starts(p, m, key)
          BY <2>2, <2>5, <3>6
        <5>2. Differs(Branch(ch2), Branch(ch), From(key, m + 1), {value}, n - m)
          BY <3>6 DEF rest, Differs
        <5>3. Shaped(ext, n) /\ Differs(ext, old, key, {value}, n)
          BY <5>1, <5>2, BelowReplaced
        <5> QED
          BY <5>3 DEF Differs
      <4>2. new = ext /\ trie = old
        BY <2>2, <3>5
      <4> HIDE DEF ext, old
      <4> QED
        BY <4>1, <4>2
    <3>8. new # NoNode
      BY <3>5, NodeKinds
    <3> QED
      BY <2>4, <3>7, <3>8 DEF Put, new
  <2>6. CASE ~fits
    <3>1. new = SplitExtension(trie, key, value)
      <4>1. Placed(c, value) = SplitExtension(c.node, c.key, value)
        BY <2>4 DEF Placed
      <4> HIDE DEF fits
      <4> QED
        BY <1>3, <2>3, <2>6, <4>1
    <3>2. /\ Shaped(new, n) /\ new # NoNode
          /\ \A k \in Keys(n) : Lookup(new, k) = IF k = key THEN {value} ELSE Lookup(trie, k)
      <4> DEFINE ext == Extension(p, Branch(ch))
                 split == SplitExtension(ext, key, value)
      <4>1. /\ Shaped(split, n) /\ split # NoNode
            /\ \A k \in Keys(n) : Lookup(split, k) = IF k = key THEN {value} ELSE Lookup(ext, k)
        <5>1. p \in Keys(m) /\ Shaped(Branch(ch), n - m) /\ ~\A i \in 1..m : p[i] = key[i]
          BY <2>2, <2>6 DEF Starts
        <5> QED
          BY <5>1, SplitExtensionFound
      <4>2. new = split /\ trie = ext
        BY <2>2, <3>1
      <4> HIDE DEF split, ext
      <4> QED
        BY <4>1, <4>2
    <3> QED
      BY <2>4, <3>2 DEF Put, new
  <2> QED
    BY <2>5, <2>6
<1>7. CASE \E ch : trie = Branch(ch) /\ OfNibbles(ch) /\ n >= 1 /\ \A x \in Nibbles : Shaped(ch[x], n - 1)
  <2>1. PICK ch : trie = Branch(ch) /\ OfNibbles(ch) /\ n >= 1 /\ \A x \in Nibbles : Shaped(ch[x], n - 1)
    BY <1>7
  <2> DEFINE h == key[1]
             rest == Tail(key)
             below == Inserted(ch[h], rest, value)
             left == [ch EXCEPT ![Head(key)] = below]
  <2>2. h \in Nibbles /\ rest \in Keys(n - 1) /\ n - 1 \in 0..(n - 1)
    BY <2>1, KeyStep
  <2>3. new = WithChild(c, below)
    <3>1. Result(task, trie, key) = Returning(task, c, Result(task, ch[h], rest))
      BY <2>1, ResultBranch DEF c
    <3>2. below = Result(task, ch[h], rest)
      BY DEF Inserted, task
    <3> HIDE DEF below, h, rest
    <3> QED
      BY <1>1, <1>2, <3>1, <3>2
  <2>4. new = Branch(left)
    <3>1. c.node.kind = "branch" /\ c.node.children = ch
      BY <1>3, <2>1, NodeKinds
    <3> HIDE DEF below
    <3> QED
      BY <1>3, <2>3, <3>1 DEF WithChild
  <2> HIDE DEF rest
  <2>5. Put(ch[h], below, rest, value, n - 1)
    <3> HIDE DEF h
    <3> QED
      BY <2>1, <2>2 DEF AddsAt
  <2> HIDE DEF below
  <2>6. /\ Shaped(Branch(left), n)
        /\ \A k \in Keys(n) : Lookup(Branch(left), k) = IF k = key THEN {value} ELSE Lookup(Branch(ch), k)
    <3>1. /\ Shaped(below, n - 1)
          /\ \A l \in Keys(n - 1) : Lookup(below, l) = IF l = Tail(key) THEN {value} ELSE Lookup(ch[key[1]], l)
      BY <2>5 DEF Put, rest
    <3>2. Differs(below, ch[key[1]], Tail(key), {value}, n - 1)
      BY <3>1 DEF Differs
    <3>3. Shaped(Branch(left), n) /\ Differs(Branch(left), Branch(ch), key, {value}, n)
      <4>1. OfNibbles(ch) /\ n >= 1 /\ (\A x \in Nibbles : Shaped(ch[x], n - 1)) /\ Shaped(below, n - 1)
        BY <2>1, <3>1
      <4> QED
        BY <3>2, <4>1, ChildReplaced
    <3> QED
      BY <3>3 DEF Differs
  <2>7. new # NoNode /\ new.kind = "branch"
    BY <2>4, NodeKinds
  <2> HIDE DEF left
  <2> QED
    BY <2>1, <2>4, <2>6, <2>7 DEF Put, new
<1> QED
  BY <1>4, <1>5, <1>6, <1>7, ShapedCases

LEMMA InsertedFound == ASSUME NEW value, NEW n \in Nat PROVE AddsAt(value, n)
<1> DEFINE A == {m \in Nat : \A j \in 0..m : AddsAt(value, j)}
<1>1. 0 \in A
  <2>1. AddsAt(value, 0)
    <3>1. 0 \in Nat /\ \A m \in 0..(0 - 1) : AddsAt(value, m)
      OBVIOUS
    <3> QED
      BY <3>1, AddedHere
  <2>2. \A j \in 0..0 : j = 0
    OBVIOUS
  <2> QED
    BY <2>1, <2>2
<1>2. ASSUME NEW m \in Nat, m \in A PROVE m + 1 \in A
  <2>1. m + 1 \in Nat /\ \A j \in 0..((m + 1) - 1) : AddsAt(value, j)
    BY <1>2
  <2>2. AddsAt(value, m + 1)
    BY <2>1, AddedHere
  <2>3. \A j \in 0..(m + 1) : j = m + 1 \/ j \in 0..m
    OBVIOUS
  <2> QED
    BY <1>2, <2>1, <2>2, <2>3
<1>3. Nat \subseteq A
  <2> HIDE DEF A
  <2> QED
    BY <1>1, <1>2, AllNumbers
<1>4. n \in A
  <2> HIDE DEF A
  <2> QED
    BY <1>3
<1> QED
  BY <1>4

\* What is found once a key that was there was taken.
Gone(trie, new, key, n) ==
  /\ Shaped(new, n)
  /\ trie.kind = "branch" => new.kind \in {"branch", "none"}
  /\ Differs(new, trie, key, {}, n)
TakesAt(n) ==
  \A trie, key : Shaped(trie, n) /\ key \in Keys(n) /\ Lookup(trie, key) # {} => Gone(trie, Removed(trie, key), key, n)

LEMMA RemovalAnswers ==
  /\ \A c : AtEnd(Removal, c) = Taken(c)
  /\ \A c, answer : Returning(Removal, c, answer) = WithoutChild(c, answer)
<1>1. Removal.op = "remove"
  BY DEF Removal
<1> QED
  BY <1>1 DEF AtEnd, Returning

LEMMA NoneOf ==
  ASSUME NEW trie, NEW n, Shaped(trie, n), trie.kind = "none"
  PROVE  trie = NoNode
<1>1. ~LeafShape(trie, n) /\ (\A p, x : trie # Extension(p, x)) /\ \A ch : trie # Branch(ch)
  BY NodeKinds
<1> QED
  BY <1>1, ShapedCases

LEMMA GoneHere ==
  ASSUME NEW n \in Nat, \A m \in 0..(n - 1) : TakesAt(m)
  PROVE  TakesAt(n)
<1> SUFFICES ASSUME NEW trie, NEW key \in Keys(n), Shaped(trie, n), Lookup(trie, key) # {}
             PROVE  Gone(trie, Removed(trie, key), key, n)
  BY DEF TakesAt
<1> DEFINE c == Call(trie, key)
           new == Removed(trie, key)
<1>1. new = Result(Removal, trie, key)
  BY DEF Removed
<1>2. AtEnd(Removal, c) = Taken(c) /\ \A answer : Returning(Removal, c, answer) = WithoutChild(c, answer)
  BY RemovalAnswers
<1>3. c.node = trie /\ c.key = key
  BY CallParts
<1> HIDE DEF new, c
<1>4. Shaped(NoNode, n) /\ NoNode.kind = "none" /\ \A k \in Keys(n) : Lookup(NoNode, k) = {}
  BY ShapedNone, FoundNone, NodeKinds
<1>5. ASSUME new = NoNode, \A k \in Keys(n) : k # key => Lookup(trie, k) = {} PROVE Gone(trie, new, key, n)
  BY <1>4, <1>5 DEF Gone, Differs
<1>6. CASE trie = NoNode
  BY <1>4, <1>6
<1>7. CASE LeafShape(trie, n)
  <2>1. PICK s, v : s \in Keys(n) /\ trie = Leaf(s, v)
    BY <1>7 DEF LeafShape
  <2>2. \A k \in Keys(n) : Lookup(trie, k) = IF s = k THEN {v} ELSE {}
    BY <2>1, FoundLeaf
  <2>3. new = Taken(c)
    BY <1>1, <1>2, <1>7, ResultStops DEF c
  <2>4. new = NoNode
    BY <1>3, <2>1, <2>3, NodeKinds DEF Taken
  <2> QED
    BY <1>5, <2>2, <2>4 DEF new
<1>8. CASE \E m \in 1..(n - 1) : \E p \in Keys(m) : \E ch : trie = Extension(p, Branch(ch)) /\ Shaped(Branch(ch), n - m)
  <2>1. PICK m \in 1..(n - 1) : \E p \in Keys(m) : \E ch : trie = Extension(p, Branch(ch)) /\ Shaped(Branch(ch), n - m)
    BY <1>8
  <2>2. PICK p, ch : p \in Keys(m) /\ trie = Extension(p, Branch(ch)) /\ Shaped(Branch(ch), n - m)
    BY <2>1
  <2> DEFINE rest == From(key, m + 1)
             below == Removed(Branch(ch), rest)
  <2>3. \A k \in Keys(n) : Lookup(trie, k) = IF Starts(p, m, k) THEN Lookup(Branch(ch), From(k, m + 1)) ELSE {}
    BY <2>2, FoundExtension DEF Starts
  <2>4. Starts(p, m, key) /\ Lookup(Branch(ch), rest) # {}
    BY <2>3
  <2>5. m \in 0..n /\ n - m \in 0..(n - 1)
    OBVIOUS
  <2>6. \A k \in Keys(n) : From(k, m + 1) \in Keys(n - m)
    BY <2>5, KeyCut
  <2>7. new = WithoutChild(c, below)
    <3> DEFINE ext == Extension(p, Branch(ch))
    <3>1. Result(Removal, ext, key) =
            IF Starts(p, m, key) THEN Returning(Removal, Call(ext, key), Result(Removal, Branch(ch), From(key, m + 1)))
            ELSE AtEnd(Removal, Call(ext, key))
      <4>1. p \in Keys(m) /\ Shaped(Branch(ch), n - m)
        BY <2>2
      <4> QED
        BY <4>1, ResultExtension
    <3>2. trie = ext
      BY <2>2
    <3>3. below = Result(Removal, Branch(ch), From(key, m + 1))
      BY DEF Removed
    <3> HIDE DEF ext, below
    <3>4. new = Returning(Removal, c, below)
      BY <1>1, <2>4, <3>1, <3>2, <3>3 DEF c
    <3> QED
      BY <1>2, <3>4
  <2>8. new = Merged(p, below)
    <3>1. c.node.kind = "extension" /\ c.node.prefix = p
      BY <1>3, <2>2, NodeKinds
    <3> HIDE DEF below
    <3> QED
      BY <2>7, <3>1 DEF WithoutChild
  <2> HIDE DEF rest
  <2>9. Gone(Branch(ch), below, rest, n - m)
    BY <2>2, <2>4, <2>5, <2>6 DEF TakesAt, rest
  <2> HIDE DEF below
  <2>10. Shaped(below, n - m) /\ below.kind \in {"branch", "none"} /\ Differs(below, Branch(ch), rest, {}, n - m)
    BY <2>9, NodeKinds DEF Gone
  <2>11. CASE below.kind = "none"
    <3>1. below = NoNode
      BY <2>10, <2>11, NoneOf
    <3>2. new = NoNode
      BY <2>8, <2>11 DEF Merged
    <3>3. ASSUME NEW k \in Keys(n), k # key, Lookup(trie, k) # {} PROVE FALSE
      <4> DEFINE l == From(k, m + 1)
      <4>1. Starts(p, m, k) /\ Lookup(Branch(ch), l) # {} /\ l \in Keys(n - m)
        BY <2>3, <2>6, <3>3
      <4>2. Lookup(below, l) = {}
        BY <2>5, <3>1, <4>1, FoundNone
      <4>3. l = rest
        BY <2>10, <4>1, <4>2 DEF Differs
      <4>4. k = key
        <5>1. \A i \in 1..m : k[i] = key[i]
          BY <2>4, <4>1 DEF Starts
        <5>2. \A i \in 1..(n - m) : k[m + i] = key[m + i]
          <6>1. \A i \in 1..(n - m) : l[i] = k[m + i] /\ rest[i] = key[m + i]
            BY <2>5, KeyCut DEF rest
          <6> QED
            BY <4>3, <6>1
        <5>3. ASSUME NEW i \in 1..n PROVE k[i] = key[i]
          <6>1. CASE i \in 1..m
            BY <5>1, <6>1
          <6>2. CASE ~(i \in 1..m)
            <7>1. i - m \in 1..(n - m) /\ m + (i - m) = i
              BY <6>2
            <7> QED
              BY <5>2, <7>1
          <6> QED
            BY <6>1, <6>2
        <5> QED
          BY <5>3, SameKey
      <4> QED
        BY <3>3, <4>4
    <3> QED
      BY <1>5, <3>2, <3>3 DEF new
  <2>12. CASE below.kind = "branch"
    <3>1. PICK ch2 : below = Branch(ch2)
      BY <2>10, <2>12, BranchOf
    <3>2. new = Extension(p, Branch(ch2))
      BY <2>8, <2>12, <3>1 DEF Merged
    <3> DEFINE ext == Extension(p, Branch(ch2))
               old == Extension(p, Branch(ch))
    <3>3. Shaped(ext, n) /\ Differs(ext, old, key, {}, n)
      <4>1. p \in Keys(m) /\ Shaped(Branch(ch), n - m) /\ Shaped(Branch(ch2), n - m) /\ Starts(p, m, key)
        BY <2>2, <2>4, <2>10, <3>1
      <4>2. Differs(Branch(ch2), Branch(ch), From(key, m + 1), {}, n - m)
        BY <2>10, <3>1 DEF rest
      <4> QED
        BY <4>1, <4>2, BelowReplaced
    <3>4. new = ext /\ trie = old /\ trie.kind # "branch"
      BY <2>2, <3>2, NodeKinds
    <3> HIDE DEF ext, old
    <3> QED
      BY <3>3, <3>4 DEF Gone, new
  <2> QED
    BY <2>10, <2>11, <2>12
<1>9. CASE \E ch : trie = Branch(ch) /\ OfNibbles(ch) /\ n >= 1 /\ \A x \in Nibbles : Shaped(ch[x], n - 1)
  <2>1. PICK ch : trie = Branch(ch) /\ OfNibbles(ch) /\ n >= 1 /\ \A x \in Nibbles : Shaped(ch[x], n - 1)
    BY <1>9
  <2> DEFINE h == key[1]
             rest == Tail(key)
             below == Removed(ch[h], rest)
             left == [ch EXCEPT ![Head(key)] = below]
  <2>2. h \in Nibbles /\ Head(key) = h /\ rest \in Keys(n - 1) /\ n - 1 \in 0..(n - 1) /\ n - 1 \in Nat
    BY <2>1, KeyStep
  <2>3. Lookup(ch[h], rest) # {}
    <3>1. Lookup(Branch(ch), key) = Lookup(ch[key[1]], Tail(key))
      BY <2>1, FoundBranch
    <3> QED
      BY <2>1, <3>1
  <2>4. ch[h] # NoNode
    <3> HIDE DEF h, rest
    <3> QED
      BY <2>2, <2>3, FoundNone
  <2>5. new = WithoutChild(c, below)
    <3>1. Result(Removal, trie, key) = Returning(Removal, c, Result(Removal, ch[h], rest))
      BY <2>1, ResultBranch DEF c
    <3>2. below = Result(Removal, ch[h], rest)
      BY DEF Removed
    <3> HIDE DEF below, h, rest
    <3> QED
      BY <1>1, <1>2, <3>1, <3>2
  <2>6. new = IF left = NoChildren THEN NoNode ELSE Branch(left)
    <3>1. c.node.kind = "branch" /\ c.node.children = ch
      BY <1>3, <2>1, NodeKinds
    <3>2. ch[Head(key)] # NoNode
      BY <2>2, <2>4
    <3> HIDE DEF below
    <3> QED
      BY <1>3, <2>5, <3>1, <3>2 DEF WithoutChild
  <2> HIDE DEF rest
  <2>7. Gone(ch[h], below, rest, n - 1)
    <3> HIDE DEF h
    <3> QED
      BY <2>1, <2>2, <2>3 DEF TakesAt
  <2> HIDE DEF below
  <2>8. /\ Shaped(Branch(left), n) /\ Differs(Branch(left), Branch(ch), key, {}, n)
        /\ OfNibbles(left) /\ \A x \in Nibbles : Shaped(left[x], n - 1)
    <3>1. Shaped(below, n - 1) /\ Differs(below, ch[key[1]], Tail(key), {}, n - 1)
      BY <2>7 DEF Gone, rest
    <3>2. OfNibbles(ch) /\ n >= 1 /\ (\A x \in Nibbles : Shaped(ch[x], n - 1))
      BY <2>1
    <3> QED
      BY <3>1, <3>2, ChildReplaced
  <2> HIDE DEF left
  <2>9. CASE left = NoChildren
    <3>1. ASSUME NEW k \in Keys(n) PROVE Lookup(Branch(left), k) = {}
      <4>1. k[1] \in Nibbles /\ Tail(k) \in Keys(n - 1)
        BY <2>1, KeyStep
      <4>2. Lookup(Branch(left), k) = Lookup(left[k[1]], Tail(k))
        BY <2>1, <2>8, FoundBranch
      <4>3. left[k[1]] = NoNode
        BY <2>9, <4>1 DEF NoChildren
      <4> QED
        BY <2>2, <4>1, <4>2, <4>3, FoundNone
    <3>2. \A k \in Keys(n) : k # key => Lookup(trie, k) = {}
      BY <2>1, <2>8, <3>1 DEF Differs
    <3> QED
      BY <1>5, <2>6, <2>9, <3>2 DEF new
  <2>10. CASE left # NoChildren
    <3>1. new = Branch(left) /\ new.kind = "branch"
      BY <2>6, <2>10, NodeKinds
    <3> QED
      BY <2>1, <2>8, <3>1 DEF Gone, new
  <2> QED
    BY <2>9, <2>10
<1> QED
  BY <1>6, <1>7, <1>8, <1>9, ShapedCases

LEMMA RemovedGone == ASSUME NEW n \in Nat PROVE TakesAt(n)
<1> DEFINE A == {m \in Nat : \A j \in 0..m : TakesAt(j)}
<1>1. 0 \in A
  <2>1. TakesAt(0)
    <3>1. 0 \in Nat /\ \A m \in 0..(0 - 1) : TakesAt(m)
      OBVIOUS
    <3> QED
      BY <3>1, GoneHere
  <2>2. \A j \in 0..0 : j = 0
    OBVIOUS
  <2> QED
    BY <2>1, <2>2
<1>2. ASSUME NEW m \in Nat, m \in A PROVE m + 1 \in A
  <2>1. m + 1 \in Nat /\ \A j \in 0..((m + 1) - 1) : TakesAt(j)
    BY <1>2
  <2>2. TakesAt(m + 1)
    BY <2>1, GoneHere
  <2>3. \A j \in 0..(m + 1) : j = m + 1 \/ j \in 0..m
    OBVIOUS
  <2> QED
    BY <1>2, <2>1, <2>2, <2>3
<1>3. Nat \subseteq A
  <2> HIDE DEF A
  <2> QED
    BY <1>1, <1>2, AllNumbers
<1>4. n \in A
  <2> HIDE DEF A
  <2> QED
    BY <1>3
<1> QED
  BY <1>4

\* A root under which a map is found.
Keeps(trie, map) ==
  /\ Shaped(trie, KeyLength)
  /\ \A k \in TrieKeys : Lookup(trie, k) = IF k \in DOMAIN map THEN {map[k]} ELSE {}
\* The nodes that are in memory, the ones a flush has taken out included.
InMemory == cacheNodes \cup dirty \cup UNION {work[t].nodes : t \in Writers}

WorkInv == work = [t \in Writers |-> work[t]] /\ \A t \in Writers : work[t].op # "write" => work[t].nodes = {}
KeptInv == ~spoiled => Keeps(root, held) /\ \A t \in Writers : work[t].op = "publish" => Keeps(work[t].new, work[t].held)
NodesInv == ~lost => /\ Reachable(root) \subseteq InMemory
                        /\ \A t \in Writers : work[t].op = "publish" => Reachable(work[t].new) \subseteq InMemory
TrieInv == WorkInv /\ KeptInv /\ NodesInv

\* What a thread puts as its work.
LEMMA WorkSet ==
  ASSUME WorkInv, NEW t \in Writers, NEW op, NEW new, NEW map, NEW nodes, Now(t, op, new, map, nodes)
  PROVE  /\ work' = [u \in Writers |-> work'[u]]
         /\ work'[t].op = op /\ work'[t].new = new /\ work'[t].held = map /\ work'[t].nodes = nodes
         /\ \A u \in Writers : u # t => work'[u] = work[u]
<1> DEFINE w == [op |-> op, new |-> new, held |-> map, nodes |-> nodes]
<1>1. w.op = op /\ w.new = new /\ w.held = map /\ w.nodes = nodes
  OBVIOUS
<1>2. work' = [work EXCEPT ![t] = w] /\ work = [u \in Writers |-> work[u]]
  BY DEF Now, WorkInv
<1> HIDE DEF w
<1>3. work'[t] = w /\ (\A u \in Writers : u # t => work'[u] = work[u]) /\ work' = [u \in Writers |-> work'[u]]
  BY <1>2
<1> QED
  BY <1>1, <1>3

\* Nothing is under no node.
LEMMA ReachedNone == Reachable(NoNode) = {}
<1> DEFINE Up(f, i) == IF i = 0 THEN {NoNode} ELSE f[i - 1] \cup UNION {Children(x) : x \in f[i - 1]}
           w == CHOOSE f : f = [i \in 0..KeyLength |-> Up(f, i)]
           g == [i \in 0..KeyLength |-> {NoNode}]
<1>1. KeyLength \in Nat
  BY TrieAssumption
<1>2. UNION {Children(x) : x \in {NoNode}} = {}
  <2>1. Children(NoNode) = {}
    BY NodeKinds DEF Children
  <2> QED
    BY <2>1
<1>3. g = [i \in 0..KeyLength |-> Up(g, i)]
  <2>1. ASSUME NEW i \in 0..KeyLength PROVE Up(g, i) = {NoNode}
    <3>1. i # 0 => i - 1 \in 0..KeyLength
      BY <1>1
    <3> QED
      BY <1>2, <3>1
  <2> HIDE DEF Up
  <2> QED
    BY <2>1
<1>4. w = [i \in 0..KeyLength |-> Up(w, i)]
  <2> HIDE DEF g, Up
  <2> QED
    BY <1>3
<1> DEFINE V == {{NoNode}}
<1>5. \A i \in 0..KeyLength : w[i] \in V
  <2>1. w[0] \in V
    <3> HIDE DEF w
    <3> QED
      BY <1>1, <1>4
  <2>2. ASSUME NEW i \in 1..KeyLength, w[i - 1] \in V PROVE w[i] \in V
    <3>1. i \in 0..KeyLength /\ i # 0
      BY <1>1
    <3>2. w[i] = w[i - 1] \cup UNION {Children(x) : x \in w[i - 1]}
      <4> HIDE DEF w
      <4> QED
        BY <1>4, <3>1
    <3> HIDE DEF w
    <3>3. w[i - 1] = {NoNode}
      BY <2>2
    <3> QED
      BY <1>2, <3>2, <3>3
  <2> HIDE DEF w, V
  <2> QED
    BY <1>1, <2>1, <2>2, CountedIn
<1>6. Reachable(NoNode) = w[KeyLength] \ {NoNode}
  BY DEF Reachable
<1> HIDE DEF w
<1> QED
  BY <1>1, <1>5, <1>6

LEMMA TrieStart == TrieInit => TrieInv
<1> SUFFICES ASSUME TrieInit PROVE TrieInv
  OBVIOUS
<1>1. WorkInv /\ \A t \in Writers : work[t].op = "idle"
  BY DEF TrieInit, WorkInv, Idle
<1>2. KeptInv
  <2>1. Shaped(NoNode, KeyLength)
    BY TrieAssumption, ShapedNone
  <2>2. \A k \in TrieKeys : Lookup(NoNode, k) = {}
    BY TrieAssumption, FoundNone DEF Keys
  <2>3. root = NoNode /\ held = << >> /\ DOMAIN held = {}
    BY DEF TrieInit
  <2>4. Keeps(root, held)
    BY <2>1, <2>2, <2>3 DEF Keeps
  <2> QED
    BY <1>1, <2>4 DEF KeptInv
<1>3. NodesInv
  <2>1. Reachable(NoNode) = {}
    BY ReachedNone
  <2> QED
    BY <1>1, <2>1 DEF NodesInv, TrieInit
<1> QED
  BY <1>1, <1>2, <1>3 DEF TrieInv

\* No step takes nodes out of memory but the clearing of the cache.
LEMMA MemoryStays ==
  ASSUME NEW t \in Writers, \A u \in Writers : u # t => work'[u] = work[u],
         cacheNodes \cup dirty \cup work[t].nodes \subseteq cacheNodes' \cup dirty' \cup work'[t].nodes
  PROVE  InMemory \subseteq InMemory'
<1> SUFFICES ASSUME NEW x \in InMemory PROVE x \in InMemory'
  OBVIOUS
<1>1. \A u \in Writers : work'[u].nodes \subseteq InMemory'
  BY DEF InMemory
<1>2. cacheNodes' \cup dirty' \subseteq InMemory'
  BY DEF InMemory
<1>3. CASE x \in cacheNodes \cup dirty \cup work[t].nodes
  BY <1>1, <1>2, <1>3
<1>4. CASE \E u \in Writers : u # t /\ x \in work[u].nodes
  BY <1>1, <1>4
<1> QED
  BY <1>3, <1>4 DEF InMemory

\* A thread that has computed a root and saved what is new under it.
LEMMA ToPublish ==
  ASSUME TrieInv, NEW t \in Writers, work[t].op = "idle", NEW new, NEW map, NEW key,
         Now(t, "publish", new, map, {}), dirty' = dirty \cup Saved(new, key),
         ~spoiled' => ~spoiled /\ (Keeps(root, held) => Keeps(new, map)),
         UNCHANGED <<root, cacheNodes, held, lost>>
  PROVE  TrieInv'
<1>1. /\ work' = [u \in Writers |-> work'[u]]
      /\ work'[t].op = "publish" /\ work'[t].new = new /\ work'[t].held = map /\ work'[t].nodes = {}
      /\ \A u \in Writers : u # t => work'[u] = work[u]
  BY WorkSet DEF TrieInv
<1>2. WorkInv'
  BY <1>1 DEF TrieInv, WorkInv
<1>3. KeptInv'
  <2> SUFFICES ASSUME ~spoiled'
               PROVE  Keeps(root, held) /\ \A u \in Writers : work'[u].op = "publish" => Keeps(work'[u].new, work'[u].held)
    BY DEF KeptInv, Keeps
  <2>1. Keeps(root, held) /\ Keeps(new, map) /\ \A u \in Writers : work[u].op = "publish" => Keeps(work[u].new, work[u].held)
    BY DEF TrieInv, KeptInv
  <2> QED
    BY <1>1, <2>1
<1>4. NodesInv'
  <2> SUFFICES ASSUME ~lost'
               PROVE  /\ Reachable(root) \subseteq InMemory'
                      /\ \A u \in Writers : work'[u].op = "publish" => Reachable(work'[u].new) \subseteq InMemory'
    BY DEF NodesInv
  <2>1. /\ Reachable(root) \subseteq InMemory
        /\ \A u \in Writers : work[u].op = "publish" => Reachable(work[u].new) \subseteq InMemory
    BY DEF TrieInv, NodesInv
  <2>2. work[t].nodes = {}
    BY DEF TrieInv, WorkInv
  <2>3. InMemory \subseteq InMemory'
    BY <1>1, <2>2, MemoryStays
  <2>4. Reachable(new) \subseteq InMemory'
    <3>1. Reachable(new) \subseteq Reachable(root) \cup Saved(new, key)
      BY DEF Saved
    <3>2. Saved(new, key) \subseteq InMemory'
      BY DEF InMemory
    <3> QED
      BY <2>1, <2>3, <3>1, <3>2
  <2> QED
    BY <1>1, <2>1, <2>3, <2>4
<1> QED
  BY <1>2, <1>3, <1>4 DEF TrieInv

\* A thread that goes on to what leaves its root alone and every node in memory.
LEMMA ElseDone ==
  ASSUME TrieInv, NEW t \in Writers, NEW op, op # "publish", NEW nodes, op # "write" => nodes = {},
         Now(t, op, NoNode, << >>, nodes), UNCHANGED <<spoiled, lost>>,
         cacheNodes \cup dirty \cup work[t].nodes \subseteq cacheNodes' \cup dirty' \cup nodes,
         \/ UNCHANGED <<root, held>>
         \/ work[t].op = "publish" /\ root' = work[t].new /\ held' = work[t].held
  PROVE  TrieInv'
<1>1. /\ work' = [u \in Writers |-> work'[u]]
      /\ work'[t].op = op /\ work'[t].new = NoNode /\ work'[t].nodes = nodes
      /\ \A u \in Writers : u # t => work'[u] = work[u]
  BY WorkSet DEF TrieInv
<1>2. WorkInv'
  BY <1>1 DEF TrieInv, WorkInv
<1>3. KeptInv'
  <2> SUFFICES ASSUME ~spoiled
               PROVE  Keeps(root', held') /\ \A u \in Writers : work'[u].op = "publish" => Keeps(work'[u].new, work'[u].held)
    BY DEF KeptInv, Keeps
  <2>1. Keeps(root, held) /\ \A u \in Writers : work[u].op = "publish" => Keeps(work[u].new, work[u].held)
    BY DEF TrieInv, KeptInv
  <2> QED
    BY <1>1, <2>1
<1>4. NodesInv'
  <2> SUFFICES ASSUME ~lost
               PROVE  /\ Reachable(root') \subseteq InMemory'
                      /\ \A u \in Writers : work'[u].op = "publish" => Reachable(work'[u].new) \subseteq InMemory'
    BY DEF NodesInv
  <2>1. /\ Reachable(root) \subseteq InMemory
        /\ \A u \in Writers : work[u].op = "publish" => Reachable(work[u].new) \subseteq InMemory
    BY DEF TrieInv, NodesInv
  <2>2. InMemory \subseteq InMemory'
    BY <1>1, MemoryStays
  <2> QED
    BY <1>1, <2>1, <2>2
<1> QED
  BY <1>2, <1>3, <1>4 DEF TrieInv

\* Nothing that the invariant speaks of.
LEMMA TrieSame ==
  ASSUME TrieInv, UNCHANGED <<root, held, dirty, work, cacheNodes>>,
         spoiled' = spoiled, lost' = lost
  PROVE  TrieInv'
  BY DEF TrieInv, WorkInv, KeptInv, NodesInv, InMemory, Keeps

LEMMA PutKeeps ==
  ASSUME NEW map, Keeps(root, map), NEW key \in TrieKeys, NEW value
  PROVE  Keeps(Inserted(root, key, value), [k \in DOMAIN map \cup {key} |-> IF k = key THEN value ELSE map[k]])
<1> DEFINE new == Inserted(root, key, value)
           after == [k \in DOMAIN map \cup {key} |-> IF k = key THEN value ELSE map[k]]
<1>1. KeyLength \in Nat /\ TrieKeys \subseteq Keys(KeyLength)
  BY TrieAssumption DEF Keys
<1>2. Put(root, new, key, value, KeyLength)
  BY <1>1, InsertedFound DEF Keeps, AddsAt
<1> HIDE DEF new
<1>3. ASSUME NEW k \in TrieKeys PROVE Lookup(new, k) = IF k \in DOMAIN after THEN {after[k]} ELSE {}
  <2>1. Lookup(new, k) = IF k = key THEN {value} ELSE Lookup(root, k)
    BY <1>1, <1>2 DEF Put
  <2>2. Lookup(root, k) = IF k \in DOMAIN map THEN {map[k]} ELSE {}
    BY DEF Keeps
  <2> QED
    BY <2>1, <2>2
<1>4. Keeps(new, after)
  <2> HIDE DEF after
  <2> QED
    BY <1>2, <1>3 DEF Put, Keeps
<1> QED
  BY <1>4 DEF new

LEMMA TakeKeeps ==
  ASSUME NEW map, Keeps(root, map), NEW key \in TrieKeys, key \in DOMAIN map
  PROVE  Keeps(Removed(root, key), [k \in DOMAIN map \ {key} |-> map[k]])
<1> DEFINE new == Removed(root, key)
           after == [k \in DOMAIN map \ {key} |-> map[k]]
<1>1. KeyLength \in Nat /\ TrieKeys \subseteq Keys(KeyLength)
  BY TrieAssumption DEF Keys
<1>2. \A k \in TrieKeys : Lookup(root, k) = IF k \in DOMAIN map THEN {map[k]} ELSE {}
  BY DEF Keeps
<1>3. Gone(root, new, key, KeyLength)
  <2>1. Lookup(root, key) # {}
    BY <1>2
  <2> QED
    BY <1>1, <2>1, RemovedGone DEF Keeps, TakesAt
<1> HIDE DEF new
<1>4. ASSUME NEW k \in TrieKeys PROVE Lookup(new, k) = IF k \in DOMAIN after THEN {after[k]} ELSE {}
  <2>1. Lookup(new, k) = IF k = key THEN {} ELSE Lookup(root, k)
    BY <1>1, <1>3 DEF Gone, Differs
  <2> QED
    BY <1>2, <2>1
<1>5. Keeps(new, after)
  <2> HIDE DEF after
  <2> QED
    BY <1>3, <1>4 DEF Gone, Keeps
<1> QED
  BY <1>5 DEF new

LEMMA TrieStep == TrieInv /\ [TrieNext]_trieVars => TrieInv'
<1> SUFFICES ASSUME TrieInv, [TrieNext]_trieVars PROVE TrieInv'
  OBVIOUS
<1>1. CASE UNCHANGED trieVars
  BY <1>1, TrieSame DEF trieVars
<1>2. CASE ClearCache
  BY <1>2 DEF ClearCache, TrieInv, WorkInv, KeptInv, NodesInv, Keeps
<1>3. ASSUME NEW t \in Writers, InsertKey(t) PROVE TrieInv'
  <2>1. /\ work[t].op = "idle" /\ UNCHANGED <<root, cacheNodes, held, spoiled, lost>>
        /\ \E key \in TrieKeys, value \in TrieValues :
             \/ UNCHANGED <<work, dirty>>
             \/ /\ dirty' = dirty \cup Saved(Inserted(root, key, value), key)
                /\ Now(t, "publish", Inserted(root, key, value),
                       [k \in DOMAIN held \cup {key} |-> IF k = key THEN value ELSE held[k]], {})
    BY <1>3 DEF InsertKey, BeginCall
  <2>2. CASE UNCHANGED <<work, dirty>>
    BY <2>1, <2>2, TrieSame
  <2>3. ASSUME NEW key \in TrieKeys, NEW value \in TrieValues,
               dirty' = dirty \cup Saved(Inserted(root, key, value), key),
               Now(t, "publish", Inserted(root, key, value),
                   [k \in DOMAIN held \cup {key} |-> IF k = key THEN value ELSE held[k]], {})
        PROVE  TrieInv'
    <3>1. Keeps(root, held) => Keeps(Inserted(root, key, value),
                                     [k \in DOMAIN held \cup {key} |-> IF k = key THEN value ELSE held[k]])
      BY PutKeeps
    <3> DEFINE new == Inserted(root, key, value)
               map == [k \in DOMAIN held \cup {key} |-> IF k = key THEN value ELSE held[k]]
    <3>2. /\ Keeps(root, held) => Keeps(new, map)
          /\ Now(t, "publish", new, map, {}) /\ dirty' = dirty \cup Saved(new, key)
      BY <2>3, <3>1
    <3> HIDE DEF new, map
    <3> QED
      BY <2>1, <3>2, ToPublish
  <2> QED
    BY <2>1, <2>2, <2>3
<1>4. ASSUME NEW t \in Writers, RemoveKey(t) PROVE TrieInv'
  <2>1. /\ work[t].op = "idle" /\ UNCHANGED <<root, cacheNodes, held, lost>>
        /\ \E key \in TrieKeys :
             \/ UNCHANGED <<work, dirty, spoiled>>
             \/ /\ dirty' = dirty \cup Saved(Removed(root, key), key)
                /\ Now(t, "publish", Removed(root, key), [k \in DOMAIN held \ {key} |-> held[k]], {})
                /\ spoiled' = (spoiled \/ key \notin DOMAIN held)
    BY <1>4 DEF RemoveKey, BeginCall
  <2>2. CASE UNCHANGED <<work, dirty, spoiled>>
    BY <2>1, <2>2, TrieSame
  <2>3. ASSUME NEW key \in TrieKeys,
               dirty' = dirty \cup Saved(Removed(root, key), key),
               Now(t, "publish", Removed(root, key), [k \in DOMAIN held \ {key} |-> held[k]], {}),
               spoiled' = (spoiled \/ key \notin DOMAIN held)
        PROVE  TrieInv'
    <3>1. ~spoiled' => ~spoiled /\ key \in DOMAIN held
      BY <2>3
    <3>2. Keeps(root, held) /\ key \in DOMAIN held =>
            Keeps(Removed(root, key), [k \in DOMAIN held \ {key} |-> held[k]])
      BY TakeKeeps
    <3> DEFINE new == Removed(root, key)
               map == [k \in DOMAIN held \ {key} |-> held[k]]
    <3>3. /\ ~spoiled' => ~spoiled /\ (Keeps(root, held) => Keeps(new, map))
          /\ Now(t, "publish", new, map, {}) /\ dirty' = dirty \cup Saved(new, key)
      BY <2>3, <3>1, <3>2
    <3> HIDE DEF new, map
    <3> QED
      BY <2>1, <3>3, ToPublish
  <2> QED
    BY <2>1, <2>2, <2>3
<1>5. ASSUME NEW t \in Writers, Publish(t) PROVE TrieInv'
  <2>1. work[t].nodes = {}
    BY <1>5 DEF Publish, TrieInv, WorkInv
  <2>2. PICK op \in {"idle", "flush"} : Now(t, op, NoNode, << >>, {})
    BY <1>5 DEF Publish
  <2>3. op # "publish" /\ op # "write"
    BY <2>2
  <2> QED
    BY <1>5, <2>1, <2>2, <2>3, ElseDone DEF Publish
<1>6. ASSUME NEW t \in Writers, TakeDirty(t) PROVE TrieInv'
  <2>1. work[t].nodes = {}
    BY <1>6 DEF TakeDirty, TrieInv, WorkInv
  <2>2. PICK op \in {"idle", "write"} : Now(t, op, NoNode, << >>, dirty) /\ (op = "idle" => dirty = {})
    BY <1>6 DEF TakeDirty, Flushing
  <2>3. op # "publish" /\ (op # "write" => dirty = {})
    BY <2>2
  <2> QED
    BY <1>6, <2>1, <2>2, <2>3, ElseDone DEF TakeDirty
<1>7. ASSUME NEW t \in Writers, WriteNode(t) PROVE TrieInv'
  <2>1. PICK x \in work[t].nodes : cacheNodes' = cacheNodes \cup {x} /\ Flushing(t, work[t].nodes \ {x})
    BY <1>7 DEF WriteNode
  <2> DEFINE left == work[t].nodes \ {x}
  <2>2. cacheNodes' = cacheNodes \cup {x} /\ work[t].nodes \subseteq left \cup {x} /\ Flushing(t, left)
    BY <2>1
  <2> HIDE DEF left
  <2>3. PICK op \in {"idle", "write"} : Now(t, op, NoNode, << >>, left) /\ (op = "idle" => left = {})
    BY <2>2 DEF Flushing
  <2>4. op # "publish" /\ (op # "write" => left = {})
    BY <2>3
  <2> QED
    BY <1>7, <2>2, <2>3, <2>4, ElseDone DEF WriteNode
<1>8. ASSUME NEW t \in Writers, WriteFails(t) PROVE TrieInv'
  <2>1. Now(t, "idle", NoNode, << >>, {})
    BY <1>8 DEF WriteFails, Flushing
  <2>2. /\ work' = [u \in Writers |-> work'[u]]
        /\ work'[t].op = "idle" /\ work'[t].nodes = {}
        /\ \A u \in Writers : u # t => work'[u] = work[u]
    BY <2>1, WorkSet DEF TrieInv
  <2>3. WorkInv' /\ NodesInv'
    BY <1>8, <2>2 DEF WriteFails, TrieInv, WorkInv, NodesInv
  <2>4. KeptInv'
    BY <1>8, <2>2 DEF WriteFails, TrieInv, KeptInv, Keeps
  <2> QED
    BY <2>3, <2>4 DEF TrieInv
<1> QED
  BY <1>1, <1>2, <1>3, <1>4, <1>5, <1>6, <1>7, <1>8 DEF TrieNext

\* Under the root is found what the threads have put there.
LEMMA TrieMeant == TrieInv => TrieHolds
<1> SUFFICES ASSUME TrieInv PROVE TrieHolds
  OBVIOUS
<1>1. ~spoiled => \A k \in TrieKeys : Lookup(root, k) = IF k \in DOMAIN held THEN {held[k]} ELSE {}
  BY DEF TrieInv, KeptInv, Keeps
<1>2. ReachableIsReadable
  <2> SUFFICES ASSUME ~lost, \A t \in Writers : work[t].op # "write"
               PROVE  Reachable(root) \subseteq cacheNodes \cup dirty
    BY DEF ReachableIsReadable
  <2>1. Reachable(root) \subseteq InMemory
    BY DEF TrieInv, NodesInv
  <2>2. \A t \in Writers : work[t].nodes = {}
    BY DEF TrieInv, WorkInv
  <2> QED
    BY <2>1, <2>2 DEF InMemory
<1> QED
  BY <1>1, <1>2 DEF TrieHolds

\* Whatever tries the threads make of one another's, what is found under the root is what was put.
THEOREM TrieKeepsKeys == TrieSpec => []TrieHolds
<1>1. TrieSpec => []TrieInv
  BY TrieStart, TrieStep, PTL DEF TrieSpec
<1> QED
  BY <1>1, TrieMeant, PTL
=============================================================================
