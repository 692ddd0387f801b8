------------------------------ MODULE CoinsCache ------------------------------
(***************************************************************************)
(* The hierarchy of coin views (coins.cpp, txdb.cpp): the database, the    *)
(* cache pcoinsTip over it and, while a block is connected, disconnected   *)
(* or tried, one more CCoinsViewCache over pcoinsTip.  All of it happens   *)
(* under cs_main.  A cache is a function on the transactions it holds; its *)
(* entries are the coins with the flags DIRTY and FRESH.                   *)
(***************************************************************************)
EXTENDS Naturals

CONSTANTS
    Txids,
    Coins,       \* the values of CCoins; all pruned ones are equal
    Pruned,      \* CCoins without an unspent output
    Blocks,      \* hashes of blocks
    Genesis,
    NULL         \* uint256(0), the best block of a cache that does not know it

ASSUME CoinsAssumption ==
    /\ Pruned \in Coins
    /\ Genesis \in Blocks
    /\ NULL \notin Blocks

VARIABLES
    db, dbBest,            \* CCoinsViewDB: coins and best block
    tip, tipBest,          \* pcoinsTip: cacheCoins and hashBlock
    open, view, viewBest   \* the view on top of it, if there is one

cacheVars == <<db, dbBest, tip, tipBest, open, view, viewBest>>

Entries == [coins : Coins, dirty : BOOLEAN, fresh : BOOLEAN]

\* A function on some of the transactions.
IsPartial(f, R) == DOMAIN f \subseteq Txids /\ f \in [DOMAIN f -> R]
Empty == [t \in {} |-> Pruned]

TypeOK ==
    /\ IsPartial(db, Coins \ {Pruned})
    /\ IsPartial(tip, Entries)
    /\ IsPartial(view, Entries)
    /\ dbBest \in Blocks
    /\ tipBest \in Blocks \cup {NULL}
    /\ viewBest \in Blocks \cup {NULL}
    /\ open \in BOOLEAN

Init ==
    /\ db = Empty
    /\ dbBest = Genesis
    /\ tip = Empty /\ tipBest = NULL
    /\ open = FALSE /\ view = Empty /\ viewBest = NULL

-----------------------------------------------------------------------------
(* The methods of a cache, as functions of it and of what its base holds. *)

\* What a cache returns to the view above it.
Held(cache) == [t \in DOMAIN cache |-> cache[t].coins]

Put(cache, t, entry) ==
    [x \in DOMAIN cache \cup {t} |-> IF x = t THEN entry ELSE cache[x]]

Erase(cache, t) == [x \in DOMAIN cache \ {t} |-> cache[x]]

FetchCoins(cache, base, t) ==
    IF t \in DOMAIN cache \/ t \notin DOMAIN base THEN cache
    ELSE Put(cache, t, [coins |-> base[t], dirty |-> FALSE, fresh |-> base[t] = Pruned])

\* Mutants of ModifyCoins: what the base holds is not looked at, what it
\* lacks is not noticed, the entry is not marked.
ModifyAlwaysFresh(cache, base, t, c) ==
    LET fresh == t \notin DOMAIN cache \/ cache[t].fresh
    IN  IF fresh /\ c = Pruned THEN Erase(cache, t)
        ELSE Put(cache, t, [coins |-> c, dirty |-> TRUE, fresh |-> fresh])

ModifyNeverFresh(cache, base, t, c) ==
    Put(cache, t, [coins |-> c, dirty |-> TRUE, fresh |-> FALSE])

ModifyUnmarked(cache, base, t, c) ==
    LET fresh == IF t \in DOMAIN cache THEN cache[t].fresh
                 ELSE t \notin DOMAIN base \/ base[t] = Pruned
    IN  IF fresh /\ c = Pruned THEN Erase(cache, t)
        ELSE Put(cache, t, [coins |-> c, dirty |-> FALSE, fresh |-> fresh])

\* ModifyCoins, the modification to c, and the destructor of the modifier.
ModifyCoins(cache, base, t, c) ==
    LET fresh == IF t \in DOMAIN cache THEN cache[t].fresh
                 ELSE t \notin DOMAIN base \/ base[t] = Pruned
    IN  IF fresh /\ c = Pruned THEN Erase(cache, t)
        ELSE Put(cache, t, [coins |-> c, dirty |-> TRUE, fresh |-> fresh])

Dirty(cache) == {t \in DOMAIN cache : cache[t].dirty}

\* CCoinsViewCache::BatchWrite, which takes over the entries of a child.
BatchWrite(us, child) ==
    LET erased == {t \in Dirty(child) \cap DOMAIN us : us[t].fresh /\ child[t].coins = Pruned}
        moved == {t \in Dirty(child) \ DOMAIN us : child[t].coins # Pruned}
    IN  [t \in (DOMAIN us \ erased) \cup moved |->
            IF t \in moved THEN [coins |-> child[t].coins, dirty |-> TRUE, fresh |-> TRUE]
            ELSE IF t \in Dirty(child)
                 THEN [coins |-> child[t].coins, dirty |-> TRUE, fresh |-> us[t].fresh]
                 ELSE us[t]]

\* Mutant: pruned coins are written.
DbWriteAll(coins, child) ==
    [t \in DOMAIN coins \cup Dirty(child) |->
        IF t \in Dirty(child) THEN child[t].coins ELSE coins[t]]

\* CCoinsViewDB::BatchWrite, one atomic batch: pruned coins are erased.
DbBatchWrite(coins, child) ==
    [t \in {x \in DOMAIN coins \cup Dirty(child) :
               x \in Dirty(child) => child[x].coins # Pruned} |->
        IF t \in Dirty(child) THEN child[t].coins ELSE coins[t]]

-----------------------------------------------------------------------------
(* What the node does with the caches. *)

OpenView ==
    /\ ~open
    /\ open' = TRUE
    /\ view' = Empty
    /\ viewBest' = NULL
    /\ UNCHANGED <<db, dbBest, tip, tipBest>>

\* GetCoins, HaveCoins or AccessCoins of pcoinsTip.
ReadTip(t) ==
    /\ tip' = FetchCoins(tip, db, t)
    /\ UNCHANGED <<db, dbBest, tipBest, open, view, viewBest>>

\* The same of the view, which asks pcoinsTip for what it does not hold.
ReadView(t) ==
    /\ open
    /\ tip' = IF t \in DOMAIN view THEN tip ELSE FetchCoins(tip, db, t)
    /\ view' = FetchCoins(view, Held(tip'), t)
    /\ UNCHANGED <<db, dbBest, tipBest, open, viewBest>>

\* A modifier of the view.
Modify(t, c) ==
    /\ open
    /\ tip' = IF t \in DOMAIN view THEN tip ELSE FetchCoins(tip, db, t)
    /\ view' = ModifyCoins(view, Held(tip'), t, c)
    /\ UNCHANGED <<db, dbBest, tipBest, open, viewBest>>

\* GetBestBlock of a cache remembers the answer of its base.
TipBest == IF tipBest = NULL THEN dbBest ELSE tipBest
ViewBest == IF viewBest = NULL THEN TipBest ELSE viewBest

GetBestBlock ==
    /\ tipBest' = TipBest
    /\ viewBest' = IF open THEN ViewBest ELSE viewBest
    /\ UNCHANGED <<db, dbBest, tip, open, view>>

\* Mutant: the base is told at once.
SetBestBlockThrough(b) ==
    /\ open
    /\ viewBest' = b /\ tipBest' = b
    /\ UNCHANGED <<db, dbBest, tip, open, view>>

SetBestBlock(b) ==
    /\ open
    /\ viewBest' = b
    /\ UNCHANGED <<db, dbBest, tip, tipBest, open, view>>

\* view.Flush() and the end of the view.  Every flushed view has a best
\* block: ConnectBlock and DisconnectBlock end with SetBestBlock.
FlushView ==
    /\ open
    /\ viewBest # NULL
    /\ tip' = BatchWrite(tip, view)
    /\ tipBest' = viewBest
    /\ open' = FALSE /\ view' = Empty /\ viewBest' = NULL
    /\ UNCHANGED <<db, dbBest>>

DropView ==
    /\ open
    /\ open' = FALSE /\ view' = Empty /\ viewBest' = NULL
    /\ UNCHANGED <<db, dbBest, tip, tipBest>>

\* pcoinsTip->Flush() of FlushStateToDisk, never while a view is in use.
FlushTip ==
    /\ ~open
    /\ db' = DbBatchWrite(db, tip)
    /\ dbBest' = TipBest
    /\ tip' = Empty
    /\ UNCHANGED <<tipBest, open, view, viewBest>>

Crash ==
    /\ tip' = Empty /\ tipBest' = NULL
    /\ open' = FALSE /\ view' = Empty /\ viewBest' = NULL
    /\ UNCHANGED <<db, dbBest>>

Next ==
    \/ OpenView \/ GetBestBlock \/ FlushView \/ DropView \/ FlushTip \/ Crash
    \/ \E t \in Txids : ReadTip(t) \/ ReadView(t) \/ \E c \in Coins : Modify(t, c)
    \/ \E b \in Blocks : SetBestBlock(b)

Spec == Init /\ [][Next]_cacheVars

-----------------------------------------------------------------------------
(* Properties. *)

\* The coins a cache shows: its own, else those of its base.
Shown(cache, base) ==
    [t \in Txids |-> IF t \in DOMAIN cache THEN cache[t].coins ELSE base[t]]

DbCoins == [t \in Txids |-> IF t \in DOMAIN db THEN db[t] ELSE Pruned]
TipCoins == Shown(tip, DbCoins)
ViewCoins == Shown(view, TipCoins)

\* "The parent view does not have this entry (or it is pruned)": what a
\* FRESH flag says stays true while entries come and go below it.
FreshIsAbsent ==
    /\ \A t \in DOMAIN tip : tip[t].fresh => DbCoins[t] = Pruned
    /\ \A t \in DOMAIN view : view[t].fresh => TipCoins[t] = Pruned

\* An entry that is not DIRTY may be dropped: it repeats its base.
CleanRepeatsBase ==
    /\ \A t \in DOMAIN tip : tip[t].dirty \/ tip[t].coins = DbCoins[t]
    /\ \A t \in DOMAIN view : view[t].dirty \/ view[t].coins = TipCoins[t]

\* The assertion of BatchWrite: a dirty entry that pcoinsTip does not hold
\* is FRESH in the view, unless it is pruned.
BatchWriteAsserts ==
    \A t \in Dirty(view) \ DOMAIN tip : view[t].coins = Pruned \/ view[t].fresh

\* Nobody can tell that there are caches: reads, evictions, flushes and
\* crashes act on three plain sets of coins.
Store == INSTANCE CoinStore WITH
            durable <- [coins |-> DbCoins, best |-> dbBest],
            current <- [coins |-> TipCoins, best |-> TipBest],
            scratch <- [coins |-> ViewCoins, best |-> ViewBest]

Transparent == Store!Spec
=============================================================================
