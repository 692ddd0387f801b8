--------------------------- MODULE CoinsCacheProofs ---------------------------
(***************************************************************************)
(* The caches of CoinsCache cannot be told from three plain sets of coins, *)
(* for every set of transactions, values of coins and blocks.              *)
(***************************************************************************)
EXTENDS CoinsCache, TLAPS

\* What the flags of a cache over the coins `below` say is true.
Sound(cache, below) ==
    \A t \in DOMAIN cache : /\ cache[t].fresh => below[t] = Pruned
                            /\ cache[t].dirty \/ cache[t].coins = below[t]

\* `base` answers with the coins `below`, or does not know.
Answers(base, below) == \A t \in DOMAIN base : base[t] = below[t]

\* What is not FRESH in the view has an entry in pcoinsTip, and a view that
\* is not in use is empty.
Anchored == \A t \in DOMAIN view : view[t].fresh \/ t \in DOMAIN tip
ClosedEmpty == ~open => DOMAIN view = {} /\ viewBest = NULL

CacheInv ==
    /\ TypeOK
    /\ Sound(tip, DbCoins)
    /\ Sound(view, TipCoins)
    /\ Anchored
    /\ ClosedEmpty

-----------------------------------------------------------------------------
(* The methods of a cache. *)

LEMMA EmptyFacts == DOMAIN Empty = {} /\ \A R : IsPartial(Empty, R)
BY DEF Empty, IsPartial

LEMMA EntryFacts ==
    ASSUME NEW c \in Coins, NEW d \in BOOLEAN, NEW f \in BOOLEAN
    PROVE  LET e == [coins |-> c, dirty |-> d, fresh |-> f]
           IN  e \in Entries /\ e.coins = c /\ e.dirty = d /\ e.fresh = f
BY DEF Entries

LEMMA PutFacts ==
    ASSUME NEW cache, IsPartial(cache, Entries), NEW t \in Txids, NEW e \in Entries
    PROVE  /\ IsPartial(Put(cache, t, e), Entries)
           /\ DOMAIN Put(cache, t, e) = DOMAIN cache \cup {t}
           /\ Put(cache, t, e)[t] = e
           /\ \A x \in DOMAIN cache \ {t} : Put(cache, t, e)[x] = cache[x]
BY DEF Put, IsPartial

LEMMA EraseFacts ==
    ASSUME NEW cache, IsPartial(cache, Entries), NEW t \in Txids
    PROVE  /\ IsPartial(Erase(cache, t), Entries)
           /\ DOMAIN Erase(cache, t) = DOMAIN cache \ {t}
           /\ \A x \in DOMAIN cache \ {t} : Erase(cache, t)[x] = cache[x]
BY DEF Erase, IsPartial

LEMMA HeldFacts ==
    ASSUME NEW cache, IsPartial(cache, Entries)
    PROVE  /\ IsPartial(Held(cache), Coins)
           /\ DOMAIN Held(cache) = DOMAIN cache
           /\ \A t \in DOMAIN cache : Held(cache)[t] = cache[t].coins
BY DEF Held, IsPartial, Entries

LEMMA ShownFacts ==
    ASSUME NEW cache, IsPartial(cache, Entries), NEW below \in [Txids -> Coins]
    PROVE  /\ Shown(cache, below) \in [Txids -> Coins]
           /\ \A t \in DOMAIN cache : Shown(cache, below)[t] = cache[t].coins
           /\ \A t \in Txids \ DOMAIN cache : Shown(cache, below)[t] = below[t]
<1>1. \A t \in DOMAIN cache : t \in Txids /\ cache[t].coins \in Coins
  BY DEF IsPartial, Entries
<1> QED
  BY <1>1 DEF Shown

\* Replacing one entry replaces one value that the cache shows.
LEMMA PutShown ==
    ASSUME NEW cache, IsPartial(cache, Entries), NEW below \in [Txids -> Coins],
           NEW t \in Txids, NEW e \in Entries
    PROVE  Shown(Put(cache, t, e), below) = [Shown(cache, below) EXCEPT ![t] = e.coins]
<1> DEFINE put == Put(cache, t, e)
<1>1. /\ DOMAIN put = DOMAIN cache \cup {t}
      /\ put[t] = e
      /\ \A x \in DOMAIN cache \ {t} : put[x] = cache[x]
  BY DEF Put, IsPartial
<1> HIDE DEF put
<1>2. \A x \in Txids : (IF x \in DOMAIN put THEN put[x].coins ELSE below[x])
                       = IF x = t THEN e.coins
                         ELSE IF x \in DOMAIN cache THEN cache[x].coins ELSE below[x]
  BY <1>1
<1>3. Shown(put, below) = [Shown(cache, below) EXCEPT ![t] = e.coins]
  BY <1>2 DEF Shown
<1> QED
  BY <1>3 DEF put

\* A cache that fetches adds at most one entry, which its flags describe,
\* and shows what it showed before.
LEMMA FetchFacts ==
    ASSUME NEW cache, IsPartial(cache, Entries),
           NEW base, IsPartial(base, Coins),
           NEW below \in [Txids -> Coins], Answers(base, below), Sound(cache, below),
           NEW t \in Txids
    PROVE  LET got == FetchCoins(cache, base, t) IN
           /\ IsPartial(got, Entries)
           /\ DOMAIN got = DOMAIN cache \cup ({t} \cap DOMAIN base)
           /\ \A x \in DOMAIN cache : got[x] = cache[x]
           /\ Sound(got, below)
           /\ Shown(got, below) = Shown(cache, below)
<1>1. CASE t \in DOMAIN cache \/ t \notin DOMAIN base
  BY <1>1 DEF FetchCoins
<1>2. CASE t \notin DOMAIN cache /\ t \in DOMAIN base
  <2> DEFINE e == [coins |-> base[t], dirty |-> FALSE, fresh |-> base[t] = Pruned]
             got == Put(cache, t, e)
  <2>1. base[t] \in Coins /\ base[t] = below[t]
    BY <1>2 DEF IsPartial, Answers
  <2>2. e \in Entries /\ e.coins = base[t] /\ (e.fresh <=> base[t] = Pruned)
    BY <2>1, EntryFacts
  <2>3. FetchCoins(cache, base, t) = got
    BY <1>2 DEF FetchCoins
  <2> HIDE DEF e
  <2>4. /\ IsPartial(got, Entries)
        /\ DOMAIN got = DOMAIN cache \cup {t}
        /\ got[t] = e
        /\ \A x \in DOMAIN cache \ {t} : got[x] = cache[x]
    BY <2>2, PutFacts
  <2>5. Shown(got, below) = [Shown(cache, below) EXCEPT ![t] = e.coins]
    BY <2>2, PutShown
  <2>6. Shown(cache, below)[t] = e.coins /\ Shown(cache, below) \in [Txids -> Coins]
    BY <1>2, <2>1, <2>2, ShownFacts
  <2> HIDE DEF got
  <2>7. Shown(got, below) = Shown(cache, below)
    BY <2>5, <2>6
  <2>8. Sound(got, below)
    BY <2>1, <2>2, <2>4 DEF Sound
  <2> QED
    BY <1>2, <2>3, <2>4, <2>7, <2>8
<1> QED
  BY <1>1, <1>2

\* A modifier changes what the cache shows for one transaction.  An entry
\* that is there keeps its FRESH flag, a new one has it unless the base
\* knows the transaction.
LEMMA ModifyFacts ==
    ASSUME NEW cache, IsPartial(cache, Entries),
           NEW base, IsPartial(base, Coins),
           NEW below \in [Txids -> Coins], Answers(base, below), Sound(cache, below),
           NEW t \in Txids, t \in DOMAIN cache \/ t \in DOMAIN base \/ below[t] = Pruned,
           NEW c \in Coins
    PROVE  LET got == ModifyCoins(cache, base, t, c) IN
           /\ IsPartial(got, Entries)
           /\ DOMAIN got \subseteq DOMAIN cache \cup {t}
           /\ \A x \in DOMAIN cache \cap DOMAIN got : got[x].fresh = cache[x].fresh
           /\ t \in DOMAIN got \ DOMAIN cache => got[t].fresh \/ t \in DOMAIN base
           /\ Sound(got, below)
           /\ Shown(got, below) = [Shown(cache, below) EXCEPT ![t] = c]
<1> DEFINE fresh == IF t \in DOMAIN cache THEN cache[t].fresh
                    ELSE t \notin DOMAIN base \/ base[t] = Pruned
           e == [coins |-> c, dirty |-> TRUE, fresh |-> fresh]
<1>1. fresh \in BOOLEAN
  BY DEF IsPartial, Entries
<1>2. fresh => below[t] = Pruned
  BY DEF Sound, Answers
<1>3. e \in Entries /\ e.coins = c /\ e.dirty = TRUE /\ e.fresh = fresh
  BY <1>1, EntryFacts
<1>4. ModifyCoins(cache, base, t, c) =
         IF fresh /\ c = Pruned THEN Erase(cache, t) ELSE Put(cache, t, e)
  BY DEF ModifyCoins
<1>5. /\ t \in DOMAIN cache => fresh = cache[t].fresh
      /\ t \notin DOMAIN cache => fresh \/ t \in DOMAIN base
  OBVIOUS
<1>6. /\ Shown(cache, below) \in [Txids -> Coins]
      /\ \A x \in DOMAIN cache : Shown(cache, below)[x] = cache[x].coins
      /\ \A x \in Txids \ DOMAIN cache : Shown(cache, below)[x] = below[x]
  BY ShownFacts
<1> HIDE DEF fresh, e
<1>7. CASE fresh /\ c = Pruned
  <2> DEFINE got == Erase(cache, t)
  <2>1. /\ IsPartial(got, Entries)
        /\ DOMAIN got = DOMAIN cache \ {t}
        /\ \A x \in DOMAIN cache \ {t} : got[x] = cache[x]
    BY EraseFacts
  <2> HIDE DEF got
  <2>2. Sound(got, below)
    BY <2>1 DEF Sound
  <2>3. \A x \in Txids : (IF x \in DOMAIN got THEN got[x].coins ELSE below[x])
                         = IF x = t THEN c
                           ELSE IF x \in DOMAIN cache THEN cache[x].coins ELSE below[x]
    BY <1>2, <1>7, <2>1
  <2>4. Shown(got, below) = [Shown(cache, below) EXCEPT ![t] = c]
    BY <2>3 DEF Shown
  <2>5. ModifyCoins(cache, base, t, c) = got
    BY <1>4, <1>7 DEF got
  <2> QED
    BY <2>1, <2>2, <2>4, <2>5
<1>8. CASE ~(fresh /\ c = Pruned)
  <2> DEFINE got == Put(cache, t, e)
  <2>1. /\ IsPartial(got, Entries)
        /\ DOMAIN got = DOMAIN cache \cup {t}
        /\ got[t] = e
        /\ \A x \in DOMAIN cache \ {t} : got[x] = cache[x]
    BY <1>3 DEF Put, IsPartial
  <2>2. Shown(got, below) = [Shown(cache, below) EXCEPT ![t] = c]
    BY <1>3, PutShown
  <2> HIDE DEF got
  <2>3. Sound(got, below)
    BY <1>2, <1>3, <2>1 DEF Sound
  <2>4. ModifyCoins(cache, base, t, c) = got
    BY <1>4, <1>8 DEF got
  <2>5. \A x \in DOMAIN cache \cap DOMAIN got : got[x].fresh = cache[x].fresh
    BY <1>3, <1>5, <2>1
  <2> QED
    BY <1>3, <1>5, <2>1, <2>2, <2>3, <2>4, <2>5
<1> QED
  BY <1>7, <1>8

\* A child whose entries are FRESH or known to us leaves us with what it
\* showed, and with flags that are true.
LEMMA BatchWriteFacts ==
    ASSUME NEW us, IsPartial(us, Entries), NEW child, IsPartial(child, Entries),
           NEW below \in [Txids -> Coins],
           Sound(us, below), Sound(child, Shown(us, below)),
           \A t \in DOMAIN child : child[t].fresh \/ t \in DOMAIN us
    PROVE  LET got == BatchWrite(us, child) IN
           /\ IsPartial(got, Entries)
           /\ Sound(got, below)
           /\ Shown(got, below) = Shown(child, Shown(us, below))
<1> DEFINE erased == {t \in Dirty(child) \cap DOMAIN us : us[t].fresh /\ child[t].coins = Pruned}
           moved == {t \in Dirty(child) \ DOMAIN us : child[t].coins # Pruned}
           got == BatchWrite(us, child)
           mid == Shown(us, below)
<1>1. /\ \A t \in DOMAIN us : t \in Txids /\ us[t] \in Entries
      /\ \A t \in DOMAIN child : t \in Txids /\ child[t] \in Entries
  BY DEF IsPartial
<1>2. /\ \A t \in DOMAIN us : mid[t] = us[t].coins
      /\ \A t \in Txids \ DOMAIN us : mid[t] = below[t]
  BY ShownFacts
<1>3. /\ DOMAIN got = (DOMAIN us \ erased) \cup moved
      /\ \A t \in moved : got[t] = [coins |-> child[t].coins, dirty |-> TRUE, fresh |-> TRUE]
      /\ \A t \in (DOMAIN us \ erased) \cap Dirty(child) :
            got[t] = [coins |-> child[t].coins, dirty |-> TRUE, fresh |-> us[t].fresh]
      /\ \A t \in DOMAIN us \ Dirty(child) : got[t] = us[t]
  BY DEF BatchWrite
<1>4. /\ \A t \in DOMAIN child : child[t].fresh => mid[t] = Pruned
      /\ \A t \in DOMAIN child \ Dirty(child) : child[t].coins = mid[t]
      /\ Dirty(child) \subseteq DOMAIN child
  BY DEF Sound, Dirty
<1>5. got = [t \in DOMAIN got |-> got[t]]
  BY DEF BatchWrite
<1> HIDE DEF got, mid
<1>6. ASSUME NEW t \in DOMAIN got
      PROVE  /\ t \in Txids
             /\ got[t] \in Entries
             /\ got[t].fresh => below[t] = Pruned
             /\ got[t].dirty \/ got[t].coins = below[t]
             /\ got[t].coins = IF t \in DOMAIN child THEN child[t].coins ELSE mid[t]
  <2>1. CASE t \in moved
    <3>1. t \in DOMAIN child /\ t \in Txids /\ t \notin DOMAIN us
      BY <1>1, <1>4, <2>1
    <3>2. below[t] = Pruned
      BY <1>2, <1>4, <3>1
    <3>3. child[t].coins \in Coins
      BY <1>1, <3>1 DEF Entries
    <3> got[t] = [coins |-> child[t].coins, dirty |-> TRUE, fresh |-> TRUE]
      BY <1>3, <2>1
    <3>4. /\ got[t] \in Entries /\ got[t].coins = child[t].coins
          /\ got[t].dirty = TRUE
      BY <3>3 DEF Entries
    <3> QED
      BY <3>1, <3>2, <3>4
  <2>2. CASE t \in (DOMAIN us \ erased) \cap Dirty(child)
    <3>1. t \in DOMAIN child /\ t \in Txids /\ t \in DOMAIN us
      BY <1>1, <1>4, <2>2
    <3>2. us[t].fresh => below[t] = Pruned
      BY <3>1 DEF Sound
    <3>3. child[t].coins \in Coins /\ us[t].fresh \in BOOLEAN
      BY <1>1, <3>1 DEF Entries
    <3> got[t] = [coins |-> child[t].coins, dirty |-> TRUE, fresh |-> us[t].fresh]
      BY <1>3, <2>2
    <3>4. /\ got[t] \in Entries /\ got[t].coins = child[t].coins
          /\ got[t].dirty = TRUE /\ got[t].fresh = us[t].fresh
      BY <3>3 DEF Entries
    <3> QED
      BY <3>1, <3>2, <3>4
  <2>3. CASE t \in DOMAIN us \ Dirty(child)
    <3>1. got[t] = us[t] /\ t \in Txids /\ us[t] \in Entries
      BY <1>1, <1>3, <2>3
    <3>2. /\ us[t].fresh => below[t] = Pruned
          /\ us[t].dirty \/ us[t].coins = below[t]
      BY <2>3 DEF Sound
    <3>3. us[t].coins = IF t \in DOMAIN child THEN child[t].coins ELSE mid[t]
      BY <1>2, <1>4, <2>3
    <3> QED
      BY <3>1, <3>2, <3>3
  <2> QED
    BY <1>3, <2>1, <2>2, <2>3
<1>7. ASSUME NEW t \in Txids, t \notin DOMAIN got
      PROVE  below[t] = IF t \in DOMAIN child THEN child[t].coins ELSE mid[t]
  <2>1. CASE t \in erased
    BY <1>4, <2>1 DEF Sound
  <2>2. CASE t \notin DOMAIN us
    <3>1. t \in Dirty(child) => child[t].coins = Pruned
      BY <1>3, <1>7, <2>2
    <3>2. mid[t] = below[t]
      BY <1>2, <2>2
    <3>3. CASE t \in DOMAIN child
      BY <1>4, <2>2, <3>1, <3>2, <3>3
    <3> QED
      BY <3>2, <3>3
  <2> QED
    BY <1>3, <1>7, <2>1, <2>2
<1>8. IsPartial(got, Entries)
  BY <1>5, <1>6 DEF IsPartial
<1>9. Sound(got, below)
  BY <1>6 DEF Sound
<1>10. Shown(got, below) = Shown(child, mid)
  BY <1>6, <1>7 DEF Shown
<1> QED
  BY <1>8, <1>9, <1>10 DEF got, mid

\* After CCoinsViewDB::BatchWrite the database holds what the cache showed.
LEMMA DbBatchWriteFacts ==
    ASSUME TypeOK, Sound(tip, DbCoins)
    PROVE  LET new == DbBatchWrite(db, tip) IN
           /\ IsPartial(new, Coins \ {Pruned})
           /\ [t \in Txids |-> IF t \in DOMAIN new THEN new[t] ELSE Pruned] = TipCoins
<1> DEFINE new == DbBatchWrite(db, tip)
<1>1. /\ \A t \in DOMAIN db : t \in Txids /\ db[t] \in Coins \ {Pruned}
      /\ \A t \in DOMAIN tip : t \in Txids /\ tip[t].coins \in Coins
      /\ Dirty(tip) \subseteq DOMAIN tip
      /\ \A t \in DOMAIN tip \ Dirty(tip) : tip[t].coins = DbCoins[t]
  BY DEF TypeOK, IsPartial, Entries, Dirty, Sound
<1>2. /\ DOMAIN new = {t \in DOMAIN db \cup Dirty(tip) : t \in Dirty(tip) => tip[t].coins # Pruned}
      /\ \A t \in DOMAIN new : new[t] = IF t \in Dirty(tip) THEN tip[t].coins ELSE db[t]
      /\ new = [t \in DOMAIN new |-> new[t]]
  BY DEF DbBatchWrite
<1> HIDE DEF new
<1>3. \A t \in Txids : DbCoins[t] = IF t \in DOMAIN db THEN db[t] ELSE Pruned
  BY DEF DbCoins
<1>4. \A t \in Txids : (IF t \in DOMAIN new THEN new[t] ELSE Pruned)
                       = IF t \in DOMAIN tip THEN tip[t].coins ELSE DbCoins[t]
  BY <1>1, <1>2, <1>3
<1>5. [t \in Txids |-> IF t \in DOMAIN new THEN new[t] ELSE Pruned] = TipCoins
  BY <1>4 DEF TipCoins, Shown
<1>6. \A t \in DOMAIN new : t \in Txids /\ new[t] \in Coins \ {Pruned}
  BY <1>1, <1>2
<1>7. IsPartial(new, Coins \ {Pruned})
  BY <1>2, <1>6 DEF IsPartial
<1> QED
  BY <1>5, <1>7 DEF new

-----------------------------------------------------------------------------
(* The steps. *)

LEMMA CoinsFacts ==
    ASSUME CacheInv
    PROVE  /\ IsPartial(db, Coins) /\ IsPartial(tip, Entries) /\ IsPartial(view, Entries)
           /\ DbCoins \in [Txids -> Coins]
           /\ TipCoins \in [Txids -> Coins]
           /\ ViewCoins \in [Txids -> Coins]
           /\ Answers(db, DbCoins)
           /\ \A t \in Txids \ DOMAIN db : DbCoins[t] = Pruned
<1>1. IsPartial(db, Coins) /\ IsPartial(tip, Entries) /\ IsPartial(view, Entries)
  BY DEF CacheInv, TypeOK, IsPartial
<1>2. DbCoins \in [Txids -> Coins]
  BY <1>1, CoinsAssumption DEF DbCoins, IsPartial
<1>3. TipCoins \in [Txids -> Coins]
  BY <1>1, <1>2, ShownFacts DEF TipCoins
<1>4. ViewCoins \in [Txids -> Coins]
  BY <1>1, <1>3, ShownFacts DEF ViewCoins
<1>5. Answers(db, DbCoins)
  BY <1>1 DEF Answers, DbCoins, IsPartial
<1>6. \A t \in Txids \ DOMAIN db : DbCoins[t] = Pruned
  BY DEF DbCoins
<1> QED
  BY <1>1, <1>2, <1>3, <1>4, <1>5, <1>6

\* A view that is not in use shows what pcoinsTip shows.
LEMMA EmptyShows ==
    ASSUME NEW cache, DOMAIN cache = {}, NEW below \in [Txids -> Coins]
    PROVE  Shown(cache, below) = below
BY DEF Shown

\* pcoinsTip fetches, or not: it shows the same, and then answers for t.
LEMMA TipFetches ==
    ASSUME CacheInv, NEW t \in Txids, db' = db,
           tip' = FetchCoins(tip, db, t) \/ tip' = tip
    PROVE  /\ IsPartial(tip', Entries)
           /\ DbCoins' = DbCoins
           /\ TipCoins' = TipCoins
           /\ Sound(tip', DbCoins)
           /\ DOMAIN tip \subseteq DOMAIN tip'
           /\ IsPartial(Held(tip'), Coins)
           /\ DOMAIN Held(tip') = DOMAIN tip'
           /\ Answers(Held(tip'), TipCoins)
           /\ tip' = FetchCoins(tip, db, t) =>
                 t \in DOMAIN tip' \/ TipCoins[t] = Pruned
<1>1. /\ IsPartial(db, Coins) /\ IsPartial(tip, Entries)
      /\ DbCoins \in [Txids -> Coins] /\ Answers(db, DbCoins)
      /\ \A x \in Txids \ DOMAIN db : DbCoins[x] = Pruned
  BY CoinsFacts
<1>2. Sound(tip, DbCoins)
  BY DEF CacheInv
<1>3. DbCoins' = DbCoins
  BY DEF DbCoins
<1> DEFINE got == FetchCoins(tip, db, t)
<1>4. /\ IsPartial(got, Entries)
      /\ DOMAIN got = DOMAIN tip \cup ({t} \cap DOMAIN db)
      /\ Sound(got, DbCoins)
      /\ Shown(got, DbCoins) = Shown(tip, DbCoins)
  BY <1>1, <1>2, FetchFacts
<1> HIDE DEF got
<1>5. /\ IsPartial(tip', Entries) /\ Sound(tip', DbCoins)
      /\ DOMAIN tip \subseteq DOMAIN tip'
      /\ Shown(tip', DbCoins) = Shown(tip, DbCoins)
      /\ tip' = got => t \in DOMAIN tip' \/ t \notin DOMAIN tip \cup DOMAIN db
  BY <1>1, <1>2, <1>4 DEF got
<1>6. TipCoins' = TipCoins
  BY <1>3, <1>5 DEF TipCoins
<1>7. /\ IsPartial(Held(tip'), Coins)
      /\ DOMAIN Held(tip') = DOMAIN tip'
      /\ \A x \in DOMAIN tip' : Held(tip')[x] = (tip'[x]).coins
  BY <1>5, HeldFacts
<1>8. /\ \A x \in DOMAIN tip' : Shown(tip', DbCoins)[x] = (tip'[x]).coins
      /\ \A x \in Txids \ DOMAIN tip : Shown(tip, DbCoins)[x] = DbCoins[x]
  BY <1>1, <1>5, ShownFacts
<1>9. Answers(Held(tip'), TipCoins)
  BY <1>5, <1>7, <1>8 DEF Answers, TipCoins
<1>10. tip' = got => t \in DOMAIN tip' \/ TipCoins[t] = Pruned
  BY <1>1, <1>5, <1>8 DEF TipCoins
<1> QED
  BY <1>3, <1>5, <1>6, <1>7, <1>9, <1>10 DEF got

LEMMA ReadTipKeeps ==
    ASSUME CacheInv, NEW t \in Txids, ReadTip(t)
    PROVE  CacheInv' /\ DbCoins' = DbCoins /\ TipCoins' = TipCoins /\ ViewCoins' = ViewCoins
<1>1. /\ tip' = FetchCoins(tip, db, t)
      /\ UNCHANGED <<db, dbBest, tipBest, open, view, viewBest>>
  BY DEF ReadTip
<1>2. /\ IsPartial(tip', Entries) /\ Sound(tip', DbCoins)
      /\ DbCoins' = DbCoins /\ TipCoins' = TipCoins
      /\ DOMAIN tip \subseteq DOMAIN tip'
  BY <1>1, TipFetches
<1>3. ViewCoins' = ViewCoins
  BY <1>1, <1>2 DEF ViewCoins
<1>4. TypeOK'
  BY <1>1, <1>2 DEF CacheInv, TypeOK
<1>5. Sound(tip, DbCoins)' /\ Sound(view, TipCoins)'
  BY <1>1, <1>2 DEF CacheInv
<1>6. Anchored' /\ ClosedEmpty'
  BY <1>1, <1>2 DEF CacheInv, Anchored, ClosedEmpty
<1> QED
  BY <1>2, <1>3, <1>4, <1>5, <1>6 DEF CacheInv

LEMMA ReadViewKeeps ==
    ASSUME CacheInv, NEW t \in Txids, ReadView(t)
    PROVE  CacheInv' /\ DbCoins' = DbCoins /\ TipCoins' = TipCoins /\ ViewCoins' = ViewCoins
<1>1. /\ open
      /\ tip' = FetchCoins(tip, db, t) \/ tip' = tip
      /\ view' = FetchCoins(view, Held(tip'), t)
      /\ UNCHANGED <<db, dbBest, tipBest, open, viewBest>>
  BY DEF ReadView
<1>2. /\ IsPartial(tip', Entries) /\ Sound(tip', DbCoins)
      /\ DbCoins' = DbCoins /\ TipCoins' = TipCoins
      /\ DOMAIN tip \subseteq DOMAIN tip'
      /\ IsPartial(Held(tip'), Coins) /\ DOMAIN Held(tip') = DOMAIN tip'
      /\ Answers(Held(tip'), TipCoins)
  BY <1>1, TipFetches
<1>3. IsPartial(view, Entries) /\ TipCoins \in [Txids -> Coins] /\ Sound(view, TipCoins)
  BY CoinsFacts DEF CacheInv
<1>4. /\ IsPartial(view', Entries)
      /\ DOMAIN view' = DOMAIN view \cup ({t} \cap DOMAIN tip')
      /\ \A x \in DOMAIN view : view'[x] = view[x]
      /\ Sound(view', TipCoins)
      /\ Shown(view', TipCoins) = Shown(view, TipCoins)
  <2> DEFINE got == FetchCoins(view, Held(tip'), t)
  <2>1. /\ IsPartial(got, Entries)
        /\ DOMAIN got = DOMAIN view \cup ({t} \cap DOMAIN Held(tip'))
        /\ \A x \in DOMAIN view : got[x] = view[x]
        /\ Sound(got, TipCoins)
        /\ Shown(got, TipCoins) = Shown(view, TipCoins)
    BY <1>2, <1>3, FetchFacts
  <2> HIDE DEF got
  <2>2. view' = got
    BY <1>1 DEF got
  <2> QED
    BY <1>2, <2>1, <2>2
<1>5. ViewCoins' = ViewCoins
  BY <1>2, <1>4 DEF ViewCoins
<1>6. TypeOK'
  BY <1>1, <1>2, <1>4 DEF CacheInv, TypeOK
<1>7. Sound(tip, DbCoins)' /\ Sound(view, TipCoins)'
  BY <1>2, <1>4
<1>8. Anchored' /\ ClosedEmpty'
  BY <1>1, <1>2, <1>4 DEF CacheInv, Anchored, ClosedEmpty
<1> QED
  BY <1>2, <1>5, <1>6, <1>7, <1>8 DEF CacheInv

LEMMA ModifyKeeps ==
    ASSUME CacheInv, NEW t \in Txids, NEW c \in Coins, Modify(t, c)
    PROVE  /\ CacheInv' /\ DbCoins' = DbCoins /\ TipCoins' = TipCoins
           /\ ViewCoins' = [ViewCoins EXCEPT ![t] = c]
<1>1. /\ open
      /\ t \in DOMAIN view \/ tip' = FetchCoins(tip, db, t)
      /\ tip' = FetchCoins(tip, db, t) \/ tip' = tip
      /\ view' = ModifyCoins(view, Held(tip'), t, c)
      /\ UNCHANGED <<db, dbBest, tipBest, open, viewBest>>
  BY DEF Modify
<1>2. /\ IsPartial(tip', Entries) /\ Sound(tip', DbCoins)
      /\ DbCoins' = DbCoins /\ TipCoins' = TipCoins
      /\ DOMAIN tip \subseteq DOMAIN tip'
      /\ IsPartial(Held(tip'), Coins) /\ DOMAIN Held(tip') = DOMAIN tip'
      /\ Answers(Held(tip'), TipCoins)
      /\ t \in DOMAIN view \/ t \in DOMAIN tip' \/ TipCoins[t] = Pruned
  BY <1>1, TipFetches
<1>3. IsPartial(view, Entries) /\ TipCoins \in [Txids -> Coins] /\ Sound(view, TipCoins)
  BY CoinsFacts DEF CacheInv
<1>4. /\ IsPartial(view', Entries)
      /\ DOMAIN view' \subseteq DOMAIN view \cup {t}
      /\ \A x \in DOMAIN view \cap DOMAIN view' : (view'[x]).fresh = view[x].fresh
      /\ t \in DOMAIN view' \ DOMAIN view => (view'[t]).fresh \/ t \in DOMAIN tip'
      /\ Sound(view', TipCoins)
      /\ Shown(view', TipCoins) = [Shown(view, TipCoins) EXCEPT ![t] = c]
  BY <1>1, <1>2, <1>3, ModifyFacts
<1>5. ViewCoins' = [ViewCoins EXCEPT ![t] = c]
  BY <1>2, <1>4 DEF ViewCoins
<1>6. TypeOK'
  BY <1>1, <1>2, <1>4 DEF CacheInv, TypeOK
<1>7. Sound(tip, DbCoins)' /\ Sound(view, TipCoins)'
  BY <1>2, <1>4
<1>8. Anchored' /\ ClosedEmpty'
  BY <1>1, <1>2, <1>4 DEF CacheInv, Anchored, ClosedEmpty
<1> QED
  BY <1>2, <1>5, <1>6, <1>7, <1>8 DEF CacheInv

\* A new or dropped view is empty and shows what pcoinsTip shows.
LEMMA ViewEmptied ==
    ASSUME CacheInv, DOMAIN view' = {}, IsPartial(view', Entries), viewBest' = NULL,
           open' \in BOOLEAN, UNCHANGED <<db, dbBest, tip, tipBest>>
    PROVE  /\ CacheInv' /\ DbCoins' = DbCoins /\ TipCoins' = TipCoins
           /\ ViewCoins' = TipCoins
<1>1. DbCoins' = DbCoins /\ TipCoins' = TipCoins
  BY DEF DbCoins, TipCoins
<1>2. ViewCoins' = TipCoins
  BY <1>1, CoinsFacts, EmptyShows DEF ViewCoins
<1>3. TypeOK'
  BY DEF CacheInv, TypeOK
<1>4. Sound(tip, DbCoins)' /\ Sound(view, TipCoins)'
  BY <1>1 DEF CacheInv, Sound
<1>5. Anchored' /\ ClosedEmpty'
  BY DEF Anchored, ClosedEmpty
<1> QED
  BY <1>1, <1>2, <1>3, <1>4, <1>5 DEF CacheInv

\* A step that only changes what is remembered of the best blocks.
LEMMA BestKeeps ==
    ASSUME CacheInv, UNCHANGED <<db, dbBest, tip, open, view>>,
           tipBest' \in Blocks \cup {NULL}, viewBest' \in Blocks \cup {NULL},
           ~open => viewBest' = NULL
    PROVE  /\ CacheInv' /\ DbCoins' = DbCoins /\ TipCoins' = TipCoins
           /\ ViewCoins' = ViewCoins
<1>1. DbCoins' = DbCoins /\ TipCoins' = TipCoins /\ ViewCoins' = ViewCoins
  BY DEF DbCoins, TipCoins, ViewCoins
<1>2. TypeOK'
  BY DEF CacheInv, TypeOK
<1>3. Sound(tip, DbCoins)' /\ Sound(view, TipCoins)'
  BY <1>1 DEF CacheInv
<1>4. Anchored' /\ ClosedEmpty'
  BY DEF CacheInv, Anchored, ClosedEmpty
<1> QED
  BY <1>1, <1>2, <1>3, <1>4 DEF CacheInv

LEMMA FlushViewKeeps ==
    ASSUME CacheInv, FlushView
    PROVE  /\ CacheInv' /\ DbCoins' = DbCoins
           /\ TipCoins' = ViewCoins /\ ViewCoins' = ViewCoins
<1>1. /\ tip' = BatchWrite(tip, view) /\ tipBest' = viewBest
      /\ open' = FALSE /\ view' = Empty /\ viewBest' = NULL
      /\ UNCHANGED <<db, dbBest>>
  BY DEF FlushView
<1>2. DbCoins' = DbCoins
  BY <1>1 DEF DbCoins
<1>3. /\ IsPartial(tip, Entries) /\ IsPartial(view, Entries) /\ DbCoins \in [Txids -> Coins]
      /\ Sound(tip, DbCoins) /\ Sound(view, Shown(tip, DbCoins))
      /\ \A t \in DOMAIN view : view[t].fresh \/ t \in DOMAIN tip
      /\ ViewCoins \in [Txids -> Coins]
  BY CoinsFacts DEF CacheInv, TipCoins, Anchored
<1>4. /\ IsPartial(tip', Entries) /\ Sound(tip', DbCoins)
      /\ Shown(tip', DbCoins) = Shown(view, Shown(tip, DbCoins))
  BY <1>1, <1>3, BatchWriteFacts
<1>5. TipCoins' = ViewCoins
  BY <1>2, <1>4 DEF TipCoins, ViewCoins
<1>6. DOMAIN view' = {} /\ IsPartial(view', Entries)
  BY <1>1, EmptyFacts
<1>7. ViewCoins' = ViewCoins
  BY <1>3, <1>5, <1>6, EmptyShows DEF ViewCoins
<1>8. TypeOK'
  BY <1>1, <1>4, <1>6 DEF CacheInv, TypeOK
<1>9. Sound(tip, DbCoins)' /\ Sound(view, TipCoins)'
  BY <1>2, <1>4, <1>6 DEF Sound
<1>10. Anchored' /\ ClosedEmpty'
  BY <1>1, <1>6 DEF Anchored, ClosedEmpty
<1> QED
  BY <1>2, <1>5, <1>7, <1>8, <1>9, <1>10 DEF CacheInv

LEMMA FlushTipKeeps ==
    ASSUME CacheInv, FlushTip
    PROVE  /\ CacheInv' /\ DbCoins' = TipCoins
           /\ TipCoins' = TipCoins /\ ViewCoins' = ViewCoins
<1>1. /\ ~open /\ db' = DbBatchWrite(db, tip) /\ dbBest' = TipBest /\ tip' = Empty
      /\ UNCHANGED <<tipBest, open, view, viewBest>>
  BY DEF FlushTip
<1>2. /\ IsPartial(db', Coins \ {Pruned})
      /\ DbCoins' = TipCoins
  BY <1>1, DbBatchWriteFacts DEF CacheInv, DbCoins
<1>3. DOMAIN tip' = {} /\ IsPartial(tip', Entries)
  BY <1>1, EmptyFacts
<1>4. TipCoins \in [Txids -> Coins]
  BY CoinsFacts
<1>5. TipCoins' = TipCoins
  BY <1>2, <1>3, <1>4, EmptyShows DEF TipCoins
<1>6. DOMAIN view = {} /\ viewBest = NULL
  BY <1>1 DEF CacheInv, ClosedEmpty
<1>7. ViewCoins' = ViewCoins
  BY <1>1, <1>5 DEF ViewCoins
<1>8. TipBest \in Blocks
  BY DEF CacheInv, TypeOK, TipBest
<1>9. TypeOK'
  BY <1>1, <1>2, <1>3, <1>8 DEF CacheInv, TypeOK
<1>10. Sound(tip, DbCoins)' /\ Sound(view, TipCoins)'
  BY <1>1, <1>3, <1>6 DEF Sound
<1>11. Anchored' /\ ClosedEmpty'
  BY <1>1, <1>6 DEF Anchored, ClosedEmpty
<1> QED
  BY <1>2, <1>5, <1>7, <1>9, <1>10, <1>11 DEF CacheInv

LEMMA CrashKeeps ==
    ASSUME CacheInv, Crash
    PROVE  /\ CacheInv' /\ DbCoins' = DbCoins
           /\ TipCoins' = DbCoins /\ ViewCoins' = DbCoins
<1>1. /\ tip' = Empty /\ tipBest' = NULL
      /\ open' = FALSE /\ view' = Empty /\ viewBest' = NULL
      /\ UNCHANGED <<db, dbBest>>
  BY DEF Crash
<1>2. /\ DOMAIN tip' = {} /\ IsPartial(tip', Entries)
      /\ DOMAIN view' = {} /\ IsPartial(view', Entries)
  BY <1>1, EmptyFacts
<1>3. DbCoins' = DbCoins
  BY <1>1 DEF DbCoins
<1>4. DbCoins \in [Txids -> Coins]
  BY CoinsFacts
<1>5. TipCoins' = DbCoins
  BY <1>2, <1>3, <1>4, EmptyShows DEF TipCoins
<1>6. ViewCoins' = DbCoins
  BY <1>2, <1>4, <1>5, EmptyShows DEF ViewCoins
<1>7. TypeOK'
  BY <1>1, <1>2 DEF CacheInv, TypeOK
<1>8. Sound(tip, DbCoins)' /\ Sound(view, TipCoins)'
  BY <1>2 DEF Sound
<1>9. Anchored' /\ ClosedEmpty'
  BY <1>1, <1>2 DEF Anchored, ClosedEmpty
<1> QED
  BY <1>3, <1>5, <1>6, <1>7, <1>8, <1>9 DEF CacheInv

-----------------------------------------------------------------------------
(* The theorems. *)

LEMMA InitKeeps ==
    ASSUME Init
    PROVE  CacheInv /\ TipCoins = DbCoins /\ ViewCoins = TipCoins
<1>1. /\ DOMAIN db = {} /\ DOMAIN tip = {} /\ DOMAIN view = {}
      /\ IsPartial(db, Coins \ {Pruned}) /\ IsPartial(tip, Entries) /\ IsPartial(view, Entries)
  BY EmptyFacts DEF Init
<1>2. TypeOK
  BY <1>1, CoinsAssumption DEF Init, TypeOK
<1>3. CacheInv
  BY <1>1, <1>2 DEF Init, CacheInv, Sound, Anchored, ClosedEmpty
<1>4. DbCoins \in [Txids -> Coins]
  BY <1>3, CoinsFacts
<1>5. TipCoins = DbCoins
  BY <1>1, <1>4, EmptyShows DEF TipCoins
<1>6. ViewCoins = TipCoins
  BY <1>1, <1>4, <1>5, EmptyShows DEF ViewCoins
<1> QED
  BY <1>3, <1>5, <1>6

\* Every step of the caches is a step of the plain store, or leaves it alone.
LEMMA StepRefines ==
    ASSUME CacheInv, [Next]_cacheVars
    PROVE  CacheInv' /\ [Store!Next]_(Store!vars)
<1> DEFINE D == [coins |-> DbCoins, best |-> dbBest]
           T == [coins |-> TipCoins, best |-> TipBest]
           V == [coins |-> ViewCoins, best |-> ViewBest]
<1>0. /\ dbBest \in Blocks /\ tipBest \in Blocks \cup {NULL}
      /\ viewBest \in Blocks \cup {NULL} /\ NULL \notin Blocks
      /\ ~open => viewBest = NULL
      /\ open \in BOOLEAN
  BY CoinsAssumption DEF CacheInv, TypeOK, ClosedEmpty
<1>1. CASE OpenView
  <2>1. CacheInv' /\ DbCoins' = DbCoins /\ TipCoins' = TipCoins /\ ViewCoins' = TipCoins
    BY <1>1, EmptyFacts, ViewEmptied DEF OpenView
  <2>2. dbBest' = dbBest /\ TipBest' = TipBest /\ ViewBest' = TipBest
    BY <1>1 DEF OpenView, TipBest, ViewBest
  <2>3. Store!Discard
    BY <2>1, <2>2 DEF Store!Discard
  <2> QED
    BY <2>1, <2>3 DEF Store!Next
<1>2. CASE GetBestBlock
  <2>1. /\ dbBest' = dbBest /\ TipBest' = TipBest /\ ViewBest' = ViewBest
        /\ tipBest' \in Blocks \cup {NULL} /\ viewBest' \in Blocks \cup {NULL}
        /\ ~open => viewBest' = NULL
    BY <1>0, <1>2 DEF GetBestBlock, TipBest, ViewBest
  <2>2. CacheInv' /\ DbCoins' = DbCoins /\ TipCoins' = TipCoins /\ ViewCoins' = ViewCoins
    BY <1>2, <2>1, BestKeeps DEF GetBestBlock
  <2> QED
    BY <2>1, <2>2 DEF Store!vars
<1>3. CASE FlushView
  <2>1. CacheInv' /\ DbCoins' = DbCoins /\ TipCoins' = ViewCoins /\ ViewCoins' = ViewCoins
    BY <1>3, FlushViewKeeps
  <2>2. dbBest' = dbBest /\ TipBest' = ViewBest /\ ViewBest' = ViewBest
    BY <1>3 DEF FlushView, TipBest, ViewBest
  <2>3. Store!Commit
    BY <2>1, <2>2 DEF Store!Commit
  <2> QED
    BY <2>1, <2>3 DEF Store!Next
<1>4. CASE DropView
  <2>1. CacheInv' /\ DbCoins' = DbCoins /\ TipCoins' = TipCoins /\ ViewCoins' = TipCoins
    BY <1>4, EmptyFacts, ViewEmptied DEF DropView
  <2>2. dbBest' = dbBest /\ TipBest' = TipBest /\ ViewBest' = TipBest
    BY <1>4 DEF DropView, TipBest, ViewBest
  <2>3. Store!Discard
    BY <2>1, <2>2 DEF Store!Discard
  <2> QED
    BY <2>1, <2>3 DEF Store!Next
<1>5. CASE FlushTip
  <2>1. CacheInv' /\ DbCoins' = TipCoins /\ TipCoins' = TipCoins /\ ViewCoins' = ViewCoins
    BY <1>5, FlushTipKeeps
  <2>2. dbBest' = TipBest /\ TipBest' = TipBest /\ ViewBest' = ViewBest
    BY <1>5 DEF FlushTip, TipBest, ViewBest
  <2>3. Store!Persist
    BY <2>1, <2>2 DEF Store!Persist
  <2> QED
    BY <2>1, <2>3 DEF Store!Next
<1>6. CASE Crash
  <2>1. CacheInv' /\ DbCoins' = DbCoins /\ TipCoins' = DbCoins /\ ViewCoins' = DbCoins
    BY <1>6, CrashKeeps
  <2>2. dbBest' = dbBest /\ TipBest' = dbBest /\ ViewBest' = dbBest
    BY <1>6 DEF Crash, TipBest, ViewBest
  <2>3. Store!Crash
    BY <2>1, <2>2 DEF Store!Crash
  <2> QED
    BY <2>1, <2>3 DEF Store!Next
<1>7. ASSUME NEW t \in Txids, ReadTip(t) \/ ReadView(t)
      PROVE  CacheInv' /\ UNCHANGED Store!vars
  <2>1. CacheInv' /\ DbCoins' = DbCoins /\ TipCoins' = TipCoins /\ ViewCoins' = ViewCoins
    BY <1>7, ReadTipKeeps, ReadViewKeeps
  <2>2. dbBest' = dbBest /\ TipBest' = TipBest /\ ViewBest' = ViewBest
    BY <1>7 DEF ReadTip, ReadView, TipBest, ViewBest
  <2> QED
    BY <2>1, <2>2 DEF Store!vars
<1>8. ASSUME NEW t \in Txids, NEW c \in Coins, Modify(t, c)
      PROVE  CacheInv' /\ Store!Next
  <2>1. /\ CacheInv' /\ DbCoins' = DbCoins /\ TipCoins' = TipCoins
        /\ ViewCoins' = [ViewCoins EXCEPT ![t] = c]
    BY <1>8, ModifyKeeps
  <2>2. dbBest' = dbBest /\ TipBest' = TipBest /\ ViewBest' = ViewBest
    BY <1>8 DEF Modify, TipBest, ViewBest
  <2>3. V' = [V EXCEPT !.coins[t] = c] /\ D' = D /\ T' = T
    BY <2>1, <2>2
  <2>4. Store!ModifyCoins
    BY <2>3 DEF Store!ModifyCoins
  <2> QED
    BY <2>1, <2>4 DEF Store!Next
<1>9. ASSUME NEW b \in Blocks, SetBestBlock(b)
      PROVE  CacheInv' /\ Store!Next
  <2>1. /\ dbBest' = dbBest /\ TipBest' = TipBest /\ ViewBest' = b
        /\ tipBest' \in Blocks \cup {NULL} /\ viewBest' \in Blocks \cup {NULL}
        /\ open
    BY <1>0, <1>9 DEF SetBestBlock, TipBest, ViewBest
  <2>2. CacheInv' /\ DbCoins' = DbCoins /\ TipCoins' = TipCoins /\ ViewCoins' = ViewCoins
    BY <1>9, <2>1, BestKeeps DEF SetBestBlock
  <2>3. V' = [V EXCEPT !.best = b] /\ D' = D /\ T' = T
    BY <2>1, <2>2
  <2>4. Store!SetBestBlock
    BY <2>3 DEF Store!SetBestBlock
  <2> QED
    BY <2>2, <2>4 DEF Store!Next
<1>10. CASE UNCHANGED cacheVars
  <2>1. /\ DbCoins' = DbCoins /\ TipCoins' = TipCoins /\ ViewCoins' = ViewCoins
        /\ dbBest' = dbBest /\ TipBest' = TipBest /\ ViewBest' = ViewBest
    BY <1>10 DEF cacheVars, DbCoins, TipCoins, ViewCoins, TipBest, ViewBest
  <2>2. CacheInv'
    BY <1>0, <1>10, BestKeeps DEF cacheVars
  <2> QED
    BY <2>1, <2>2 DEF Store!vars
<1> QED
  BY <1>1, <1>2, <1>3, <1>4, <1>5, <1>6, <1>7, <1>8, <1>9, <1>10 DEF Next

\* The flags of every entry are true, in every reachable state: the
\* invariant the other theorems rest on.
THEOREM CacheCorrect == Spec => []CacheInv
<1>1. Init => CacheInv
  BY InitKeeps
<1>2. CacheInv /\ [Next]_cacheVars => CacheInv'
  BY StepRefines
<1> QED
  BY <1>1, <1>2, PTL DEF Spec

\* CCoinsViewDB never holds a pruned entry, and the best block of the
\* database is always known (TypeOK of the caches).
THEOREM CacheTypeCorrect == Spec => []TypeOK
<1>1. CacheInv => TypeOK
  BY DEF CacheInv
<1> QED
  BY <1>1, CacheCorrect, PTL

\* An entry that is FRESH is absent or pruned in the view below.
THEOREM FreshCorrect == Spec => []FreshIsAbsent
<1>1. CacheInv => FreshIsAbsent
  BY DEF CacheInv, Sound, FreshIsAbsent
<1> QED
  BY <1>1, CacheCorrect, PTL

\* An entry that is not DIRTY repeats the view below.
THEOREM CleanCorrect == Spec => []CleanRepeatsBase
<1>1. CacheInv => CleanRepeatsBase
  BY DEF CacheInv, Sound, CleanRepeatsBase
<1> QED
  BY <1>1, CacheCorrect, PTL

\* The assertion in CCoinsViewCache::BatchWrite never fails.
THEOREM AssertNeverFails == Spec => []BatchWriteAsserts
<1>1. CacheInv => BatchWriteAsserts
  BY DEF CacheInv, Anchored, BatchWriteAsserts, Dirty
<1> QED
  BY <1>1, CacheCorrect, PTL

\* The hierarchy of caches implements the plain store.
THEOREM CachesTransparent == Spec => Transparent
<1>1. Init => Store!Init
  BY InitKeeps DEF Init, Store!Init, TipBest, ViewBest
<1>2. CacheInv /\ [Next]_cacheVars => [Store!Next]_(Store!vars)
  BY StepRefines
<1> QED
  BY <1>1, <1>2, CacheCorrect, PTL DEF Spec, Transparent, Store!Spec
=============================================================================
