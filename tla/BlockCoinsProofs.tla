--------------------------- MODULE BlockCoinsProofs ---------------------------
(***************************************************************************)
(* Blocks applied to the coins and taken back, for every chain: the coins  *)
(* of pcoinsTip and of the database are those of the chain up to their     *)
(* best blocks.                                                            *)
(***************************************************************************)
EXTENDS BlockCoins, CoinsCacheProofs

Heights == 1..Len(Work)
Creates(k, i, t) == Work[k][i] = [tx |-> t, n |-> NULL]

\* Entry j of block k is among the first i entries of block h, or of a block
\* below it.
UpTo(k, j, h, i) == k < h \/ (k = h /\ j <= i)

\* The coins when the blocks below h and the first i entries of h are applied.
CreatedTo(t, h, i) == {k \in 1..h : \E j \in DOMAIN Work[k] : UpTo(k, j, h, i) /\ Creates(k, j, t)}
SpentTo(t, h, i) == {n \in Vout[t] : \E k \in 1..h : \E j \in DOMAIN Work[k] :
                                        UpTo(k, j, h, i) /\ Work[k][j] = [tx |-> t, n |-> n]}
Left(t, h, i) == {n \in Vout[t] : CreatedTo(t, h, i) # {} /\ n \notin SpentTo(t, h, i)}
CoinTo(t, h, i) ==
    IF CreatedTo(t, h, i) = {} THEN Pruned
    ELSE Cleanup(Coin(Vout[t] \ SpentTo(t, h, i), t \in CoinBases, t \in CoinStakes,
                      CHOOSE k \in CreatedTo(t, h, i) : TRUE))

\* Equal but for the mark of a coinstake.
Same(c, d) == c.vout = d.vout /\ c.fCoinBase = d.fCoinBase /\ c.nHeight = d.nHeight

AllSame(coins, h, i) == \A t \in Txids : Same(coins[t], CoinTo(t, h, i))
AllSameAt(coins, h) == \A t \in Txids : Same(coins[t], CoinsAt(h)[t])

\* The undo record u is that of entry i of block h.
UndoMatches(u, h, i) ==
    LET m == Work[h][i] IN
    m.n # NULL =>
        IF SpentTo(m.tx, h, i) = Vout[m.tx]
        THEN /\ u.nHeight \in CreatedTo(m.tx, h, i)
             /\ u.fCoinBase = (m.tx \in CoinBases)
        ELSE u.nHeight = 0

UndoComplete(file, h) == \A i \in DOMAIN Work[h] : UndoMatches(file[h][i], h, i)

Undos == [fCoinBase : BOOLEAN, fCoinStake : BOOLEAN, nHeight : Blocks]
Kinds == {"idle", "connect", "connected", "disconnect", "disconnected", "flush"}

Jobs == [kind : Kinds, h : Blocks, i : Nat, verify : BOOLEAN]

JobOK ==
    /\ job \in Jobs
    /\ job.kind \in {"idle", "flush"} <=> ~open
    /\ ~open => ~job.verify
    /\ open => job.h \in Heights
    /\ job.kind = "connect" => job.i \in 1..(Len(Work[job.h]) + 1)
    /\ job.kind = "disconnect" => job.i \in 0..Len(Work[job.h])
    /\ job.kind = "connected" => viewBest = job.h
    /\ job.kind = "disconnected" => viewBest = job.h - 1
    /\ job.kind \in {"connect", "connected"} => job.h <= TipBest + 1
    /\ job.kind \in {"disconnect", "disconnected"} \/ job.verify => job.h <= TipBest

\* What the view shows is the chain up to where the job is.
ViewExact ==
    /\ job.kind = "connect" => AllSame(ViewCoins, job.h, job.i - 1)
    /\ job.kind = "connected" => AllSame(ViewCoins, job.h, Len(Work[job.h]))
    /\ job.kind = "disconnect" => AllSame(ViewCoins, job.h, job.i)
    /\ job.kind = "disconnected" => AllSame(ViewCoins, job.h, 0)

\* Every block that may be disconnected has its undo data.
UndoInv ==
    /\ undoFile \in [Blocks -> Seq(Undos)]
    /\ blockundo \in Seq(Undos)
    /\ \A h \in Heights : undoFile[h] = <<>> \/ UndoComplete(undoFile, h)
    /\ \A h \in Heights : h <= TipBest \/ h <= dbBest => UndoComplete(undoFile, h)
    /\ job.kind = "connected" => UndoComplete(undoFile, job.h)
    /\ job.kind = "connect" =>
          /\ Len(blockundo) = job.i - 1
          /\ \A j \in 1..(job.i - 1) : UndoMatches(blockundo[j], job.h, j)

BlocksInv ==
    /\ CacheInv
    /\ JobOK
    /\ AllSameAt(TipCoins, TipBest)
    /\ AllSameAt(DbCoins, dbBest)
    /\ ViewExact
    /\ UndoInv

-----------------------------------------------------------------------------
(* Coins as records. *)

LEMMA CoinFields ==
    ASSUME NEW v, NEW base, NEW stake, NEW h
    PROVE  LET c == Coin(v, base, stake, h) IN
           /\ c.vout = v /\ c.fCoinBase = base /\ c.fCoinStake = stake /\ c.nHeight = h
           /\ \A s : [c EXCEPT !.vout = @ \ s] = Coin(v \ s, base, stake, h)
BY DEF Coin

LEMMA CoinStakeChange ==
    ASSUME NEW v, NEW base, NEW stake, NEW h, NEW mark
    PROVE  [Coin(v, base, stake, h) EXCEPT !.fCoinStake = mark] = Coin(v, base, mark, h)
BY DEF Coin

LEMMA CoinType ==
    ASSUME NEW v \in SUBSET Outputs, NEW base \in BOOLEAN, NEW stake \in BOOLEAN, NEW h \in Blocks
    PROVE  /\ Cleanup(Coin(v, base, stake, h)) \in Coins
           /\ v # {} => Coin(v, base, stake, h) \in Coins
<1> DEFINE c == Coin(v, base, stake, h)
<1>1. c \in [vout : SUBSET Outputs, fCoinBase : BOOLEAN, fCoinStake : BOOLEAN, nHeight : Blocks]
  BY DEF Coin
<1>2. c.vout = v
  BY CoinFields
<1> HIDE DEF c
<1> QED
  BY <1>1, <1>2, CoinAssumption, CoinsAssumption DEF Cleanup, c

LEMMA CoinsFields ==
    ASSUME NEW c \in Coins
    PROVE  /\ c.vout \in SUBSET Outputs /\ c.fCoinBase \in BOOLEAN
           /\ c.fCoinStake \in BOOLEAN /\ c.nHeight \in Blocks
           /\ c.vout = {} => c = Pruned
           /\ c = Coin(c.vout, c.fCoinBase, c.fCoinStake, c.nHeight)
BY CoinAssumption DEF Coin

LEMMA PrunedFields == Pruned.vout = {} /\ Pruned.fCoinBase = FALSE /\ Pruned.nHeight = 0
BY CoinAssumption DEF Coin

\* An output leaves, or comes back.
LEMMA VoutChange ==
    ASSUME NEW c \in Coins, NEW v \in SUBSET Outputs
    PROVE  LET d == [c EXCEPT !.vout = v] IN
           /\ d = Coin(v, c.fCoinBase, c.fCoinStake, c.nHeight)
           /\ Cleanup(d) \in Coins /\ Cleanup(d).vout = v
           /\ v # {} => /\ Cleanup(d) = d /\ d \in Coins /\ d.nHeight = c.nHeight
                       /\ d.fCoinBase = c.fCoinBase
<1> DEFINE d == [c EXCEPT !.vout = v]
           b == c.fCoinBase
           s == c.fCoinStake
           k == c.nHeight
<1>1. b \in BOOLEAN /\ s \in BOOLEAN /\ k \in Blocks
  BY CoinsFields
<1>2. d = Coin(v, b, s, k)
  BY CoinAssumption DEF Coin
<1>3. d.vout = v /\ d.nHeight = k /\ d.fCoinBase = b
  BY <1>2, CoinFields
<1>4. Cleanup(d) \in Coins /\ (v # {} => d \in Coins)
  BY <1>1, <1>2, CoinType
<1>5. Cleanup(d) = (IF v = {} THEN Pruned ELSE d)
  BY <1>3 DEF Cleanup
<1> QED
  BY <1>2, <1>3, <1>4, <1>5, PrunedFields

\* Coins that are the same are restored to the same.
LEMMA SameRestored ==
    ASSUME NEW c \in Coins, NEW d \in Coins, Same(c, d), NEW mark
    PROVE  [c EXCEPT !.fCoinStake = mark] = [d EXCEPT !.fCoinStake = mark]
<1>1. \A e \in Coins : [e EXCEPT !.fCoinStake = mark] = Coin(e.vout, e.fCoinBase, mark, e.nHeight)
  BY CoinAssumption DEF Coin
<1>2. c.vout = d.vout /\ c.fCoinBase = d.fCoinBase /\ c.nHeight = d.nHeight
  BY DEF Same
<1> QED
  BY <1>1, <1>2

LEMMA AllRestored ==
    ASSUME NEW f \in [Txids -> Coins], NEW g \in [Txids -> Coins],
           \A t \in Txids : Same(f[t], g[t])
    PROVE  Restored(f) = Restored(g)
<1> DEFINE mark == FALSE
<1> HIDE DEF mark
<1>1. \A t \in Txids : [f[t] EXCEPT !.fCoinStake = mark] = [g[t] EXCEPT !.fCoinStake = mark]
  <2> TAKE t \in Txids
  <2>1. f[t] \in Coins /\ g[t] \in Coins /\ Same(f[t], g[t])
    OBVIOUS
  <2> QED
    BY <2>1, SameRestored, Zenon
<1>2. [t \in Txids |-> [f[t] EXCEPT !.fCoinStake = mark]] = [t \in Txids |-> [g[t] EXCEPT !.fCoinStake = mark]]
  BY <1>1
<1> QED
  BY <1>2 DEF mark, Restored

-----------------------------------------------------------------------------
(* The coins of a chain, entry by entry. *)

LEMMA WorkType ==
    ASSUME NEW h \in Heights
    PROVE  /\ h \in Nat /\ Len(Work) \in Nat /\ Len(Work[h]) \in Nat
           /\ DOMAIN Work[h] = 1..Len(Work[h])
           /\ \A i \in DOMAIN Work[h] : /\ Work[h][i].tx \in Txids
                                        /\ Work[h][i].n \in Outputs \cup {NULL}
                                        /\ Work[h][i] = [tx |-> Work[h][i].tx, n |-> Work[h][i].n]
<1>1. Work[h] \in Seq([tx : Txids, n : Outputs \cup {NULL}]) /\ Len(Work) \in Nat
  BY WorkAssumption DEF Heights
<1>2. Len(Work[h]) \in Nat /\ DOMAIN Work[h] = 1..Len(Work[h])
  BY <1>1
<1>3. \A i \in DOMAIN Work[h] : Work[h][i] \in [tx : Txids, n : Outputs \cup {NULL}]
  <2> DEFINE M == [tx : Txids, n : Outputs \cup {NULL}]
             w == Work[h]
  <2>1. w \in Seq(M)
    BY <1>1
  <2> HIDE DEF M, w
  <2>2. \A i \in DOMAIN w : w[i] \in M
    BY <2>1
  <2> QED
    BY <2>2 DEF M, w
<1> QED
  BY <1>1, <1>2, <1>3 DEF Heights

\* What WorkAssumption says of two entries.
LEMMA WorkOrder ==
    /\ \A k, l \in Heights : \A i \in DOMAIN Work[k], j \in DOMAIN Work[l] :
          Work[k][i] = Work[l][j] => k = l /\ i = j
    /\ \A k \in Heights : \A i \in DOMAIN Work[k] :
          Work[k][i].n # NULL =>
             /\ Work[k][i].n \in Vout[Work[k][i].tx]
             /\ \E l \in 1..k : \E j \in DOMAIN Work[l] :
                   Creates(l, j, Work[k][i].tx) /\ (l < k \/ j < i)
BY WorkAssumption DEF Heights, Creates

LEMMA CreatedOnce ==
    ASSUME NEW t, NEW h \in Heights, NEW i \in Nat,
           NEW k \in CreatedTo(t, h, i), NEW l \in CreatedTo(t, h, i)
    PROVE  k = l /\ k \in Heights /\ k \in Blocks /\ k # 0
<1>1. k \in Heights /\ l \in Heights
  BY WorkType DEF CreatedTo, Heights
<1>2. PICK a \in DOMAIN Work[k] : Creates(k, a, t)
  BY DEF CreatedTo
<1>3. PICK b \in DOMAIN Work[l] : Creates(l, b, t)
  BY DEF CreatedTo
<1>4. k = l
  BY <1>1, <1>2, <1>3, WorkOrder DEF Creates
<1> QED
  BY <1>1, <1>4, WorkAssumption DEF Heights

\* Entry i of block h changes the coins of its transaction only.
LEMMA EntryOther ==
    ASSUME NEW h \in Heights, NEW i \in DOMAIN Work[h], NEW t, t # Work[h][i].tx
    PROVE  /\ CreatedTo(t, h, i) = CreatedTo(t, h, i - 1)
           /\ SpentTo(t, h, i) = SpentTo(t, h, i - 1)
<1>1. i \in Nat /\ h \in Nat
  BY WorkType
<1>2. \A n : Work[h][i] # [tx |-> t, n |-> n]
  OBVIOUS
<1>3. \A k \in 1..h : \A j \in DOMAIN Work[k] : j \in Nat
  BY WorkType DEF Heights
<1>4. \A k \in 1..h : \A j \in DOMAIN Work[k] :
         UpTo(k, j, h, i) <=> UpTo(k, j, h, i - 1) \/ (k = h /\ j = i)
  BY <1>1, <1>3 DEF UpTo
<1>5. CreatedTo(t, h, i) = CreatedTo(t, h, i - 1)
  BY <1>2, <1>4 DEF CreatedTo, Creates
<1>6. SpentTo(t, h, i) = SpentTo(t, h, i - 1)
  BY <1>2, <1>4 DEF SpentTo
<1> QED
  BY <1>5, <1>6

\* An entry that creates a transaction.
LEMMA EntryCreates ==
    ASSUME NEW h \in Heights, NEW i \in DOMAIN Work[h], Work[h][i].n = NULL
    PROVE  LET t == Work[h][i].tx IN
           /\ CreatedTo(t, h, i - 1) = {}
           /\ CreatedTo(t, h, i) = {h}
           /\ SpentTo(t, h, i) = {}
<1> DEFINE t == Work[h][i].tx
<1>1. i \in Nat /\ h \in Nat /\ Creates(h, i, t)
  BY WorkType DEF Creates
<1>2. \A k \in 1..h : k \in Heights /\ k \in Nat /\ \A j \in DOMAIN Work[k] : j \in Nat
  BY WorkType DEF Heights
<1>3. \A k \in Heights : \A j \in DOMAIN Work[k] : Creates(k, j, t) => k = h /\ j = i
  BY <1>1, WorkOrder DEF Creates
<1>4. CreatedTo(t, h, i - 1) = {}
  BY <1>1, <1>2, <1>3 DEF CreatedTo, UpTo
<1>5. CreatedTo(t, h, i) = {h}
  <2>1. h \in 1..h /\ UpTo(h, i, h, i)
    BY <1>1 DEF Heights, UpTo
  <2>2. h \in CreatedTo(t, h, i)
    BY <1>1, <2>1 DEF CreatedTo
  <2>3. \A k \in CreatedTo(t, h, i) : k = h
    BY <1>2, <1>3 DEF CreatedTo
  <2> QED
    BY <2>2, <2>3
<1>6. ASSUME NEW n \in SpentTo(t, h, i) PROVE FALSE
  <2>0. PICK k \in 1..h : \E j \in DOMAIN Work[k] :
           UpTo(k, j, h, i) /\ Work[k][j] = [tx |-> t, n |-> n] /\ n \in Vout[t]
    BY DEF SpentTo
  <2>1. PICK j \in DOMAIN Work[k] :
           UpTo(k, j, h, i) /\ Work[k][j] = [tx |-> t, n |-> n] /\ n \in Vout[t]
    BY <2>0
  <2>2. t \in Txids
    BY WorkType
  <2>3. n # NULL /\ Work[k][j].tx = t /\ Work[k][j].n = n
    BY <2>1, <2>2, WorkAssumption DEF Outputs
  <2>4. PICK l \in 1..k : \E a \in DOMAIN Work[l] : Creates(l, a, t) /\ (l < k \/ a < j)
    BY <1>2, <2>3, WorkOrder
  <2>5. l = h /\ l \in Nat /\ k \in Nat /\ (l < k \/ i < j) /\ l \in Heights
    BY <1>2, <1>3, <2>4 DEF Heights
  <2> QED
    BY <1>1, <1>2, <2>1, <2>5 DEF UpTo
<1> QED
  BY <1>4, <1>5, <1>6

\* An entry that spends an output.
LEMMA EntrySpends ==
    ASSUME NEW h \in Heights, NEW i \in DOMAIN Work[h], Work[h][i].n # NULL
    PROVE  LET t == Work[h][i].tx
               n == Work[h][i].n IN
           /\ CreatedTo(t, h, i) = CreatedTo(t, h, i - 1) /\ CreatedTo(t, h, i) # {}
           /\ SpentTo(t, h, i) = SpentTo(t, h, i - 1) \cup {n}
           /\ n \notin SpentTo(t, h, i - 1)
           /\ n \in Vout[t]
<1> DEFINE t == Work[h][i].tx
           n == Work[h][i].n
<1>1. i \in Nat /\ h \in Nat /\ h \in 1..h /\ Work[h][i] = [tx |-> t, n |-> n]
  BY WorkType DEF Heights
<1>2. \A k \in 1..h : k \in Heights /\ k \in Nat /\ \A j \in DOMAIN Work[k] : j \in Nat
  BY WorkType DEF Heights
<1>3. \A k \in 1..h : \A j \in DOMAIN Work[k] :
         UpTo(k, j, h, i) <=> UpTo(k, j, h, i - 1) \/ (k = h /\ j = i)
  BY <1>1, <1>2 DEF UpTo
<1>4. n \in Vout[t] /\ \E l \in 1..h : \E j \in DOMAIN Work[l] :
                         Creates(l, j, t) /\ (l < h \/ j < i)
  BY WorkOrder
<1>5. ~Creates(h, i, t)
  BY DEF Creates
<1>6. CreatedTo(t, h, i) = CreatedTo(t, h, i - 1)
  BY <1>3, <1>5 DEF CreatedTo
<1>7. CreatedTo(t, h, i) # {}
  BY <1>1, <1>2, <1>4 DEF CreatedTo, UpTo
<1>8. n \notin SpentTo(t, h, i - 1)
  <2>1. \A k \in 1..h : \A j \in DOMAIN Work[k] :
           UpTo(k, j, h, i - 1) => ~(k = h /\ j = i)
    BY <1>1, <1>2 DEF UpTo
  <2> QED
    BY <1>1, <1>2, <2>1, WorkOrder DEF SpentTo
<1>9. UpTo(h, i, h, i)
  BY <1>1 DEF UpTo
<1>10. SpentTo(t, h, i) = SpentTo(t, h, i - 1) \cup {n}
  <2>1. ASSUME NEW x \in SpentTo(t, h, i), x # n PROVE x \in SpentTo(t, h, i - 1)
    <3>0. PICK k \in 1..h : \E j \in DOMAIN Work[k] :
             UpTo(k, j, h, i) /\ Work[k][j] = [tx |-> t, n |-> x] /\ x \in Vout[t]
      BY <2>1 DEF SpentTo
    <3>1. PICK j \in DOMAIN Work[k] :
             UpTo(k, j, h, i) /\ Work[k][j] = [tx |-> t, n |-> x] /\ x \in Vout[t]
      BY <3>0
    <3>2. ~(k = h /\ j = i)
      BY <1>1, <2>1, <3>1
    <3> QED
      BY <1>3, <3>1, <3>2 DEF SpentTo
  <2>2. ASSUME NEW x \in SpentTo(t, h, i - 1) PROVE x \in SpentTo(t, h, i)
    BY <1>3 DEF SpentTo
  <2>3. n \in SpentTo(t, h, i)
    BY <1>1, <1>4, <1>9 DEF SpentTo
  <2> QED
    BY <2>1, <2>2, <2>3
<1> QED
  BY <1>4, <1>6, <1>7, <1>8, <1>10

\* CoinTo is a coin, and what it is to be the same as it.
LEMMA CoinToFacts ==
    ASSUME NEW t \in Txids, NEW h \in Heights, NEW i \in Nat
    PROVE  /\ CoinTo(t, h, i) \in Coins
           /\ CoinTo(t, h, i).vout = Left(t, h, i)
           /\ Left(t, h, i) # {} =>
                 /\ CoinTo(t, h, i).fCoinBase = (t \in CoinBases)
                 /\ CoinTo(t, h, i).nHeight \in CreatedTo(t, h, i)
<1>1. CASE CreatedTo(t, h, i) = {}
  BY <1>1, CoinsAssumption, PrunedFields DEF CoinTo, Left
<1>2. CASE CreatedTo(t, h, i) # {}
  <2> DEFINE k == CHOOSE x \in CreatedTo(t, h, i) : TRUE
             v == Vout[t] \ SpentTo(t, h, i)
             base == t \in CoinBases
             stake == t \in CoinStakes
  <2>1. k \in CreatedTo(t, h, i)
    BY <1>2
  <2>2. k \in Blocks
    BY <2>1, CreatedOnce
  <2>3. v \in SUBSET Outputs /\ v = Left(t, h, i)
    BY <1>2 DEF Outputs, Left
  <2>4. base \in BOOLEAN /\ stake \in BOOLEAN
    OBVIOUS
  <2>5. CoinTo(t, h, i) = Cleanup(Coin(v, base, stake, k))
    BY <1>2 DEF CoinTo
  <2>6. (base <=> t \in CoinBases) /\ base = (t \in CoinBases)
    OBVIOUS
  <2> HIDE DEF k, v, base, stake
  <2>7. CoinTo(t, h, i) \in Coins
    BY <2>2, <2>3, <2>4, <2>5, CoinType
  <2>8. CoinTo(t, h, i).vout = v /\
        (v # {} => CoinTo(t, h, i).fCoinBase = base /\ CoinTo(t, h, i).nHeight = k)
    <3>1. CASE v = {}
      BY <2>5, <3>1, CoinFields, PrunedFields DEF Cleanup
    <3>2. CASE v # {}
      BY <2>5, <3>2, CoinFields DEF Cleanup
    <3> QED
      BY <3>1, <3>2
  <2> QED
    BY <2>1, <2>3, <2>6, <2>7, <2>8
<1> QED
  BY <1>1, <1>2

LEMMA SameIff ==
    ASSUME NEW t \in Txids, NEW h \in Heights, NEW i \in Nat, NEW c \in Coins
    PROVE  Same(c, CoinTo(t, h, i)) <=>
              /\ c.vout = Left(t, h, i)
              /\ c.vout # {} => /\ c.fCoinBase = (t \in CoinBases)
                               /\ c.nHeight \in CreatedTo(t, h, i)
<1> DEFINE d == CoinTo(t, h, i)
           base == t \in CoinBases
<1>1. /\ d \in Coins /\ d.vout = Left(t, h, i)
      /\ Left(t, h, i) # {} => d.fCoinBase = base /\ d.nHeight \in CreatedTo(t, h, i)
  BY CoinToFacts
<1> HIDE DEF d, base
<1>2. CASE c.vout = {} /\ d.vout = {}
  <2>1. c = Pruned /\ d = Pruned
    BY <1>1, <1>2, CoinsFields
  <2>2. Same(c, d)
    BY <2>1 DEF Same
  <2> QED
    BY <1>1, <1>2, <2>2 DEF d
<1>3. CASE c.vout # d.vout
  BY <1>1, <1>3 DEF Same, d
<1>4. CASE c.vout # {} /\ c.vout = d.vout
  <2>1. Same(c, d) <=> c.fCoinBase = d.fCoinBase /\ c.nHeight = d.nHeight
    BY <1>4 DEF Same
  <2>2. d.fCoinBase = base
    BY <1>1, <1>4
  <2>3. c.nHeight = d.nHeight <=> c.nHeight \in CreatedTo(t, h, i)
    BY <1>1, <1>4, CreatedOnce
  <2>4. Same(c, d) <=> c.fCoinBase = base /\ c.nHeight \in CreatedTo(t, h, i)
    BY <2>1, <2>2, <2>3
  <2> QED
    BY <1>1, <1>4, <2>4 DEF d, base
<1> QED
  BY <1>2, <1>3, <1>4

LEMMA FromTxSpent ==
    ASSUME NEW t, NEW k, NEW s
    PROVE  [FromTx(t, k) EXCEPT !.vout = @ \ s] =
           Coin(Vout[t] \ s, t \in CoinBases, t \in CoinStakes, k)
<1> DEFINE v == Vout[t]
           base == t \in CoinBases
           stake == t \in CoinStakes
<1> HIDE DEF v, base, stake
<1>1. [Coin(v, base, stake, k) EXCEPT !.vout = @ \ s] = Coin(v \ s, base, stake, k)
  BY DEF Coin
<1> QED
  BY <1>1 DEF FromTx, v, base, stake

LEMMA CoinsAtAs ==
    ASSUME NEW t \in Txids, NEW g, NEW h, NEW i,
           Created(t, g) = CreatedTo(t, h, i), Spent(t, g) = SpentTo(t, h, i)
    PROVE  CoinsAt(g)[t] = CoinTo(t, h, i)
<1> DEFINE made == CreatedTo(t, h, i)
           k == CHOOSE x \in made : TRUE
           s == SpentTo(t, h, i)
<1>1. CoinsAt(g)[t] = IF made = {} THEN Pruned ELSE Cleanup([FromTx(t, k) EXCEPT !.vout = @ \ s])
  BY DEF CoinsAt
<1>2. CoinTo(t, h, i) =
      IF made = {} THEN Pruned
      ELSE Cleanup(Coin(Vout[t] \ s, t \in CoinBases, t \in CoinStakes, k))
  BY DEF CoinTo
<1> HIDE DEF made, k, s
<1> QED
  BY <1>1, <1>2, FromTxSpent, Zenon

\* The first h blocks are all of block h, or nothing of the next.
LEMMA BlockEnd ==
    ASSUME NEW t \in Txids, NEW h \in Heights
    PROVE  CoinsAt(h)[t] = CoinTo(t, h, Len(Work[h]))
<1>1. \A k \in 1..h : \A j \in DOMAIN Work[k] : UpTo(k, j, h, Len(Work[h]))
  BY WorkType DEF UpTo, Heights
<1>2. Created(t, h) = CreatedTo(t, h, Len(Work[h]))
  BY <1>1 DEF Created, CreatedTo, Creates
<1>3. Spent(t, h) = SpentTo(t, h, Len(Work[h]))
  BY <1>1 DEF Spent, SpentTo
<1> QED
  BY <1>2, <1>3, CoinsAtAs

LEMMA BlockStart ==
    ASSUME NEW t \in Txids, NEW h \in Heights
    PROVE  CoinsAt(h - 1)[t] = CoinTo(t, h, 0)
<1>1. \A k \in 1..h : \A j \in DOMAIN Work[k] : UpTo(k, j, h, 0) <=> k \in 1..(h - 1)
  BY WorkType DEF UpTo, Heights
<1>2. 1..(h - 1) \subseteq 1..h
  BY WorkType
<1>3. Created(t, h - 1) = CreatedTo(t, h, 0)
  BY <1>1, <1>2 DEF Created, CreatedTo, Creates
<1>4. Spent(t, h - 1) = SpentTo(t, h, 0)
  BY <1>1, <1>2 DEF Spent, SpentTo
<1> QED
  BY <1>3, <1>4, CoinsAtAs

LEMMA Boundaries ==
    ASSUME NEW coins, NEW h \in Heights
    PROVE  /\ AllSameAt(coins, h) <=> AllSame(coins, h, Len(Work[h]))
           /\ AllSameAt(coins, h - 1) <=> AllSame(coins, h, 0)
BY BlockEnd, BlockStart DEF AllSameAt, AllSame

\* CoinsAt gives coins, and none for the genesis block.
LEMMA CoinsAtType ==
    ASSUME NEW h \in Blocks
    PROVE  CoinsAt(h) \in [Txids -> Coins] /\ CoinsAt(0) = [t \in Txids |-> Pruned]
<1>1. CoinsAt(0) = [t \in Txids |-> Pruned]
  BY DEF CoinsAt, Created
<1>2. CASE h = 0
  BY <1>1, <1>2, CoinsAssumption
<1>3. CASE h # 0
  <2>1. h \in Heights
    BY <1>3, WorkAssumption DEF Heights
  <2>2. \A t \in Txids : CoinsAt(h)[t] \in Coins
    <3>1. Len(Work[h]) \in Nat
      BY <2>1, WorkType
    <3> QED
      BY <2>1, <3>1, BlockEnd, CoinToFacts
  <2> QED
    BY <1>1, <2>2 DEF CoinsAt
<1> QED
  BY <1>2, <1>3

-----------------------------------------------------------------------------
(* One entry applied, or taken back. *)

LEMMA EntryType ==
    ASSUME NEW h \in Heights, NEW i \in DOMAIN Work[h]
    PROVE  Work[h][i].tx \in Txids /\ i \in Nat /\ i - 1 \in Nat
<1>1. Work[h][i].tx \in Txids /\ i \in 1..Len(Work[h]) /\ Len(Work[h]) \in Nat
  BY WorkType
<1> QED
  BY <1>1

LEMMA LeftCreates ==
    ASSUME NEW h \in Heights, NEW i \in DOMAIN Work[h], Work[h][i].n = NULL
    PROVE  LET t == Work[h][i].tx IN
           /\ Left(t, h, i - 1) = {}
           /\ Left(t, h, i) = Vout[t]
           /\ h \in CreatedTo(t, h, i)
BY EntryCreates DEF Left

LEMMA LeftSpends ==
    ASSUME NEW h \in Heights, NEW i \in DOMAIN Work[h], Work[h][i].n # NULL
    PROVE  LET t == Work[h][i].tx
               n == Work[h][i].n IN
           /\ n \in Left(t, h, i - 1)
           /\ Left(t, h, i) = Left(t, h, i - 1) \ {n}
           /\ Left(t, h, i - 1) = Left(t, h, i) \cup {n}
           /\ Left(t, h, i) = {} => SpentTo(t, h, i) = Vout[t]
           /\ SpentTo(t, h, i) = Vout[t] => Left(t, h, i) = {}
           /\ CreatedTo(t, h, i) = CreatedTo(t, h, i - 1)
<1> DEFINE t == Work[h][i].tx
           n == Work[h][i].n
<1>1. /\ CreatedTo(t, h, i) = CreatedTo(t, h, i - 1) /\ CreatedTo(t, h, i) # {}
      /\ SpentTo(t, h, i) = SpentTo(t, h, i - 1) \cup {n}
      /\ n \notin SpentTo(t, h, i - 1)
      /\ n \in Vout[t]
  BY EntrySpends
<1>2. SpentTo(t, h, i) \subseteq Vout[t]
  BY DEF SpentTo
<1> QED
  BY <1>1, <1>2 DEF Left

LEMMA CreateEntry ==
    ASSUME NEW h \in Heights, NEW i \in DOMAIN Work[h], Work[h][i].n = NULL
    PROVE  LET t == Work[h][i].tx
               c == Cleanup(FromTx(t, h)) IN
           /\ c \in Coins
           /\ Same(c, CoinTo(t, h, i))
           /\ Same(Pruned, CoinTo(t, h, i - 1))
<1> DEFINE t == Work[h][i].tx
           v == Vout[t]
           base == t \in CoinBases
           stake == t \in CoinStakes
           c == Cleanup(FromTx(t, h))
<1>1. /\ t \in Txids /\ i \in Nat /\ i - 1 \in Nat
      /\ Left(t, h, i - 1) = {} /\ Left(t, h, i) = v /\ h \in CreatedTo(t, h, i)
  BY EntryType, LeftCreates
<1>2. v \in SUBSET Outputs /\ h \in Blocks /\ base \in BOOLEAN /\ stake \in BOOLEAN
  BY <1>1, WorkAssumption DEF Outputs, Heights
<1>3. c = Cleanup(Coin(v, base, stake, h))
  BY DEF FromTx
<1>4. c \in Coins /\ c.vout = v /\ (v # {} => c.fCoinBase = base /\ c.nHeight = h)
  <2> HIDE DEF v, base, stake, c
  <2>1. c \in Coins
    BY <1>2, <1>3, CoinType
  <2>2. CASE v = {}
    BY <1>3, <2>1, <2>2, CoinFields, PrunedFields DEF Cleanup
  <2>3. CASE v # {}
    BY <1>3, <2>1, <2>3, CoinFields DEF Cleanup
  <2> QED
    BY <2>1, <2>2, <2>3
<1>5. Same(c, CoinTo(t, h, i))
  <2> HIDE DEF c
  <2> QED
    BY <1>1, <1>4, SameIff
<1>6. Same(Pruned, CoinTo(t, h, i - 1))
  BY <1>1, CoinsAssumption, PrunedFields, SameIff
<1> QED
  BY <1>4, <1>5, <1>6

LEMMA SpendEntry ==
    ASSUME NEW h \in Heights, NEW i \in DOMAIN Work[h], Work[h][i].n # NULL,
           NEW c \in Coins, Same(c, CoinTo(Work[h][i].tx, h, i - 1))
    PROVE  LET n == Work[h][i].n
               d == Cleanup([c EXCEPT !.vout = @ \ {n}]) IN
           /\ d \in Coins
           /\ Same(d, CoinTo(Work[h][i].tx, h, i))
           /\ SpendUndo(c, n) \in Undos
           /\ UndoMatches(SpendUndo(c, n), h, i)
<1> DEFINE t == Work[h][i].tx
           n == Work[h][i].n
           v == c.vout \ {n}
           d == Cleanup([c EXCEPT !.vout = v])
           base == t \in CoinBases
           u == SpendUndo(c, n)
<1>0. t \in Txids /\ i \in Nat /\ i - 1 \in Nat
  BY EntryType
<1>1. /\ n \in Left(t, h, i - 1) /\ Left(t, h, i) = Left(t, h, i - 1) \ {n}
      /\ Left(t, h, i) = {} => SpentTo(t, h, i) = Vout[t]
      /\ SpentTo(t, h, i) = Vout[t] => Left(t, h, i) = {}
      /\ CreatedTo(t, h, i) = CreatedTo(t, h, i - 1)
  BY LeftSpends
<1>2. /\ c.vout = Left(t, h, i - 1)
      /\ c.vout # {} => c.fCoinBase = base /\ c.nHeight \in CreatedTo(t, h, i - 1)
  BY <1>0, <1>1, SameIff
<1>3. /\ c.fCoinBase = base /\ c.nHeight \in CreatedTo(t, h, i) /\ v = Left(t, h, i)
  BY <1>0, <1>1, <1>2
<1>4. v \in SUBSET Outputs
  BY CoinsFields
<1>5. /\ d \in Coins /\ d.vout = v
      /\ v # {} => d.nHeight = c.nHeight /\ d.fCoinBase = c.fCoinBase
  <2> DEFINE e == [c EXCEPT !.vout = v]
  <2> HIDE DEF v
  <2>1. /\ Cleanup(e) \in Coins /\ Cleanup(e).vout = v
        /\ v # {} => Cleanup(e) = e /\ e.nHeight = c.nHeight /\ e.fCoinBase = c.fCoinBase
    BY <1>4, VoutChange
  <2> HIDE DEF e
  <2> QED
    BY <2>1 DEF e
<1>6. Same(d, CoinTo(t, h, i))
  <2> HIDE DEF d
  <2>1. v # {} => d.fCoinBase = base
    BY <1>3, <1>5
  <2> QED
    BY <1>0, <1>1, <1>3, <1>5, <2>1, SameIff
<1>7. u \in Undos
  <2>1. c.fCoinBase \in BOOLEAN /\ c.fCoinStake \in BOOLEAN /\ c.nHeight \in Blocks
    BY CoinsFields
  <2>2. NoMeta \in Undos
    BY WorkAssumption, CoinsAssumption DEF NoMeta, Undos
  <2> QED
    BY <2>1, <2>2 DEF SpendUndo, Undos
<1>8. IF v = {} THEN u.nHeight = c.nHeight /\ u.fCoinBase = c.fCoinBase
                ELSE u.nHeight = 0
  BY DEF SpendUndo, NoMeta
<1>9. IF SpentTo(t, h, i) = Vout[t]
      THEN u.nHeight \in CreatedTo(t, h, i) /\ u.fCoinBase = base
      ELSE u.nHeight = 0
  <2> HIDE DEF u, v, base
  <2> QED
    BY <1>0, <1>1, <1>3, <1>8
<1>10. UndoMatches(u, h, i)
  BY <1>9 DEF UndoMatches
<1> QED
  BY <1>5, <1>6, <1>7, <1>10

LEMMA UnspendEntry ==
    ASSUME NEW h \in Heights, NEW i \in DOMAIN Work[h], Work[h][i].n # NULL,
           NEW c \in Coins, Same(c, CoinTo(Work[h][i].tx, h, i)),
           NEW u, UndoMatches(u, h, i)
    PROVE  LET d == Restore(c, Work[h][i].n, u) IN
           d \in Coins /\ Same(d, CoinTo(Work[h][i].tx, h, i - 1))
<1> DEFINE t == Work[h][i].tx
           n == Work[h][i].n
           base == t \in CoinBases
           d == Restore(c, n, u)
<1>0. t \in Txids /\ i \in Nat /\ i - 1 \in Nat
  BY EntryType
<1>1. /\ n \in Left(t, h, i - 1) /\ Left(t, h, i - 1) = Left(t, h, i) \cup {n}
      /\ Left(t, h, i) = {} => SpentTo(t, h, i) = Vout[t]
      /\ SpentTo(t, h, i) = Vout[t] => Left(t, h, i) = {}
      /\ CreatedTo(t, h, i) = CreatedTo(t, h, i - 1)
  BY LeftSpends
<1>2. /\ c.vout = Left(t, h, i)
      /\ c.vout # {} => c.fCoinBase = base /\ c.nHeight \in CreatedTo(t, h, i)
  BY <1>0, <1>1, SameIff
<1>3. IF SpentTo(t, h, i) = Vout[t]
      THEN u.nHeight \in CreatedTo(t, h, i) /\ u.fCoinBase = base
      ELSE u.nHeight = 0
  BY DEF UndoMatches
<1>4. n \in Outputs
  BY <1>0, <1>1, EntrySpends DEF Outputs
<1>5. CASE SpentTo(t, h, i) = Vout[t]
  <2>1. /\ u.nHeight \in CreatedTo(t, h, i) /\ u.fCoinBase = base /\ base \in BOOLEAN
        /\ Left(t, h, i - 1) = {n}
    BY <1>0, <1>1, <1>3, <1>5
  <2>2. u.nHeight # 0 /\ u.nHeight \in Blocks
    BY <1>0, <1>1, <2>1, CreatedOnce
  <2> HIDE DEF base
  <2>3. d = Coin({n}, base, FALSE, u.nHeight)
    BY <2>1, <2>2 DEF Restore
  <2>4. d \in Coins
    BY <1>4, <2>1, <2>2, <2>3, CoinType
  <2>5. d.vout = {n} /\ d.fCoinBase = base /\ d.nHeight = u.nHeight
    BY <2>3 DEF Coin
  <2> HIDE DEF d
  <2> QED
    BY <1>0, <1>1, <2>1, <2>4, <2>5, SameIff DEF base, d
<1>6. CASE SpentTo(t, h, i) # Vout[t]
  <2> DEFINE v == c.vout \cup {n}
  <2>1. d = [c EXCEPT !.vout = v]
    BY <1>3, <1>6 DEF Restore
  <2>2. v \in SUBSET Outputs /\ v # {} /\ v = Left(t, h, i - 1)
    BY <1>0, <1>1, <1>2, <1>4, CoinsFields
  <2>3. c.fCoinBase = base /\ c.nHeight \in CreatedTo(t, h, i)
    BY <1>0, <1>1, <1>2, <1>6
  <2> HIDE DEF v
  <2>4. d \in Coins /\ d.vout = v /\ d.nHeight = c.nHeight /\ d.fCoinBase = c.fCoinBase
    BY <2>1, <2>2, VoutChange
  <2> HIDE DEF d
  <2>5. d.fCoinBase = base
    BY <2>3, <2>4
  <2> QED
    BY <1>0, <1>1, <2>2, <2>3, <2>4, <2>5, SameIff DEF d
<1> QED
  BY <1>5, <1>6

-----------------------------------------------------------------------------
(* The steps of a job. *)

LEMMA IdleFields == Idle \in Jobs /\ Idle.kind = "idle" /\ ~Idle.verify
BY WorkAssumption, CoinsAssumption DEF Idle, Job, Jobs, Kinds

LEMMA JobFields ==
    ASSUME NEW k \in Kinds, NEW h \in Blocks, NEW i \in Nat, NEW v \in BOOLEAN
    PROVE  LET j == Job(k, h, i, v) IN
           j \in Jobs /\ j.kind = k /\ j.h = h /\ j.i = i /\ j.verify = v
BY DEF Job, Jobs

LEMMA BestFacts ==
    ASSUME CacheInv
    PROVE  /\ TipBest \in Blocks /\ dbBest \in Blocks /\ open \in BOOLEAN
           /\ \A b \in Blocks : b \in Nat /\ b # NULL /\ (b # 0 => b \in Heights)
           /\ \A b \in Heights : b \in Blocks /\ b - 1 \in Blocks
           /\ Genesis = 0 /\ 0 \in Blocks
<1>1. dbBest \in Blocks /\ tipBest \in Blocks \cup {NULL} /\ open \in BOOLEAN
  BY DEF CacheInv, TypeOK
<1>2. Len(Work) \in Nat /\ Blocks = 0..Len(Work) /\ NULL \notin Blocks /\ Genesis = 0
  BY WorkAssumption, CoinsAssumption
<1> QED
  BY <1>1, <1>2 DEF TipBest, Heights

\* The undo data stays, and the blocks that have to have it do.
LEMMA UndoKept ==
    ASSUME UndoInv, undoFile' = undoFile, blockundo' \in Seq(Undos),
           \A h \in Heights : h <= TipBest' \/ h <= dbBest' =>
                              h <= TipBest \/ h <= dbBest \/ UndoComplete(undoFile, h),
           job'.kind = "connected" => UndoComplete(undoFile, job'.h),
           job'.kind = "connect" => blockundo' = <<>> /\ job'.i = 1
    PROVE  UndoInv'
<1>1. \A h : UndoComplete(undoFile', h) <=> UndoComplete(undoFile, h)
  BY DEF UndoComplete
<1>2. \A h \in Heights : undoFile'[h] = <<>> \/ UndoComplete(undoFile, h)
  BY DEF UndoInv
<1>3. \A h \in Heights : h <= TipBest' \/ h <= dbBest' => UndoComplete(undoFile, h)
  BY DEF UndoInv
<1>4. undoFile' \in [Blocks -> Seq(Undos)]
  BY DEF UndoInv
<1>5. job'.kind = "connect" => /\ Len(blockundo') = job'.i - 1
                               /\ 1..(job'.i - 1) = {}
  OBVIOUS
<1> QED
  BY <1>1, <1>2, <1>3, <1>4, <1>5 DEF UndoInv

\* A view that is thrown away.
LEMMA DropKeeps ==
    ASSUME BlocksInv, DropView, job' = Idle, UNCHANGED <<blockundo, undoFile>>
    PROVE  BlocksInv'
<1>1. CacheInv' /\ DbCoins' = DbCoins /\ TipCoins' = TipCoins
  BY EmptyFacts, ViewEmptied DEF BlocksInv, DropView
<1>2. ~open' /\ dbBest' = dbBest /\ TipBest' = TipBest
  BY DEF DropView, TipBest
<1>3. job' \in Jobs /\ job'.kind = "idle" /\ ~job'.verify
  BY IdleFields
<1>4. JobOK'
  BY <1>2, <1>3 DEF JobOK
<1>5. ViewExact'
  BY <1>3 DEF ViewExact
<1>6. UndoInv'
  BY <1>2, <1>3, UndoKept DEF BlocksInv, UndoInv
<1> QED
  BY <1>1, <1>2, <1>4, <1>5, <1>6 DEF BlocksInv

\* A view that is opened to connect the next block, or to disconnect the last.
LEMMA OpenKeeps ==
    ASSUME BlocksInv, OpenView, undoFile' = undoFile, NEW v \in BOOLEAN,
           \/ /\ TipBest + 1 \in Blocks /\ v = FALSE
              /\ job' = Job("connect", TipBest + 1, 1, v)
              /\ blockundo' = <<>>
           \/ /\ TipBest # Genesis
              /\ job' = Job("disconnect", TipBest, Len(Work[TipBest]), v)
              /\ blockundo' = blockundo
    PROVE  BlocksInv'
<1>1. CacheInv' /\ DbCoins' = DbCoins /\ TipCoins' = TipCoins /\ ViewCoins' = TipCoins
  BY EmptyFacts, ViewEmptied DEF BlocksInv, OpenView
<1>2. open' /\ dbBest' = dbBest /\ TipBest' = TipBest
  BY DEF OpenView, TipBest
<1>3. /\ TipBest \in Blocks /\ TipBest \in Nat /\ Genesis = 0
      /\ \A b \in Blocks : b # 0 => b \in Heights
  BY BestFacts DEF BlocksInv
<1>4. AllSameAt(TipCoins, TipBest)
  BY DEF BlocksInv
<1>5. CASE /\ TipBest + 1 \in Blocks /\ v = FALSE
           /\ job' = Job("connect", TipBest + 1, 1, v)
           /\ blockundo' = <<>>
  <2> DEFINE h == TipBest + 1
  <2>1. h \in Heights /\ h \in Blocks /\ h - 1 = TipBest
    BY <1>3, <1>5
  <2>2. /\ job' \in Jobs /\ job'.kind = "connect" /\ job'.h = h /\ job'.i = 1
        /\ job'.verify = v
    BY <1>5, <2>1, JobFields DEF Kinds
  <2>3. AllSame(TipCoins, h, 0) /\ Len(Work[h]) \in Nat
    BY <1>4, <2>1, Boundaries, WorkType
  <2>4. JobOK'
    <3>1. ~job'.verify
      BY <1>5, <2>2
    <3>2. job'.i \in 1..(Len(Work[job'.h]) + 1)
      BY <2>2, <2>3
    <3>3. job'.h <= TipBest' + 1 /\ job'.h \in Heights
      BY <1>2, <1>3, <2>1, <2>2
    <3> QED
      BY <1>2, <2>2, <3>1, <3>2, <3>3 DEF JobOK
  <2>5. ViewExact'
    BY <1>1, <2>2, <2>3 DEF ViewExact
  <2>6. UndoInv'
    <3>1. blockundo' \in Seq(Undos)
      BY <1>5
    <3> QED
      BY <1>2, <1>5, <2>2, <3>1, UndoKept DEF BlocksInv
  <2> QED
    BY <1>1, <1>2, <2>4, <2>5, <2>6 DEF BlocksInv
<1>6. CASE /\ TipBest # Genesis
           /\ job' = Job("disconnect", TipBest, Len(Work[TipBest]), v)
           /\ blockundo' = blockundo
  <2> DEFINE h == TipBest
  <2>1. h \in Heights /\ h \in Blocks
    BY <1>3, <1>6
  <2>2. AllSame(TipCoins, h, Len(Work[h])) /\ Len(Work[h]) \in Nat
    BY <1>4, <2>1, Boundaries, WorkType
  <2>3. /\ job' \in Jobs /\ job'.kind = "disconnect" /\ job'.h = h /\ job'.i = Len(Work[h])
    BY <1>6, <2>1, <2>2, JobFields DEF Kinds
  <2>4. JobOK'
    <3>1. job'.i \in 0..Len(Work[job'.h]) /\ job'.h <= TipBest' /\ job'.h \in Heights
      BY <1>2, <1>3, <2>1, <2>2, <2>3
    <3> QED
      BY <1>2, <2>3, <3>1 DEF JobOK
  <2>5. ViewExact'
    BY <1>1, <2>2, <2>3 DEF ViewExact
  <2>6. UndoInv'
    BY <1>2, <1>6, <2>3, UndoKept DEF BlocksInv, UndoInv
  <2> QED
    BY <1>1, <1>2, <2>4, <2>5, <2>6 DEF BlocksInv
<1> QED
  BY <1>5, <1>6

\* One ModifyCoins goes from one entry of the block to the next or the last.
LEMMA ViewMoves ==
    ASSUME NEW f \in [Txids -> Coins], NEW d,
           NEW h \in Heights, NEW i \in DOMAIN Work[h], NEW a, NEW b,
           (a = i - 1 /\ b = i) \/ (a = i /\ b = i - 1),
           AllSame(f, h, a), Same(d, CoinTo(Work[h][i].tx, h, b))
    PROVE  AllSame([f EXCEPT ![Work[h][i].tx] = d], h, b)
<1> DEFINE x == Work[h][i].tx
           g == [f EXCEPT ![x] = d]
<1> SUFFICES ASSUME NEW t \in Txids PROVE Same(g[t], CoinTo(t, h, b))
  BY DEF AllSame
<1>1. CASE t = x
  BY <1>1
<1>2. CASE t # x
  <2>1. /\ CreatedTo(t, h, i) = CreatedTo(t, h, i - 1)
        /\ SpentTo(t, h, i) = SpentTo(t, h, i - 1)
    BY <1>2, EntryOther
  <2>2. CreatedTo(t, h, a) = CreatedTo(t, h, b) /\ Left(t, h, a) = Left(t, h, b)
    BY <2>1 DEF Left
  <2>3. g[t] = f[t] /\ f[t] \in Coins /\ a \in Nat /\ b \in Nat
    BY <1>2, EntryType
  <2>4. Same(f[t], CoinTo(t, h, a))
    BY DEF AllSame
  <2>5. Same(f[t], CoinTo(t, h, b))
    BY <2>2, <2>3, <2>4, SameIff
  <2> QED
    BY <2>3, <2>5
<1> QED
  BY <1>1, <1>2

LEMMA UpdateKeeps ==
    ASSUME BlocksInv, UpdateCoins
    PROVE  BlocksInv' /\ \E t \in Txids : \E d \in Coins : Modify(t, d)
<1> DEFINE h == job.h
           i == job.i
           m == Work[h][i]
           c == ViewCoins[m.tx]
<1>1. /\ job \in Jobs /\ job.kind = "connect" /\ open /\ h \in Heights /\ h \in Blocks
      /\ i \in 1..(Len(Work[h]) + 1) /\ i <= Len(Work[h])
      /\ h <= TipBest + 1 /\ (job.verify => h <= TipBest)
  BY DEF BlocksInv, JobOK, UpdateCoins, Jobs
<1>2. i \in DOMAIN Work[h] /\ i \in Nat /\ Len(Work[h]) \in Nat
  BY <1>1, WorkType
<1>3. m.tx \in Txids /\ ViewCoins \in [Txids -> Coins] /\ c \in Coins
  BY <1>1, <1>2, EntryType, CoinsFacts DEF BlocksInv
<1>4. AllSame(ViewCoins, h, i - 1) /\ Same(c, CoinTo(m.tx, h, i - 1))
  BY <1>1, <1>3 DEF BlocksInv, ViewExact, AllSame
<1>5. PICK d \in Coins, u \in Undos :
         /\ Modify(m.tx, d) /\ blockundo' = Append(blockundo, u)
         /\ Same(d, CoinTo(m.tx, h, i)) /\ UndoMatches(u, h, i)
  <2>1. CASE m.n = NULL
    <3>1. Modify(m.tx, Cleanup(FromTx(m.tx, h))) /\ blockundo' = Append(blockundo, NoMeta)
      BY <2>1 DEF UpdateCoins
    <3>2. Cleanup(FromTx(m.tx, h)) \in Coins /\ Same(Cleanup(FromTx(m.tx, h)), CoinTo(m.tx, h, i))
      BY <1>1, <1>2, <2>1, CreateEntry
    <3>3. NoMeta \in Undos
      BY WorkAssumption, CoinsAssumption DEF NoMeta, Undos
    <3>4. UndoMatches(NoMeta, h, i)
      BY <2>1 DEF UndoMatches
    <3> QED
      BY <3>1, <3>2, <3>3, <3>4
  <2>2. CASE m.n # NULL
    <3> DEFINE d == Cleanup([c EXCEPT !.vout = @ \ {m.n}])
               u == SpendUndo(c, m.n)
    <3>1. Modify(m.tx, d) /\ blockundo' = Append(blockundo, u)
      BY <2>2 DEF UpdateCoins
    <3>2. d \in Coins /\ Same(d, CoinTo(m.tx, h, i)) /\ u \in Undos /\ UndoMatches(u, h, i)
      BY <1>1, <1>2, <1>3, <1>4, <2>2, SpendEntry
    <3> HIDE DEF d, u
    <3> QED
      BY <3>1, <3>2
  <2> QED
    BY <2>1, <2>2
<1>6. /\ CacheInv' /\ DbCoins' = DbCoins /\ TipCoins' = TipCoins
      /\ ViewCoins' = [ViewCoins EXCEPT ![m.tx] = d]
  BY <1>3, <1>5, ModifyKeeps DEF BlocksInv
<1>7. /\ open' = open /\ dbBest' = dbBest /\ TipBest' = TipBest /\ viewBest' = viewBest
      /\ undoFile' = undoFile /\ job' = [job EXCEPT !.i = @ + 1]
  BY <1>5 DEF Modify, TipBest, UpdateCoins
<1>8. /\ job' \in Jobs /\ job'.kind = "connect" /\ job'.h = h /\ job'.i = i + 1
      /\ job'.verify = job.verify
  BY <1>1, <1>2, <1>7 DEF Jobs
<1>9. JobOK'
  <2>1. job'.i \in 1..(Len(Work[job'.h]) + 1)
    BY <1>1, <1>2, <1>8
  <2>2. (job'.verify => job'.h <= TipBest') /\ job'.h <= TipBest' + 1 /\ job'.h \in Heights /\ open'
    BY <1>1, <1>7, <1>8
  <2> QED
    BY <1>8, <2>1, <2>2 DEF JobOK
<1>10. ViewExact'
  <2>1. AllSame(ViewCoins', h, i)
    BY <1>1, <1>2, <1>3, <1>4, <1>5, <1>6, ViewMoves
  <2>2. job'.i - 1 = i
    BY <1>2, <1>8
  <2> QED
    BY <1>8, <2>1, <2>2 DEF ViewExact
<1>11. UndoInv'
  <2>1. /\ blockundo \in Seq(Undos) /\ Len(blockundo) = i - 1
        /\ \A j \in 1..(i - 1) : UndoMatches(blockundo[j], h, j)
    BY <1>1 DEF BlocksInv, UndoInv
  <2>2. /\ blockundo' \in Seq(Undos) /\ Len(blockundo') = i
        /\ blockundo'[i] = u /\ \A j \in 1..(i - 1) : blockundo'[j] = blockundo[j]
    BY <1>2, <1>5, <2>1
  <2>3. \A j \in 1..i : UndoMatches(blockundo'[j], h, j)
    <3> SUFFICES ASSUME NEW j \in 1..i PROVE UndoMatches(blockundo'[j], h, j)
      OBVIOUS
    <3>1. j = i \/ j \in 1..(i - 1)
      BY <1>2
    <3> QED
      BY <1>5, <2>1, <2>2, <3>1
  <2>4. job'.i - 1 = i
    BY <1>2, <1>8
  <2>5. \A k : UndoComplete(undoFile', k) <=> UndoComplete(undoFile, k)
    BY <1>7 DEF UndoComplete
  <2>6. /\ undoFile' \in [Blocks -> Seq(Undos)]
        /\ \A k \in Heights : undoFile'[k] = <<>> \/ UndoComplete(undoFile, k)
        /\ \A k \in Heights : k <= TipBest' \/ k <= dbBest' => UndoComplete(undoFile, k)
    BY <1>7 DEF BlocksInv, UndoInv
  <2> QED
    BY <1>8, <2>2, <2>3, <2>4, <2>5, <2>6 DEF UndoInv
<1>12. BlocksInv'
  BY <1>6, <1>7, <1>9, <1>10, <1>11 DEF BlocksInv
<1> QED
  BY <1>3, <1>5, <1>12

LEMMA UndoKeeps ==
    ASSUME BlocksInv, UndoCoins
    PROVE  BlocksInv' /\ \E t \in Txids : \E d \in Coins : Modify(t, d)
<1> DEFINE h == job.h
           i == job.i
           m == Work[h][i]
           c == ViewCoins[m.tx]
<1>1. /\ job \in Jobs /\ job.kind = "disconnect" /\ open /\ h \in Heights /\ h \in Blocks
      /\ i \in 0..Len(Work[h]) /\ i >= 1 /\ h <= TipBest
  BY DEF BlocksInv, JobOK, UndoCoins, Jobs
<1>2. i \in DOMAIN Work[h] /\ i \in Nat /\ Len(Work[h]) \in Nat
  BY <1>1, WorkType
<1>3. m.tx \in Txids /\ ViewCoins \in [Txids -> Coins] /\ c \in Coins
  BY <1>1, <1>2, EntryType, CoinsFacts DEF BlocksInv
<1>4. AllSame(ViewCoins, h, i) /\ Same(c, CoinTo(m.tx, h, i))
  BY <1>1, <1>3 DEF BlocksInv, ViewExact, AllSame
<1>5. PICK d \in Coins : Modify(m.tx, d) /\ Same(d, CoinTo(m.tx, h, i - 1))
  <2>1. CASE m.n = NULL
    <3>1. Modify(m.tx, Pruned)
      BY <2>1 DEF UndoCoins
    <3>2. Same(Pruned, CoinTo(m.tx, h, i - 1))
      BY <1>1, <1>2, <2>1, CreateEntry
    <3> QED
      BY <3>1, <3>2, CoinsAssumption
  <2>2. CASE m.n # NULL
    <3> DEFINE u == undoFile[h][i]
               d == Restore(c, m.n, u)
    <3>1. Modify(m.tx, d)
      BY <2>2 DEF UndoCoins
    <3>2. UndoMatches(u, h, i)
      BY <1>1, <1>2 DEF BlocksInv, UndoInv, UndoComplete
    <3> HIDE DEF u
    <3>3. d \in Coins /\ Same(d, CoinTo(m.tx, h, i - 1))
      BY <1>1, <1>2, <1>3, <1>4, <2>2, <3>2, UnspendEntry
    <3> HIDE DEF d
    <3> QED
      BY <3>1, <3>3
  <2> QED
    BY <2>1, <2>2
<1>6. /\ CacheInv' /\ DbCoins' = DbCoins /\ TipCoins' = TipCoins
      /\ ViewCoins' = [ViewCoins EXCEPT ![m.tx] = d]
  BY <1>3, <1>5, ModifyKeeps DEF BlocksInv
<1>7. /\ open' = open /\ dbBest' = dbBest /\ TipBest' = TipBest
      /\ undoFile' = undoFile /\ blockundo' = blockundo /\ job' = [job EXCEPT !.i = @ - 1]
  BY <1>5 DEF Modify, TipBest, UndoCoins
<1>8. /\ job' \in Jobs /\ job'.kind = "disconnect" /\ job'.h = h /\ job'.i = i - 1
  BY <1>1, <1>2, <1>7 DEF Jobs
<1>9. JobOK'
  <2>1. job'.i \in 0..Len(Work[job'.h])
    BY <1>1, <1>2, <1>8
  <2>2. job'.h <= TipBest' /\ job'.h \in Heights /\ open'
    BY <1>1, <1>7, <1>8
  <2> QED
    BY <1>8, <2>1, <2>2 DEF JobOK
<1>10. ViewExact'
  <2>1. AllSame(ViewCoins', h, i - 1)
    BY <1>1, <1>2, <1>3, <1>4, <1>5, <1>6, ViewMoves
  <2> QED
    BY <1>8, <2>1 DEF ViewExact
<1>11. UndoInv'
  BY <1>7, <1>8, UndoKept DEF BlocksInv, UndoInv
<1>12. BlocksInv'
  BY <1>6, <1>7, <1>9, <1>10, <1>11 DEF BlocksInv
<1> QED
  BY <1>3, <1>5, <1>12

\* The undo data of the block is complete when its last entry is applied.
LEMMA ConnectedKeeps ==
    ASSUME BlocksInv, BlockConnected
    PROVE  BlocksInv'
<1> DEFINE h == job.h
<1>1. /\ job \in Jobs /\ job.kind = "connect" /\ open /\ h \in Heights /\ h \in Blocks
      /\ job.i \in 1..(Len(Work[h]) + 1) /\ job.i > Len(Work[h])
      /\ h <= TipBest + 1 /\ (job.verify => h <= TipBest)
  BY DEF BlocksInv, JobOK, BlockConnected, Jobs
<1>2. Len(Work[h]) \in Nat /\ DOMAIN Work[h] = 1..Len(Work[h]) /\ job.i - 1 = Len(Work[h])
  <2>1. Len(Work[h]) \in Nat /\ DOMAIN Work[h] = 1..Len(Work[h])
    BY <1>1, WorkType
  <2> QED
    BY <1>1, <2>1
<1>3. /\ open' /\ viewBest' = h /\ UNCHANGED <<db, dbBest, tip, tipBest, open, view>>
      /\ undoFile' = [undoFile EXCEPT ![h] = IF @ = <<>> THEN blockundo ELSE @]
      /\ job' = [job EXCEPT !.kind = "connected"] /\ blockundo' = blockundo
  BY <1>1 DEF BlockConnected, SetBestBlock
<1>4. /\ CacheInv' /\ DbCoins' = DbCoins /\ TipCoins' = TipCoins /\ ViewCoins' = ViewCoins
  <2>1. tipBest' \in Blocks \cup {NULL}
    BY <1>3 DEF BlocksInv, CacheInv, TypeOK
  <2> QED
    BY <1>1, <1>3, <2>1, BestKeeps DEF BlocksInv
<1>5. dbBest' = dbBest /\ TipBest' = TipBest
  BY <1>3 DEF TipBest
<1>6. /\ job' \in Jobs /\ job'.kind = "connected" /\ job'.h = h /\ job'.verify = job.verify
  BY <1>1, <1>3 DEF Jobs, Kinds
<1>7. JobOK'
  <2>1. /\ (job'.verify => job'.h <= TipBest') /\ job'.h <= TipBest' + 1
        /\ job'.h \in Heights /\ open' /\ viewBest' = job'.h
    BY <1>1, <1>3, <1>5, <1>6
  <2> QED
    BY <1>6, <2>1 DEF JobOK
<1>8. ViewExact'
  <2>1. AllSame(ViewCoins', h, Len(Work[h]))
    BY <1>1, <1>2, <1>4 DEF BlocksInv, ViewExact
  <2> QED
    BY <1>6, <2>1 DEF ViewExact
<1>9. UndoInv'
  <2>1. /\ undoFile \in [Blocks -> Seq(Undos)] /\ blockundo \in Seq(Undos)
        /\ \A k \in Heights : undoFile[k] = <<>> \/ UndoComplete(undoFile, k)
        /\ \A k \in Heights : k <= TipBest \/ k <= dbBest => UndoComplete(undoFile, k)
        /\ \A j \in 1..(job.i - 1) : UndoMatches(blockundo[j], h, j)
    BY <1>1 DEF BlocksInv, UndoInv
  <2>2. /\ undoFile' \in [Blocks -> Seq(Undos)]
        /\ undoFile'[h] = IF undoFile[h] = <<>> THEN blockundo ELSE undoFile[h]
        /\ \A k \in Blocks \ {h} : undoFile'[k] = undoFile[k]
    BY <1>1, <1>3, <2>1
  <2>3. UndoComplete(undoFile', h)
    <3>1. CASE undoFile[h] = <<>>
      BY <1>2, <2>1, <2>2, <3>1 DEF UndoComplete
    <3>2. CASE undoFile[h] # <<>>
      BY <1>1, <2>1, <2>2, <3>2 DEF UndoComplete
    <3> QED
      BY <3>1, <3>2
  <2>4. \A k \in Heights : k # h => /\ undoFile'[k] = undoFile[k]
                                    /\ UndoComplete(undoFile, k) => UndoComplete(undoFile', k)
    <3>1. \A k \in Heights : k \in Blocks
      BY BestFacts DEF BlocksInv
    <3> QED
      BY <2>2, <3>1 DEF UndoComplete
  <2>5. \A k \in Heights : undoFile'[k] = <<>> \/ UndoComplete(undoFile', k)
    BY <2>1, <2>3, <2>4
  <2>6. \A k \in Heights : k <= TipBest' \/ k <= dbBest' => UndoComplete(undoFile', k)
    BY <1>5, <2>1, <2>3, <2>4
  <2> QED
    BY <1>3, <1>6, <2>1, <2>2, <2>3, <2>5, <2>6 DEF UndoInv
<1> QED
  BY <1>4, <1>5, <1>7, <1>8, <1>9 DEF BlocksInv

LEMMA DisconnectedKeeps ==
    ASSUME BlocksInv, BlockDisconnected
    PROVE  BlocksInv'
<1> DEFINE h == job.h
<1>1. /\ job \in Jobs /\ job.kind = "disconnect" /\ open /\ h \in Heights /\ h \in Blocks
      /\ job.i = 0 /\ h <= TipBest
  BY DEF BlocksInv, JobOK, BlockDisconnected, Jobs
<1>2. h - 1 \in Blocks
  BY <1>1, BestFacts DEF BlocksInv
<1>3. /\ open' /\ viewBest' = h - 1 /\ UNCHANGED <<db, dbBest, tip, tipBest, open, view>>
      /\ job' = [job EXCEPT !.kind = "disconnected"] /\ UNCHANGED <<blockundo, undoFile>>
  BY <1>1 DEF BlockDisconnected, SetBestBlock
<1>4. /\ CacheInv' /\ DbCoins' = DbCoins /\ TipCoins' = TipCoins /\ ViewCoins' = ViewCoins
  <2>1. tipBest' \in Blocks \cup {NULL}
    BY <1>3 DEF BlocksInv, CacheInv, TypeOK
  <2> QED
    BY <1>1, <1>2, <1>3, <2>1, BestKeeps DEF BlocksInv
<1>5. dbBest' = dbBest /\ TipBest' = TipBest
  BY <1>3 DEF TipBest
<1>6. /\ job' \in Jobs /\ job'.kind = "disconnected" /\ job'.h = h
  BY <1>1, <1>3 DEF Jobs, Kinds
<1>7. JobOK'
  <2>1. job'.h <= TipBest' /\ job'.h \in Heights /\ open' /\ viewBest' = job'.h - 1
    BY <1>1, <1>3, <1>5, <1>6
  <2> QED
    BY <1>6, <2>1 DEF JobOK
<1>8. ViewExact'
  <2>1. AllSame(ViewCoins', h, 0)
    BY <1>1, <1>4 DEF BlocksInv, ViewExact
  <2> QED
    BY <1>6, <2>1 DEF ViewExact
<1>9. UndoInv'
  BY <1>3, <1>5, <1>6, UndoKept DEF BlocksInv, UndoInv
<1> QED
  BY <1>4, <1>5, <1>7, <1>8, <1>9 DEF BlocksInv

\* The view of a whole block is flushed into pcoinsTip.
LEMMA FlushViewStep ==
    ASSUME BlocksInv, FlushView, UNCHANGED <<blockundo, undoFile>>,
           \/ job.kind = "connected" /\ job' = Idle
           \/ job.kind = "disconnected" /\ ~job.verify /\ job' = [job EXCEPT !.kind = "flush"]
    PROVE  BlocksInv'
<1> DEFINE h == job.h
<1>1. job \in Jobs /\ open /\ h \in Heights /\ h \in Blocks /\ h \in Nat
  BY BestFacts DEF BlocksInv, JobOK, FlushView, Jobs
<1>2. CacheInv' /\ DbCoins' = DbCoins /\ TipCoins' = ViewCoins
  BY FlushViewKeeps DEF BlocksInv
<1>3. /\ ~open' /\ dbBest' = dbBest /\ TipBest' = viewBest
  BY DEF FlushView, TipBest
<1>4. TipBest \in Nat /\ dbBest \in Nat
  BY BestFacts DEF BlocksInv
<1>5. /\ AllSameAt(ViewCoins, viewBest) /\ viewBest <= TipBest + 1 /\ viewBest \in Nat
      /\ \A k \in Heights : k <= viewBest => k <= TipBest \/ UndoComplete(undoFile, k)
  <2>1. CASE job.kind = "connected"
    <3>1. viewBest = h /\ h <= TipBest + 1 /\ AllSame(ViewCoins, h, Len(Work[h]))
          /\ UndoComplete(undoFile, h)
      BY <2>1 DEF BlocksInv, JobOK, ViewExact, UndoInv
    <3>2. AllSameAt(ViewCoins, h)
      BY <1>1, <3>1, Boundaries
    <3>3. \A k \in Heights : k <= h => k <= TipBest \/ k = h
      BY <1>1, <1>4, <3>1 DEF Heights
    <3> QED
      BY <1>1, <3>1, <3>2, <3>3
  <2>2. CASE job.kind = "disconnected"
    <3>1. viewBest = h - 1 /\ h <= TipBest /\ AllSame(ViewCoins, h, 0)
      BY <2>2 DEF BlocksInv, JobOK, ViewExact
    <3>2. AllSameAt(ViewCoins, h - 1)
      BY <1>1, <3>1, Boundaries
    <3>3. \A k \in Heights : k <= h - 1 => k <= TipBest
      BY <1>1, <1>4, <3>1 DEF Heights
    <3>4. h - 1 \in Nat /\ h - 1 <= TipBest + 1
      BY <1>1, <1>4, <3>1 DEF Heights
    <3> QED
      BY <3>1, <3>2, <3>3, <3>4
  <2> QED
    BY <2>1, <2>2
<1>6. /\ job' \in Jobs /\ job'.kind \in {"idle", "flush"} /\ ~job'.verify
  <2>1. CASE job' = Idle
    BY <2>1, IdleFields
  <2>2. CASE ~job.verify /\ job' = [job EXCEPT !.kind = "flush"]
    BY <1>1, <2>2 DEF Jobs, Kinds
  <2> QED
    BY <2>1, <2>2
<1>7. JobOK'
  BY <1>3, <1>6 DEF JobOK
<1>8. ViewExact'
  BY <1>6 DEF ViewExact
<1>9. UndoInv'
  <2>1. blockundo' \in Seq(Undos)
    BY DEF BlocksInv, UndoInv
  <2>2. \A k \in Heights : k <= TipBest' \/ k <= dbBest' =>
                           k <= TipBest \/ k <= dbBest \/ UndoComplete(undoFile, k)
    BY <1>3, <1>5
  <2> QED
    BY <1>6, <2>1, <2>2, UndoKept DEF BlocksInv
<1> QED
  BY <1>2, <1>3, <1>5, <1>7, <1>8, <1>9 DEF BlocksInv

\* The next block of VerifyDB, in the same view.
LEMMA VerifyKeeps ==
    ASSUME BlocksInv, VerifyNext
    PROVE  BlocksInv'
<1> DEFINE h == job.h
<1>1. job \in Jobs /\ job.verify /\ open /\ h \in Heights /\ h <= TipBest
  BY DEF BlocksInv, JobOK, VerifyNext, Jobs
<1>2. /\ UNCHANGED cacheVars /\ undoFile' = undoFile /\ blockundo' = <<>>
      /\ blockundo' \in Seq(Undos)
  BY DEF VerifyNext
<1>3. /\ open' /\ dbBest' = dbBest /\ TipBest' = TipBest
      /\ DbCoins' = DbCoins /\ TipCoins' = TipCoins /\ ViewCoins' = ViewCoins
  BY <1>1, <1>2 DEF cacheVars, TipBest, DbCoins, TipCoins, ViewCoins
<1>4. CacheInv'
  <2>1. UNCHANGED <<db, dbBest, tip, open, view>> /\ UNCHANGED <<tipBest, viewBest>>
    BY <1>2 DEF cacheVars
  <2>2. /\ tipBest' \in Blocks \cup {NULL} /\ viewBest' \in Blocks \cup {NULL}
    BY <2>1 DEF BlocksInv, CacheInv, TypeOK
  <2> QED
    BY <1>1, <2>1, <2>2, BestKeeps DEF BlocksInv
<1>5. TipBest \in Nat /\ TipBest \in Blocks /\ Genesis = 0 /\ h \in Nat /\ h \in Blocks
      /\ \A b \in Blocks : b # 0 => b \in Heights
  BY <1>1, BestFacts DEF BlocksInv
<1>6. PICK k \in {"connect", "disconnect"}, g \in Heights, i \in Nat :
         /\ job' = Job(k, g, i, TRUE) /\ g <= TipBest /\ Len(Work[g]) \in Nat
         /\ k = "connect" => i = 1 /\ AllSame(ViewCoins, g, 0)
         /\ k = "disconnect" => i = Len(Work[g]) /\ AllSame(ViewCoins, g, i)
  <2>1. CASE job.kind = "disconnected" /\ h - 1 # Genesis
             /\ job' = Job("disconnect", h - 1, Len(Work[h - 1]), TRUE)
    <3>1. h - 1 \in Heights /\ h - 1 <= TipBest
      BY <1>1, <1>5, <2>1 DEF Heights
    <3>2. AllSame(ViewCoins, h, 0)
      BY <2>1 DEF BlocksInv, ViewExact
    <3>3. AllSame(ViewCoins, h - 1, Len(Work[h - 1])) /\ Len(Work[h - 1]) \in Nat
      BY <1>1, <3>1, <3>2, Boundaries, WorkType
    <3> QED
      BY <2>1, <3>1, <3>3
  <2>2. CASE job.kind = "disconnected" /\ job' = Job("connect", h, 1, TRUE)
    <3>1. AllSame(ViewCoins, h, 0) /\ Len(Work[h]) \in Nat
      BY <1>1, <2>2, WorkType DEF BlocksInv, ViewExact
    <3> QED
      BY <1>1, <2>2, <3>1
  <2>3. CASE job.kind = "connected" /\ h # TipBest /\ job' = Job("connect", h + 1, 1, TRUE)
    <3>1. h + 1 \in Heights /\ h + 1 <= TipBest /\ (h + 1) - 1 = h
      <4>1. Len(Work) \in Nat /\ TipBest <= Len(Work)
        BY <1>5, WorkAssumption
      <4> QED
        BY <1>1, <1>5, <2>3, <4>1 DEF Heights
    <3>2. AllSame(ViewCoins, h, Len(Work[h]))
      BY <2>3 DEF BlocksInv, ViewExact
    <3>3. AllSame(ViewCoins, h + 1, 0) /\ Len(Work[h + 1]) \in Nat
      BY <1>1, <3>1, <3>2, Boundaries, WorkType
    <3> QED
      BY <2>3, <3>1, <3>3
  <2> QED
    BY <2>1, <2>2, <2>3 DEF VerifyNext
<1>7. job' \in Jobs /\ job'.kind = k /\ job'.h = g /\ job'.i = i
  <2>1. k \in Kinds /\ g \in Blocks
    BY BestFacts DEF BlocksInv, Kinds
  <2> QED
    BY <1>6, <2>1 DEF Job, Jobs
<1>8. JobOK'
  <2>0. /\ g \in Nat /\ g <= TipBest /\ Len(Work[g]) \in Nat /\ g \in Heights
        /\ (k = "connect" => i = 1) /\ (k = "disconnect" => i = Len(Work[g]))
    BY <1>6, WorkType, Zenon
  <2>1. /\ g <= TipBest + 1
        /\ (k = "connect" => i \in 1..(Len(Work[g]) + 1))
        /\ (k = "disconnect" => i \in 0..Len(Work[g]))
    BY <1>5, <2>0
  <2> QED
    BY <1>3, <1>7, <2>0, <2>1 DEF JobOK
<1>9. ViewExact'
  <2>1. (k = "connect" => AllSame(ViewCoins, g, 0)) /\ (k = "connect" => i = 1)
        /\ (k = "disconnect" => AllSame(ViewCoins, g, i))
    BY <1>6, Zenon
  <2>2. k = "connect" => i - 1 = 0
    BY <2>1
  <2> QED
    BY <1>3, <1>7, <2>1, <2>2 DEF ViewExact
<1>10. UndoInv'
  BY <1>2, <1>3, <1>6, <1>7, UndoKept DEF BlocksInv
<1> QED
  BY <1>3, <1>4, <1>8, <1>9, <1>10 DEF BlocksInv

LEMMA FlushKeeps ==
    ASSUME BlocksInv, FlushStateToDisk
    PROVE  BlocksInv'
<1>1. FlushTip /\ job' = Idle /\ UNCHANGED <<blockundo, undoFile>>
  BY DEF FlushStateToDisk
<1>2. CacheInv' /\ DbCoins' = TipCoins /\ TipCoins' = TipCoins
  BY <1>1, FlushTipKeeps DEF BlocksInv
<1>3. ~open' /\ dbBest' = TipBest /\ TipBest' = TipBest
  BY <1>1 DEF FlushTip, TipBest
<1>4. job' \in Jobs /\ job'.kind = "idle" /\ ~job'.verify
  BY <1>1, IdleFields
<1>5. JobOK' /\ ViewExact'
  BY <1>3, <1>4 DEF JobOK, ViewExact
<1>6. UndoInv'
  <2>1. blockundo' \in Seq(Undos)
    BY <1>1 DEF BlocksInv, UndoInv
  <2> QED
    BY <1>1, <1>3, <1>4, <2>1, UndoKept DEF BlocksInv
<1> QED
  BY <1>2, <1>3, <1>5, <1>6 DEF BlocksInv

\* Reads change nothing that anybody sees.
LEMMA SilentKeeps ==
    ASSUME BlocksInv, CacheInv', DbCoins' = DbCoins, TipCoins' = TipCoins,
           ViewCoins' = ViewCoins, dbBest' = dbBest, TipBest' = TipBest, open' = open,
           job.kind \in {"connected", "disconnected"} => viewBest' = viewBest,
           UNCHANGED <<job, blockundo, undoFile>>
    PROVE  BlocksInv'
<1>1. JobOK'
  BY DEF BlocksInv, JobOK
<1>2. ViewExact'
  BY DEF BlocksInv, ViewExact
<1>3. UndoInv'
  BY DEF BlocksInv, UndoInv
<1> QED
  BY <1>1, <1>2, <1>3 DEF BlocksInv

LEMMA ReadKeeps ==
    ASSUME BlocksInv, Read
    PROVE  BlocksInv'
<1>1. PICK t \in Txids : ReadTip(t) \/ ReadView(t)
  BY DEF Read
<1>2. CacheInv' /\ DbCoins' = DbCoins /\ TipCoins' = TipCoins /\ ViewCoins' = ViewCoins
  BY <1>1, ReadTipKeeps, ReadViewKeeps DEF BlocksInv
<1>3. dbBest' = dbBest /\ TipBest' = TipBest /\ open' = open /\ viewBest' = viewBest
  BY <1>1 DEF ReadTip, ReadView, TipBest
<1> QED
  BY <1>2, <1>3, SilentKeeps DEF Read

LEMMA ReadBestKeeps ==
    ASSUME BlocksInv, ReadBest
    PROVE  BlocksInv'
<1>1. /\ tipBest' = TipBest /\ viewBest' = (IF open THEN ViewBest ELSE viewBest)
      /\ UNCHANGED <<db, dbBest, tip, open, view>>
      /\ UNCHANGED <<job, blockundo, undoFile>>
  BY DEF ReadBest, GetBestBlock
<1>2. /\ TipBest \in Blocks /\ viewBest \in Blocks \cup {NULL} /\ (~open => viewBest = NULL)
      /\ NULL \notin Blocks
  BY BestFacts, CoinsAssumption DEF BlocksInv, CacheInv, TypeOK, ClosedEmpty
<1>3. viewBest' \in Blocks \cup {NULL} /\ (~open => viewBest' = NULL)
  BY <1>1, <1>2 DEF ViewBest
<1>4. CacheInv' /\ DbCoins' = DbCoins /\ TipCoins' = TipCoins /\ ViewCoins' = ViewCoins
  BY <1>1, <1>2, <1>3, BestKeeps DEF BlocksInv
<1>5. TipBest' = TipBest
  BY <1>1, <1>2 DEF TipBest
<1>6. job.kind \in {"connected", "disconnected"} => viewBest' = viewBest
  <2>1. job.kind \in {"connected", "disconnected"} => viewBest \in Blocks
    <3>1. job.kind \in {"connected", "disconnected"} => job.h \in Heights
      BY <1>2 DEF BlocksInv, JobOK
    <3> QED
      BY <3>1, BestFacts DEF BlocksInv, JobOK
  <2> QED
    BY <1>1, <1>2, <2>1 DEF ViewBest
<1> QED
  BY <1>1, <1>4, <1>5, <1>6, SilentKeeps

\* What a crash leaves: the coins of the database, and the undo data of
\* every block up to its best block.
LEMMA NodeCrashKeeps ==
    ASSUME BlocksInv, NodeCrash
    PROVE  BlocksInv'
<1>1. CacheInv' /\ DbCoins' = DbCoins /\ TipCoins' = DbCoins
  BY CrashKeeps DEF BlocksInv, NodeCrash
<1>2. ~open' /\ dbBest' = dbBest /\ TipBest' = dbBest
  BY DEF NodeCrash, Crash, TipBest
<1>3. job' \in Jobs /\ job'.kind = "idle" /\ ~job'.verify
  BY IdleFields DEF NodeCrash
<1>4. JobOK' /\ ViewExact'
  BY <1>2, <1>3 DEF JobOK, ViewExact
<1>5. UndoInv'
  <2>1. /\ undoFile \in [Blocks -> Seq(Undos)]
        /\ \A h \in Heights : undoFile[h] = <<>> \/ UndoComplete(undoFile, h)
        /\ \A h \in Heights : h <= dbBest => UndoComplete(undoFile, h)
    BY DEF BlocksInv, UndoInv
  <2>2. PICK kept \in Blocks :
           undoFile' = [h \in Blocks |-> IF h <= dbBest \/ h <= kept THEN undoFile[h] ELSE <<>>]
    BY DEF NodeCrash
  <2>3. \A h \in Blocks : undoFile'[h] = <<>> \/ undoFile'[h] = undoFile[h]
    BY <2>2
  <2>4. undoFile' \in [Blocks -> Seq(Undos)]
    BY <2>1, <2>2
  <2>5. \A h \in Heights : h \in Blocks
    BY BestFacts DEF BlocksInv
  <2>6. \A h \in Heights : undoFile'[h] = undoFile[h] =>
           (UndoComplete(undoFile, h) => UndoComplete(undoFile', h))
    BY DEF UndoComplete
  <2>7. \A h \in Heights : undoFile'[h] = <<>> \/ UndoComplete(undoFile', h)
    BY <2>1, <2>3, <2>5, <2>6
  <2>8. \A h \in Heights : h <= dbBest => undoFile'[h] = undoFile[h]
    BY <2>2, <2>5
  <2>9. \A h \in Heights : h <= TipBest' \/ h <= dbBest' => UndoComplete(undoFile', h)
    BY <1>2, <2>1, <2>6, <2>8
  <2>10. blockundo' \in Seq(Undos)
    BY DEF NodeCrash
  <2> QED
    BY <1>3, <2>4, <2>7, <2>9, <2>10 DEF UndoInv
<1> QED
  BY <1>1, <1>2, <1>4, <1>5 DEF BlocksInv

-----------------------------------------------------------------------------
(* The theorem. *)

LEMMA BlocksInitial ==
    ASSUME BlocksInit
    PROVE  BlocksInv
<1>1. CacheInv /\ TipCoins = DbCoins
  BY InitKeeps DEF BlocksInit
<1>2. /\ dbBest = 0 /\ TipBest = 0 /\ ~open
  BY WorkAssumption DEF BlocksInit, Init, TipBest
<1>3. \A t \in Txids : DbCoins[t] = Pruned
  BY EmptyFacts DEF BlocksInit, Init, DbCoins
<1>4. \A t \in Txids : CoinsAt(0)[t] = Pruned
  BY CoinsAtType, CoinsAssumption
<1>5. AllSameAt(DbCoins, 0) /\ AllSameAt(TipCoins, 0)
  BY <1>1, <1>3, <1>4 DEF AllSameAt, Same
<1>6. job \in Jobs /\ job.kind = "idle" /\ ~job.verify
  BY IdleFields DEF BlocksInit
<1>7. JobOK /\ ViewExact
  BY <1>2, <1>6 DEF JobOK, ViewExact
<1>8. UndoInv
  <2>1. undoFile \in [Blocks -> Seq(Undos)] /\ blockundo \in Seq(Undos)
    BY DEF BlocksInit
  <2>2. \A h \in Heights : h \in Blocks /\ ~(h <= 0)
    BY <1>1, BestFacts DEF Heights
  <2> QED
    BY <1>2, <1>6, <2>1, <2>2 DEF BlocksInit, UndoInv
<1> QED
  BY <1>1, <1>2, <1>5, <1>7, <1>8 DEF BlocksInv

LEMMA BlocksStep ==
    ASSUME BlocksInv, [BlocksNext]_vars
    PROVE  BlocksInv'
<1>1. CASE ConnectTip
  <2> DEFINE v == FALSE
  <2>1. job' = Job("connect", TipBest + 1, 1, v) /\ v \in BOOLEAN /\ v = FALSE
    BY <1>1 DEF ConnectTip
  <2> HIDE DEF v
  <2> QED
    BY <1>1, <2>1, OpenKeeps DEF ConnectTip
<1>2. CASE UpdateCoins
  BY <1>2, UpdateKeeps
<1>3. CASE BlockConnected
  BY <1>3, ConnectedKeeps
<1>4. CASE ConnectFails
  BY <1>4, DropKeeps DEF ConnectFails
<1>5. CASE TipConnected
  BY <1>5, FlushViewStep DEF TipConnected
<1>6. CASE DisconnectTip
  <2> DEFINE v == FALSE
  <2>1. job' = Job("disconnect", TipBest, Len(Work[TipBest]), v) /\ v \in BOOLEAN
    BY <1>6 DEF DisconnectTip
  <2> HIDE DEF v
  <2> QED
    BY <1>6, <2>1, OpenKeeps DEF DisconnectTip
<1>7. CASE UndoCoins
  BY <1>7, UndoKeeps
<1>8. CASE BlockDisconnected
  BY <1>8, DisconnectedKeeps
<1>9. CASE DisconnectFails
  BY <1>9, DropKeeps DEF DisconnectFails
<1>10. CASE TipDisconnected
  BY <1>10, FlushViewStep DEF TipDisconnected
<1>11. CASE VerifyDB
  <2> DEFINE v == TRUE
  <2>1. job' = Job("disconnect", TipBest, Len(Work[TipBest]), v) /\ v \in BOOLEAN
    BY <1>11 DEF VerifyDB
  <2> HIDE DEF v
  <2> QED
    BY <1>11, <2>1, OpenKeeps DEF VerifyDB
<1>12. CASE VerifyNext
  BY <1>12, VerifyKeeps
<1>13. CASE VerifyEnds
  BY <1>13, DropKeeps DEF VerifyEnds
<1>14. CASE FlushStateToDisk
  BY <1>14, FlushKeeps
<1>15. CASE Read
  BY <1>15, ReadKeeps
<1>16. CASE ReadBest
  BY <1>16, ReadBestKeeps
<1>17. CASE NodeCrash
  BY <1>17, NodeCrashKeeps
<1>18. CASE UNCHANGED vars
  <2>1. UNCHANGED <<db, dbBest, tip, tipBest, open, view, viewBest>>
        /\ UNCHANGED <<job, blockundo, undoFile>>
    BY <1>18 DEF vars, cacheVars
  <2>2. /\ dbBest' = dbBest /\ TipBest' = TipBest
        /\ DbCoins' = DbCoins /\ TipCoins' = TipCoins /\ ViewCoins' = ViewCoins
    BY <2>1 DEF TipBest, DbCoins, TipCoins, ViewCoins
  <2>3. /\ tipBest' \in Blocks \cup {NULL} /\ viewBest' \in Blocks \cup {NULL}
        /\ ~open => viewBest' = NULL
    BY <2>1 DEF BlocksInv, CacheInv, TypeOK, ClosedEmpty
  <2>4. CacheInv'
    BY <2>1, <2>3, BestKeeps DEF BlocksInv
  <2> QED
    BY <2>1, <2>2, <2>4, SilentKeeps
<1> QED
  BY <1>1, <1>2, <1>3, <1>4, <1>5, <1>6, <1>7, <1>8, <1>9, <1>10, <1>11, <1>12, <1>13, <1>14,
     <1>15, <1>16, <1>17, <1>18 DEF BlocksNext

\* The coins of pcoinsTip while no block is being worked on, and those of
\* the database always, are the coins of the blocks up to their best block,
\* but for the mark of a coinstake: whatever ConnectBlock, DisconnectBlock,
\* VerifyDB, a flush or a crash did on the way.
THEOREM CoinsAreOfTheChain == BlocksSpec => []CoinsExact
<1>1. BlocksInit => BlocksInv
  BY BlocksInitial
<1>2. BlocksInv /\ [BlocksNext]_vars => BlocksInv'
  BY BlocksStep
<1>3. BlocksInv => CoinsExact
  <2> SUFFICES ASSUME BlocksInv PROVE CoinsExact
    OBVIOUS
  <2>1. TipCoins \in [Txids -> Coins] /\ DbCoins \in [Txids -> Coins]
    BY CoinsFacts DEF BlocksInv
  <2>2. TipBest \in Blocks /\ dbBest \in Blocks
    BY BestFacts DEF BlocksInv
  <2>3. CoinsAt(TipBest) \in [Txids -> Coins] /\ CoinsAt(dbBest) \in [Txids -> Coins]
    BY <2>2, CoinsAtType
  <2>4. /\ \A t \in Txids : Same(TipCoins[t], CoinsAt(TipBest)[t])
        /\ \A t \in Txids : Same(DbCoins[t], CoinsAt(dbBest)[t])
    BY DEF BlocksInv, AllSameAt
  <2>5. Restored(TipCoins) = Restored(CoinsAt(TipBest))
    BY <2>1, <2>3, <2>4, AllRestored
  <2>6. Restored(DbCoins) = Restored(CoinsAt(dbBest))
    BY <2>1, <2>3, <2>4, AllRestored
  <2> QED
    BY <2>5, <2>6 DEF CoinsExact
<1> QED
  BY <1>1, <1>2, <1>3, PTL DEF BlocksSpec

\* Every step of a block's life is one that the caches allow: the coins that
\* UpdateCoins and DisconnectBlock write are coins, and no view is used
\* after it was flushed or dropped.
LEMMA BlocksStepOnCaches ==
    ASSUME BlocksInv, [BlocksNext]_vars
    PROVE  [Next]_cacheVars
<1>1. CASE ConnectTip \/ DisconnectTip \/ VerifyDB
  BY <1>1 DEF ConnectTip, DisconnectTip, VerifyDB, Next
<1>2. CASE UpdateCoins
  <2>1. \E t \in Txids : \E c \in Coins : Modify(t, c)
    BY <1>2, UpdateKeeps
  <2> QED
    BY <2>1 DEF Next
<1>3. CASE BlockConnected
  <2>1. job.h \in Blocks
    BY DEF BlocksInv, JobOK, Jobs
  <2> QED
    BY <1>3, <2>1 DEF BlockConnected, Next
<1>4. CASE ConnectFails \/ DisconnectFails \/ VerifyEnds
  BY <1>4 DEF ConnectFails, DisconnectFails, VerifyEnds, Next
<1>5. CASE TipConnected \/ TipDisconnected
  BY <1>5 DEF TipConnected, TipDisconnected, Next
<1>6. CASE UndoCoins
  <2>1. \E t \in Txids : \E c \in Coins : Modify(t, c)
    BY <1>6, UndoKeeps
  <2> QED
    BY <2>1 DEF Next
<1>7. CASE BlockDisconnected
  <2>1. job.h - 1 \in Blocks
    <3>1. job.h \in Heights
      BY <1>7 DEF BlockDisconnected, SetBestBlock, BlocksInv, JobOK
    <3> QED
      BY <3>1, BestFacts DEF BlocksInv
  <2> QED
    BY <1>7, <2>1 DEF BlockDisconnected, Next
<1>8. CASE VerifyNext
  BY <1>8 DEF VerifyNext
<1>9. CASE FlushStateToDisk
  BY <1>9 DEF FlushStateToDisk, Next
<1>10. CASE Read
  BY <1>10 DEF Read, Next
<1>11. CASE ReadBest
  BY <1>11 DEF ReadBest, Next
<1>12. CASE NodeCrash
  BY <1>12 DEF NodeCrash, Next
<1>13. CASE UNCHANGED vars
  BY <1>13 DEF vars
<1> QED
  BY <1>1, <1>2, <1>3, <1>4, <1>5, <1>6, <1>7, <1>8, <1>9, <1>10, <1>11, <1>12, <1>13 DEF BlocksNext

\* ConnectBlock, DisconnectBlock and VerifyDB use the caches as the methods of
\* CCoinsViewCache allow, so what is proved of the caches holds under them.
THEOREM BlocksUseCaches == BlocksSpec => Spec
<1>1. BlocksInit => BlocksInv /\ Init
  BY BlocksInitial DEF BlocksInit
<1>2. BlocksInv /\ [BlocksNext]_vars => BlocksInv' /\ [Next]_cacheVars
  BY BlocksStep, BlocksStepOnCaches
<1> QED
  BY <1>1, <1>2, PTL DEF BlocksSpec, Spec

\* Under ConnectBlock, DisconnectBlock, VerifyDB, flushes and crashes nobody
\* can tell that the coins are cached.
THEOREM BlocksSeePlainStore == BlocksSpec => Transparent
BY BlocksUseCaches, CachesTransparent, PTL

\* What a FRESH entry says, what an entry that is not DIRTY repeats, and the
\* assertion of BatchWrite hold on every step of a block's life, a failed
\* one included.
THEOREM BlocksKeepCachesSound ==
    BlocksSpec => [](FreshIsAbsent /\ CleanRepeatsBase /\ BatchWriteAsserts)
BY BlocksUseCaches, FreshCorrect, CleanCorrect, AssertNeverFails, PTL
=============================================================================
