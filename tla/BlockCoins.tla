------------------------------ MODULE BlockCoins ------------------------------
(***************************************************************************)
(* Blocks applied to the coins and taken back (main.cpp: UpdateCoins,      *)
(* ConnectBlock and DisconnectBlock on a CCoinsViewCache, ConnectTip and   *)
(* DisconnectTip around them; coins.cpp: Spend; undo.h), on the caches of  *)
(* CoinsCache.                                                             *)
(*                                                                         *)
(* There is one chain; a block is its height.  Work[h] lists what block h  *)
(* does to the coins: for each transaction the outputs it spends, then     *)
(* itself.  DisconnectBlock goes through the same list backwards.          *)
(***************************************************************************)
EXTENDS CoinsCache, Sequences

CONSTANTS
    Work,         \* Work[h][i] is [tx |-> t, n |-> an output of t] or [tx |-> t, n |-> NULL]
    Vout,         \* the spendable outputs of a transaction
    CoinBases,    \* transactions that are coinbases
    CoinStakes    \* transactions that are coinstakes

VARIABLES
    job,          \* what a thread that holds cs_main is doing, at which entry of Work
    fClean,       \* DisconnectBlock has met no problem
    blockundo,    \* the undo data ConnectBlock has collected so far
    undoFile      \* the undo data on disk

vars == <<cacheVars, job, fClean, blockundo, undoFile>>

Job(kind, h, i, verify) == [kind |-> kind, h |-> h, i |-> i, verify |-> verify]
Idle == Job("idle", 0, 0, FALSE)

\* CCoins, and the metadata an undo record may carry.
Coin(v, base, stake, h) == [vout |-> v, fCoinBase |-> base, fCoinStake |-> stake, nHeight |-> h]
NoMeta == [fCoinBase |-> FALSE, fCoinStake |-> FALSE, nHeight |-> 0]

\* Coins of which no output is left are pruned.
Cleanup(c) == IF c.vout = {} THEN Pruned ELSE c

FromTx(t, h) == Coin(Vout[t], t \in CoinBases, t \in CoinStakes, h)

\* The values of CCoins: all those without an output are the pruned one.
Outputs == UNION {Vout[t] : t \in Txids}

ASSUME CoinAssumption ==
    /\ Pruned = Coin({}, FALSE, FALSE, 0)
    /\ Coins = {c \in [vout : SUBSET Outputs, fCoinBase : BOOLEAN, fCoinStake : BOOLEAN,
                       nHeight : Blocks] : c.vout = {} => c = Pruned}

\* A chain whose transactions have different ids, each output of which is spent
\* at most once and after the transaction it belongs to.
ASSUME WorkAssumption ==
    /\ Genesis = 0 /\ Blocks = 0..Len(Work)
    /\ NULL \notin Outputs
    /\ Work \in Seq(Seq([tx : Txids, n : Outputs \cup {NULL}]))
    /\ \A k, l \in 1..Len(Work) : \A i \in DOMAIN Work[k], j \in DOMAIN Work[l] :
          Work[k][i] = Work[l][j] => k = l /\ i = j
    /\ \A k \in 1..Len(Work) : \A i \in DOMAIN Work[k] :
          LET m == Work[k][i] IN
          m.n # NULL => /\ m.n \in Vout[m.tx]
                        /\ \E l \in 1..k : \E j \in DOMAIN Work[l] :
                              /\ Work[l][j] = [tx |-> m.tx, n |-> NULL]
                              /\ l < k \/ j < i

BlocksInit ==
    /\ Init
    /\ job = Idle
    /\ fClean = TRUE
    /\ blockundo = <<>>
    /\ undoFile = [h \in Blocks |-> <<>>]

-----------------------------------------------------------------------------
(* Connecting. *)

ConnectTip ==
    /\ job = Idle
    /\ TipBest + 1 \in Blocks
    /\ OpenView
    /\ job' = Job("connect", TipBest + 1, 1, FALSE)
    /\ blockundo' = <<>>
    /\ UNCHANGED <<fClean, undoFile>>

\* CCoins::Spend: undo data carries the metadata only when the last output
\* of the transaction is spent.
SpendUndo(c, n) ==
    IF c.vout \ {n} = {}
    THEN [fCoinBase |-> c.fCoinBase, fCoinStake |-> c.fCoinStake, nHeight |-> c.nHeight]
    ELSE NoMeta

\* One ModifyCoins of UpdateCoins.
UpdateCoins ==
    /\ job.kind = "connect"
    /\ job.i <= Len(Work[job.h])
    /\ LET m == Work[job.h][job.i]
           c == ViewCoins[m.tx]
       IN  \/ /\ m.n # NULL
              /\ m.n \in c.vout
              /\ Modify(m.tx, Cleanup([c EXCEPT !.vout = @ \ {m.n}]))
              /\ blockundo' = Append(blockundo, SpendUndo(c, m.n))
           \/ /\ m.n = NULL
              /\ Modify(m.tx, Cleanup(FromTx(m.tx, job.h)))
              /\ blockundo' = Append(blockundo, NoMeta)
    /\ job' = [job EXCEPT !.i = @ + 1]
    /\ UNCHANGED <<fClean, undoFile>>

\* The end of ConnectBlock: the undo data is written unless the index has a
\* position for it, the view has its block.
BlockConnected ==
    /\ job.kind = "connect"
    /\ job.i > Len(Work[job.h])
    /\ SetBestBlock(job.h)
    /\ undoFile' = [undoFile EXCEPT ![job.h] = IF @ = <<>> THEN blockundo ELSE @]
    /\ job' = [job EXCEPT !.kind = "connected"]
    /\ UNCHANGED <<fClean, blockundo>>

\* ConnectBlock refuses the block, whatever it has done to the view, or was
\* called by TestBlockValidity, which throws the view away.
ConnectFails ==
    /\ job.kind \in {"connect", "connected"} /\ ~job.verify
    /\ DropView
    /\ job' = Idle
    /\ UNCHANGED <<fClean, blockundo, undoFile>>

TipConnected ==
    /\ job.kind = "connected" /\ ~job.verify
    /\ FlushView
    /\ job' = Idle
    /\ UNCHANGED <<fClean, blockundo, undoFile>>

-----------------------------------------------------------------------------
(* Disconnecting. *)

DisconnectTip ==
    /\ job = Idle
    /\ TipBest # Genesis
    /\ OpenView
    /\ job' = Job("disconnect", TipBest, Len(Work[TipBest]), FALSE)
    /\ fClean' = TRUE
    /\ UNCHANGED <<blockundo, undoFile>>

\* Mutant: fCoinBase is not restored either.
RestoreNoCoinBase(c, n, undo) ==
    IF undo.nHeight # 0
    THEN Coin({n}, FALSE, FALSE, undo.nHeight)
    ELSE [c EXCEPT !.vout = @ \cup {n}]

\* The coins of a transaction after an output that was spent comes back.
Restore(c, n, undo) ==
    IF undo.nHeight # 0
    THEN Coin({n}, undo.fCoinBase, FALSE, undo.nHeight)
    ELSE [c EXCEPT !.vout = @ \cup {n}]

\* One ModifyCoins of DisconnectBlock: the outputs of a transaction are
\* compared and removed, or an output it spent is restored.
UndoCoins ==
    /\ job.kind = "disconnect"
    /\ job.i >= 1
    /\ LET m == Work[job.h][job.i]
           c == ViewCoins[m.tx]
           undo == undoFile[job.h][job.i]
       IN  \/ /\ m.n = NULL
              /\ fClean' = (fClean /\ c = Cleanup(FromTx(m.tx, job.h)))
              /\ Modify(m.tx, Pruned)
           \/ /\ m.n # NULL
              /\ fClean' = (fClean /\ m.n \notin c.vout /\ (c = Pruned <=> undo.nHeight # 0))
              /\ Modify(m.tx, Restore(c, m.n, undo))
    /\ job' = [job EXCEPT !.i = @ - 1]
    /\ UNCHANGED <<blockundo, undoFile>>

BlockDisconnected ==
    /\ job.kind = "disconnect"
    /\ job.i = 0
    /\ SetBestBlock(job.h - 1)
    /\ job' = [job EXCEPT !.kind = "disconnected"]
    /\ UNCHANGED <<fClean, blockundo, undoFile>>

\* DisconnectBlock has returned false: DisconnectTip fails.
DisconnectFails ==
    /\ job.kind = "disconnected" /\ ~job.verify
    /\ ~fClean
    /\ DropView
    /\ job' = Idle
    /\ UNCHANGED <<fClean, blockundo, undoFile>>

\* DisconnectTip goes on to FlushStateToDisk(FLUSH_STATE_ALWAYS).
TipDisconnected ==
    /\ job.kind = "disconnected" /\ ~job.verify
    /\ fClean
    /\ FlushView
    /\ job' = [job EXCEPT !.kind = "flush"]
    /\ UNCHANGED <<fClean, blockundo, undoFile>>

\* VerifyDB: the blocks from the tip down are disconnected in one view, and
\* at the highest level connected in it again; then the view is dropped.
VerifyDB ==
    /\ job = Idle
    /\ TipBest # Genesis
    /\ OpenView
    /\ job' = Job("disconnect", TipBest, Len(Work[TipBest]), TRUE)
    /\ fClean' = TRUE
    /\ UNCHANGED <<blockundo, undoFile>>

VerifyNext ==
    /\ job.verify
    /\ \/ /\ job.kind = "disconnected"
          /\ job.h - 1 # Genesis
          /\ job' = Job("disconnect", job.h - 1, Len(Work[job.h - 1]), TRUE)
       \/ /\ job.kind = "disconnected"
          /\ fClean
          /\ job' = Job("connect", job.h, 1, TRUE)
       \/ /\ job.kind = "connected"
          /\ job.h # TipBest
          /\ job' = Job("connect", job.h + 1, 1, TRUE)
    /\ blockundo' = <<>>
    /\ UNCHANGED <<cacheVars, fClean, undoFile>>

VerifyEnds ==
    /\ job.verify
    /\ job.kind \in {"disconnected", "connect", "connected"}
    /\ DropView
    /\ job' = Idle
    /\ UNCHANGED <<fClean, blockundo, undoFile>>

FlushStateToDisk ==
    /\ job.kind \in {"idle", "flush"}
    /\ FlushTip
    /\ job' = Idle
    /\ UNCHANGED <<fClean, blockundo, undoFile>>

\* A thread that waits for nobody reads the coins of pcoinsTip, or of the view.
Read ==
    /\ \E t \in Txids : \/ job = Idle /\ ReadTip(t)
                        \/ job.kind = "connect" /\ ReadView(t)
    /\ UNCHANGED <<job, fClean, blockundo, undoFile>>

ReadBest ==
    /\ GetBestBlock
    /\ UNCHANGED <<job, fClean, blockundo, undoFile>>

\* Undo positions of blocks above the durable best block may not be in the
\* index yet.
NodeCrash ==
    /\ Crash
    /\ job' = Idle
    /\ fClean' = TRUE
    /\ blockundo' = <<>>
    /\ \E kept \in Blocks :
          undoFile' = [h \in Blocks |-> IF h <= dbBest \/ h <= kept THEN undoFile[h] ELSE <<>>]

BlocksNext ==
    \/ ConnectTip \/ UpdateCoins \/ BlockConnected \/ ConnectFails \/ TipConnected
    \/ DisconnectTip \/ UndoCoins \/ BlockDisconnected \/ DisconnectFails \/ TipDisconnected
    \/ VerifyDB \/ VerifyNext \/ VerifyEnds \/ FlushStateToDisk \/ Read \/ ReadBest \/ NodeCrash

BlocksSpec == BlocksInit /\ [][BlocksNext]_vars

-----------------------------------------------------------------------------
(* Properties. *)

\* The coins of the chain up to height h, from the blocks alone.
Created(t, h) == {k \in 1..h : \E i \in DOMAIN Work[k] : Work[k][i] = [tx |-> t, n |-> NULL]}
Spent(t, h) == {n \in Vout[t] : \E k \in 1..h : \E i \in DOMAIN Work[k] :
                                 Work[k][i] = [tx |-> t, n |-> n]}
CoinsAt(h) ==
    [t \in Txids |-> IF Created(t, h) = {} THEN Pruned
                     ELSE LET c == FromTx(t, CHOOSE k \in Created(t, h) : TRUE)
                          IN  Cleanup([c EXCEPT !.vout = @ \ Spent(t, h)])]

\* The fields that DisconnectBlock restores.
Restored(coins) == [t \in Txids |-> [coins[t] EXCEPT !.fCoinStake = FALSE]]

\* The coins of pcoinsTip and those on disk are those of the chain up to
\* the best block of each (but for the mark of a coinstake), whatever was
\* connected, undone, verified, flushed or lost on the way.
CoinsExact ==
    /\ job = Idle => Restored(TipCoins) = Restored(CoinsAt(TipBest))
    /\ Restored(DbCoins) = Restored(CoinsAt(dbBest))

\* DisconnectBlock finds the coins of a block as ConnectBlock left them, and
\* does not refuse to "undo the effects of this block".
UndoClean == fClean
=============================================================================
