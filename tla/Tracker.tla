------------------------------ MODULE Tracker ------------------------------
(***************************************************************************)
(* The live account: Tracker over AccountState, its Position, PortfolioState*)
(* TradeRecorder and RiskManager.  The fills of the order manager and the  *)
(* bars of the engine drive it; at startup the broker's position and cash  *)
(* are copied in.  Money is counted in ticks times Multiplier; prices are  *)
(* whole ticks.                                                            *)
(***************************************************************************)
EXTENDS Positions

CONSTANTS
    Prices,      \* prices of fills and bar closes
    Multiplier,  \* contract_multiplier
    Rate,        \* commission of one contract per tick of its price
    Capital,     \* cash at the start
    NoTrade,     \* _current_trade is None
    MaxPos,      \* bound: contracts held
    MaxFills     \* bound: fills handled

\* An open trade: contracts, commission, and what its partial closes realized.
TradeRecord == [qty : Nat, commission : Int, gross : Int, exitCommission : Int, closed : Nat]

ASSUME TrackerAssumption ==
    /\ Prices \subseteq Nat
    /\ Multiplier \in Nat /\ Rate \in Nat /\ Capital \in Nat
    /\ MaxPos \in Nat /\ MaxFills \in Nat
    /\ NoTrade \notin TradeRecord

VARIABLES
    synced,    \* the startup reconciliation is over
    pos,       \* position, signed
    entry,     \* position.entry_price
    upnl,      \* position.unrealized_pnl
    cash,      \* portfolio.cash
    equity,    \* portfolio.equity
    trade,     \* _current_trade, with what partial closes put in its metadata
    daily,     \* risk_manager._daily_pnl
    fills,     \* fills handled so far (bounded by MaxFills)
    base,      \* history: cash when trading began
    realized,  \* history: sum of the pnl of closed trades
    today,     \* history: the same for trades closed since the day began
    held,      \* history: contracts ever bought into the open trade
    last       \* history: the trade closed last, and its held

account == <<pos, entry, upnl, cash, equity, trade, daily>>
history == <<base, realized, today, held, last>>
vars == <<synced, account, fills, history>>

Fresh(q, commission) ==
    [qty |-> q, commission |-> commission, gross |-> 0, exitCommission |-> 0, closed |-> 0]

TInit ==
    /\ synced = FALSE
    /\ pos = 0 /\ entry = 0 /\ upnl = 0
    /\ cash = Capital /\ equity = Capital
    /\ trade = NoTrade
    /\ daily = 0
    /\ fills = 0
    /\ base = Capital /\ realized = 0 /\ today = 0 /\ held = 0
    /\ last = NoTrade

Commission(price, q) == price * q * Rate * Multiplier
Gain(p, from, to) == (to - from) * p * Multiplier

-----------------------------------------------------------------------------
(* Startup.                                                                *)

\* reconcile_position: sync_position marks the position at the broker's
\* current price, or not at all.
SyncPosition(p, price, current) ==
    /\ ~synced
    /\ pos = 0 /\ p # 0
    /\ pos' = p
    /\ entry' = price
    /\ upnl' = IF current = NoTrade THEN 0 ELSE Gain(p, price, current)
    /\ trade' = Fresh(Magnitude(p), 0)
    /\ held' = Magnitude(p)
    /\ UNCHANGED <<synced, cash, equity, daily, fills, base, realized, today, last>>

\* reconcile_cash: sync_cash takes the broker's cash, equity follows.
SyncCash(c) ==
    /\ ~synced
    /\ synced' = TRUE
    /\ cash' = c
    /\ equity' = c + upnl
    /\ base' = c
    /\ UNCHANGED <<pos, entry, upnl, trade, daily, fills, realized, today, held, last>>

-----------------------------------------------------------------------------
(* Fills.                                                                  *)

MoreFills == synced /\ fills < MaxFills /\ fills' = fills + 1

\* record_open on a flat account.
OpenTrade(s, q, price) ==
    /\ MoreFills
    /\ pos = 0
    /\ q <= MaxPos
    /\ pos' = RecordOpen(pos, s, q)
    /\ entry' = price
    /\ upnl' = 0
    /\ cash' = cash - Commission(price, q)
    /\ trade' = Fresh(q, Commission(price, q))
    /\ held' = q
    /\ UNCHANGED <<synced, equity, daily, base, realized, today, last>>

\* Total price of the contracts held after a scale-in; only whole averages
\* are modelled.  Neither equity nor the unrealized P&L is touched.
Cost(q, price) == entry * Magnitude(pos) + price * q

\* Mutant: the commission is charged but not added to the trade's.
EnlargedFree(t, n, commission) == [t EXCEPT !.qty = n]
Enlarged(t, n, commission) == [t EXCEPT !.qty = n, !.commission = @ + commission]

\* record_open on the same side.
ScaleIn(s, q, price) ==
    /\ MoreFills
    /\ pos # 0 /\ Opens(pos, s)
    /\ Magnitude(pos) + q <= MaxPos
    /\ Cost(q, price) % (Magnitude(pos) + q) = 0
    /\ pos' = RecordOpen(pos, s, q)
    /\ entry' = Cost(q, price) \div (Magnitude(pos) + q)
    /\ cash' = cash - Commission(price, q)
    /\ trade' = Enlarged(trade, Magnitude(pos) + q, Commission(price, q))
    /\ held' = held + q
    /\ UNCHANGED <<synced, upnl, equity, daily, base, realized, today, last>>

\* What a partial close adds to the trade's metadata.
\* Mutant: the closed quantity is replaced.
BankOverwrites(t, k, price) ==
    [t EXCEPT !.gross = @ + Gain(IF pos > 0 THEN k ELSE -k, entry, price),
              !.exitCommission = @ + Commission(price, k),
              !.closed = k]
Bank(t, k, price) ==
    [t EXCEPT !.gross = @ + Gain(IF pos > 0 THEN k ELSE -k, entry, price),
              !.exitCommission = @ + Commission(price, k),
              !.closed = @ + k]

\* record_close of part of the position: realized at once, the trade stays
\* open, and equity is recomputed from the unrealized P&L of the last bar.
CloseInPart(k, price) ==
    /\ MoreFills
    /\ k < Magnitude(pos)
    /\ pos' = RecordClose(pos, k)
    /\ cash' = cash - Commission(price, k) + Gain(IF pos > 0 THEN k ELSE -k, entry, price)
    /\ trade' = Bank(trade, k, price)
    /\ equity' = cash' + upnl
    /\ UNCHANGED <<synced, entry, upnl, daily, history>>

\* The trade as record_close returns it: close_position settles the rest of
\* the position, then the parts realized before are added.
SettledTrade(price) ==
    [qty |-> IF trade.gross # 0 \/ trade.exitCommission # 0
             THEN trade.qty + trade.closed ELSE trade.qty,
     held |-> held,
     pnl |-> Gain(pos, entry, price) + trade.gross
             - trade.commission - Commission(price, Magnitude(pos)) - trade.exitCommission]

\* What the close adds to the daily P&L: the rest's pnl from close_position,
\* then the difference the parts make.  Mutant: the first alone.
RestOnly(price) ==
    Gain(pos, entry, price) - trade.commission - Commission(price, Magnitude(pos))
DailyGain(price) ==
    LET rest == Gain(pos, entry, price) - trade.commission - Commission(price, Magnitude(pos))
    IN  IF trade.gross # 0 \/ trade.exitCommission # 0
        THEN rest + (SettledTrade(price).pnl - rest) ELSE rest

\* record_close of the whole position; equity waits for the next bar.
CloseInFull(price) ==
    /\ MoreFills
    /\ pos # 0
    /\ cash' = cash - Commission(price, Magnitude(pos)) + Gain(pos, entry, price)
    /\ daily' = daily + DailyGain(price)
    /\ realized' = realized + SettledTrade(price).pnl
    /\ today' = today + SettledTrade(price).pnl
    /\ last' = SettledTrade(price)
    /\ trade' = NoTrade
    /\ pos' = 0 /\ entry' = 0 /\ upnl' = 0
    /\ held' = 0
    /\ UNCHANGED <<synced, equity, base>>

-----------------------------------------------------------------------------
\* BarHandler: update_unrealized, then update_daily.
Bar(close, newDay) ==
    /\ synced
    /\ upnl' = Gain(pos, entry, close)
    /\ equity' = cash + upnl'
    /\ daily' = IF newDay THEN 0 ELSE daily
    /\ today' = IF newDay THEN 0 ELSE today
    /\ UNCHANGED <<synced, pos, entry, cash, trade, fills, base, realized, held, last>>

Sync ==
    \/ \E p \in -MaxPos..MaxPos, price \in Prices, current \in Prices \cup {NoTrade} :
           SyncPosition(p, price, current)
    \/ \E c \in {Capital, 2 * Capital} : SyncCash(c)

Fill ==
    \/ \E s \in Side, q \in 1..MaxPos, price \in Prices :
           OpenTrade(s, q, price) \/ ScaleIn(s, q, price)
    \/ \E k \in 1..MaxPos, price \in Prices : CloseInPart(k, price)
    \/ \E price \in Prices : CloseInFull(price)

TNext == Sync \/ Fill \/ \E close \in Prices, newDay \in BOOLEAN : Bar(close, newDay)

TSpec == TInit /\ [][TNext]_vars
-----------------------------------------------------------------------------
(* Properties.                                                             *)

\* Every unit of cash is accounted for: what trading began with, the pnl of
\* the trades closed since, and of the open trade the commissions paid and
\* the parts already realized.
CashExplained ==
    synced => cash = base + realized +
        (IF trade = NoTrade THEN 0
         ELSE trade.gross - trade.commission - trade.exitCommission)

\* The open trade and the position describe the same contracts: those bought
\* into the trade, less those its partial closes sold.
TradeHoldsPosition ==
    IF trade = NoTrade THEN pos = 0
    ELSE pos # 0 /\ Magnitude(pos) = held - trade.closed

\* The daily P&L that stops new entries is the net result of the trades closed
\* today, partial closes included, once each.
DailyRight == synced => daily = today
=============================================================================
