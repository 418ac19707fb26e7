------------------------------ MODULE CostEngine ------------------------------
(***************************************************************************)
(* The AI budget of one company: its wallets (company, departments,        *)
(* people, objectives, agents), the reservations held against them, the    *)
(* immutable ledger, and the transactions that move money.                 *)
(*                                                                         *)
(* A transaction is a session that takes row locks one at a time (SELECT   *)
(* ... FOR UPDATE), keeps what it read under each lock, and then commits   *)
(* in one step; it may abort at any moment, leaving nothing.  The reset    *)
(* runner is the exception: it reads without locking and takes its lock by *)
(* the first UPDATE.  The ledger is kept as what replayLedger makes of it. *)
(***************************************************************************)
EXTENDS Integers, Sequences, FiniteSets, SequencesExt

CONSTANTS Wallets, Company,
          Level,           \* BUDGET_SCOPE_ORDER of each wallet's scope
          Paths,           \* sets of wallets a spend may have to satisfy
          Reservations, Sessions, NoReservation,
          Estimates, Actuals, Allowances, Deltas,   \* amounts, in minor units
          Opening,         \* monthlyAllowanceMinor of the provisioned policy
          HardStopPercent,
          Work,            \* which operations the sessions perform
          MaxChanges, LastPeriod   \* bounds of the model

ASSUME CostAssumption ==
  /\ IsFiniteSet(Wallets) /\ Company \in Wallets
  /\ Level \in [Wallets -> 0..4] /\ \A w \in Wallets \ {Company} : Level[w] > Level[Company]
  /\ \A path \in Paths : path \subseteq Wallets /\ Company \in path
  /\ NoReservation \notin Reservations
  /\ Estimates \subseteq Nat /\ Actuals \subseteq Nat /\ Allowances \subseteq Nat
  /\ Deltas \subseteq Int /\ Opening \in Nat /\ HardStopPercent \in Nat \ {0}
  /\ Work \subseteq {"open", "reserve", "settle", "release", "sweep", "set", "adjust", "reset"}
  /\ MaxChanges \in Nat /\ LastPeriod \in Nat

VARIABLES wallet,      \* budget_wallets
          ledger,      \* cost_ledger_entries of each wallet, replayed
          renewal,     \* recurring_grant_minor and resets_at of each wallet
          reservation, \* budget_reservations and their holds
          session,     \* what each session is doing
          now,         \* periods that have ended
          changes      \* allowance changes asked for so far

vars == << wallet, ledger, renewal, reservation, session, now, changes >>

-----------------------------------------------------------------------------
(* A wallet's arithmetic.                                                  *)

Balance == [allowance : Int, used : Int, reserved : Int]
ZeroBalance == [allowance |-> 0, used |-> 0, reserved |-> 0]

Wallet == [exists : BOOLEAN, allowance : Nat, used : Nat, reserved : Nat]
NoWallet == [exists |-> FALSE, allowance |-> 0, used |-> 0, reserved |-> 0]

Committed(w) == w.used + w.reserved
Remaining(w) == w.allowance - Committed(w)
Ceiling(allowance) == (allowance * HardStopPercent) \div 100

\* Mutant: what is held by others is not counted.
HardStoppedBySpendOnly(w, estimate) == w.used + estimate > Ceiling(w.allowance)

\* decideLevel refuses strictly past the ceiling.
HardStopped(w, estimate) == Committed(w) + estimate > Ceiling(w.allowance)

\* applyLedgerEntry, for the kinds the code appends.
Apply(balance, kind, amount) ==
  CASE kind \in {"TopUp", "Adjustment", "Reallocation"}
                               -> [balance EXCEPT !.allowance = @ + amount]
    [] kind = "Expiry"         -> [balance EXCEPT !.allowance = @ - amount]
    [] kind = "Reserve"        -> [balance EXCEPT !.reserved = @ + amount]
    [] kind = "ReleaseReserve" -> [balance EXCEPT !.reserved = @ - amount]
    [] kind = "Settle"         -> [balance EXCEPT !.used = @ + amount]

-----------------------------------------------------------------------------
Closed == {"Settled", "Released", "Expired"}

Reservation == [state : {"none", "Held"} \union Closed, estimate : Nat, settled : Nat,
                holds : SUBSET Wallets, old : BOOLEAN]
NotReserved == [state |-> "none", estimate |-> 0, settled |-> 0, holds |-> {}, old |-> FALSE]

\* grant 0 is a cadence of None; at is the period whose end the reset waits for.
Renewal == [grant : Nat, at : Nat]
NoRenewal == [grant |-> 0, at |-> 0]

Closing == {"settle", "release", "expire"}
Renewing == {"dueRead", "dueReread", "renewing"}
Doing == {"idle", "reserve", "sweep", "set", "adjust"} \union Closing \union Renewing

Session == [doing : Doing, res : Reservations \union {NoReservation}, path : SUBSET Wallets,
            of : Wallets, todo : Seq(Wallets), held : SUBSET Wallets, seen : [Wallets -> Wallet],
            amount : Int, recurs : BOOLEAN, rest : SUBSET Reservations,
            left : Nat, at : Nat, until : Nat, entries : Int]
IdleSession ==
  [doing |-> "idle", res |-> NoReservation, path |-> {}, of |-> Company,
   todo |-> << >>, held |-> {},
   seen |-> [w \in Wallets |-> NoWallet], amount |-> 0, recurs |-> FALSE, rest |-> {},
   left |-> 0, at |-> 0, until |-> 0, entries |-> 0]

TypeOK ==
  /\ wallet \in [Wallets -> Wallet]
  /\ ledger \in [Wallets -> Balance]
  /\ renewal \in [Wallets -> Renewal]
  /\ reservation \in [Reservations -> Reservation]
  /\ session \in [Sessions -> Session]
  /\ now \in 0..LastPeriod /\ changes \in 0..MaxChanges

Is(s, doing) == session[s].doing = doing
Free(w) == \A s \in Sessions : w \notin session[s].held

Init ==
  /\ wallet = [w \in Wallets |-> NoWallet]
  /\ ledger = [w \in Wallets |-> ZeroBalance]
  /\ renewal = [w \in Wallets |-> NoRenewal]
  /\ reservation = [r \in Reservations |-> NotReserved]
  /\ session = [s \in Sessions |-> IdleSession]
  /\ now = 0 /\ changes = 0

-----------------------------------------------------------------------------
(* Locks.                                                                  *)

\* Mutant: in whatever order one query over all levels returns them.
LockOrdersOfOneQuery(path) == SetToSeqs(path)

\* scopesToCheck: outermost first.
LockOrders(path) ==
  {order \in SetToSeqs(path) :
     \A i, j \in DOMAIN order : i < j => Level[order[i]] < Level[order[j]]}

\* The holds of a reservation come back in no order.
HoldOrders(holds) == SetToSeqs(holds)

\* Mutant: a plain SELECT, which waits for nobody.
MayLockAtOnce(w) == TRUE

\* FOR UPDATE waits for the row.  A wallet that does not exist is not locked; it is
\* found missing.
MayLock(w) == wallet[w].exists => Free(w)

LockNext(s) ==
  /\ session[s].todo # << >>
  /\ LET w == Head(session[s].todo)
     IN  /\ MayLock(w)
         /\ session' = [session EXCEPT
              ![s].todo = Tail(@),
              ![s].seen[w] = wallet[w],
              ![s].held = IF wallet[w].exists THEN @ \union {w} ELSE @]
  /\ UNCHANGED << wallet, ledger, renewal, reservation, now, changes >>

Ready(s, doing) == Is(s, doing) /\ session[s].todo = << >>

\* The levels a transaction writes to: lockWallet creates the company's wallet, and
\* lockOrCreateWallet any other.
Written(s) ==
  {w \in session[s].path :
     session[s].seen[w].exists \/ w = Company \/ session[s].doing \in {"set", "adjust"}}

\* A wallet it found missing, and so inserts, has been inserted by somebody else: a
\* unique index refuses the second row.
Clashes(s) == \E w \in Written(s) : wallet[w].exists /\ ~session[s].seen[w].exists

Ends(s) == session' = [session EXCEPT ![s] = IdleSession]

\* A crash, a lost connection, the five seconds of an interactive transaction, a
\* deadlock that PostgreSQL breaks, a refused adjustment, a lost race for an index.
Abort(s) ==
  /\ ~Is(s, "idle")
  /\ Ends(s)
  /\ UNCHANGED << wallet, ledger, renewal, reservation, now, changes >>

-----------------------------------------------------------------------------
(* reserve.                                                                *)

BeginReserve(s, r, path, estimate) ==
  /\ "reserve" \in Work /\ Is(s, "idle")
  /\ reservation[r].state = "none" /\ \A t \in Sessions : session[t].res # r
  /\ \E order \in LockOrders(path) :
       session' = [session EXCEPT ![s] =
         [IdleSession EXCEPT !.doing = "reserve", !.res = r, !.path = path,
                             !.todo = order, !.amount = estimate]]
  /\ UNCHANGED << wallet, ledger, renewal, reservation, now, changes >>

\* The decision is made on what was read under the locks.
Affordable(s) ==
  \A w \in Written(s) : ~HardStopped(session[s].seen[w], session[s].amount)

Hold(s) ==
  /\ Ready(s, "reserve") /\ ~Clashes(s) /\ Affordable(s)
  /\ LET e == session[s].amount
     IN  /\ wallet' = [w \in Wallets |->
              IF w \in Written(s)
              THEN [wallet[w] EXCEPT !.exists = TRUE, !.reserved = @ + e] ELSE wallet[w]]
         /\ ledger' = [w \in Wallets |->
              IF w \in Written(s) THEN Apply(ledger[w], "Reserve", e) ELSE ledger[w]]
         /\ reservation' = [reservation EXCEPT ![session[s].res] =
              [NotReserved EXCEPT !.state = "Held", !.estimate = e, !.holds = Written(s)]]
  /\ Ends(s)
  /\ UNCHANGED << renewal, now, changes >>

\* Hard-stopped; a company wallet it created stays.
Refuse(s) ==
  /\ Ready(s, "reserve") /\ ~Clashes(s) /\ ~Affordable(s)
  /\ wallet' = [wallet EXCEPT ![Company].exists = TRUE]
  /\ Ends(s)
  /\ UNCHANGED << ledger, renewal, reservation, now, changes >>

-----------------------------------------------------------------------------
(* settle, release and the sweep of abandoned reservations.                *)

\* Mutant: the reservation is read without its lock.
MayCloseUnlocked(r) == reservation[r].state = "Held"

\* lockReservation, and the test of the state under it.
MayClose(r) ==
  /\ reservation[r].state = "Held"
  /\ \A s \in Sessions : session[s].doing \in Closing => session[s].res # r

BeginClose(s, r, how, actual, rest) ==
  /\ MayClose(r)
  /\ \E order \in HoldOrders(reservation[r].holds) :
       session' = [session EXCEPT ![s] =
         [IdleSession EXCEPT !.doing = how, !.res = r, !.path = reservation[r].holds,
                             !.todo = order, !.amount = actual, !.rest = rest]]
  /\ UNCHANGED << wallet, ledger, renewal, reservation, now, changes >>

BeginSettle(s, r, actual) ==
  "settle" \in Work /\ Is(s, "idle") /\ BeginClose(s, r, "settle", actual, {})

BeginRelease(s, r) ==
  "release" \in Work /\ Is(s, "idle") /\ BeginClose(s, r, "release", 0, {})

\* What the CHECK wallet_amounts_are_sane accepts.
CoversItsHolds(r) ==
  \A w \in reservation[r].holds : wallet[w].reserved >= reservation[r].estimate

Settle(s) ==
  /\ Ready(s, "settle")
  /\ LET r == session[s].res
         actual == session[s].amount
         e == reservation[r].estimate
     IN  /\ CoversItsHolds(r)
         /\ wallet' = [w \in Wallets |->
              IF w \in reservation[r].holds
              THEN [wallet[w] EXCEPT !.reserved = @ - e, !.used = @ + actual] ELSE wallet[w]]
         /\ ledger' = [w \in Wallets |->
              IF w \in reservation[r].holds
              THEN Apply(Apply(ledger[w], "ReleaseReserve", e), "Settle", actual) ELSE ledger[w]]
         /\ reservation' = [reservation EXCEPT ![r].state = "Settled", ![r].settled = actual]
  /\ Ends(s)
  /\ UNCHANGED << renewal, now, changes >>

\* Mutant: a release gives back the company's hold only.
ReleasedFromCompany(r) == reservation[r].holds \intersect {Company}

ReleasedFrom(r) == reservation[r].holds

\* By hand, or as Expired by the sweep, which then goes on to the next one.
Release(s) ==
  /\ Ready(s, "release") \/ Ready(s, "expire")
  /\ LET r == session[s].res
         e == reservation[r].estimate
     IN  /\ CoversItsHolds(r)
         /\ wallet' = [w \in Wallets |->
              IF w \in ReleasedFrom(r) THEN [wallet[w] EXCEPT !.reserved = @ - e] ELSE wallet[w]]
         /\ ledger' = [w \in Wallets |->
              IF w \in ReleasedFrom(r) THEN Apply(ledger[w], "ReleaseReserve", e) ELSE ledger[w]]
         /\ reservation' = [reservation EXCEPT
              ![r].state = IF Is(s, "expire") THEN "Expired" ELSE "Released"]
  /\ session' = [session EXCEPT ![s] =
       [IdleSession EXCEPT !.rest = session[s].rest,
                           !.doing = IF session[s].rest = {} THEN "idle" ELSE "sweep"]]
  /\ UNCHANGED << renewal, now, changes >>

\* One query lists what has been held for an hour, and each is then released in a
\* transaction of its own.
BeginSweep(s) ==
  /\ "sweep" \in Work /\ Is(s, "idle")
  /\ LET abandoned == {r \in Reservations : reservation[r].state = "Held" /\ reservation[r].old}
     IN  /\ abandoned # {}
         /\ session' = [session EXCEPT ![s] =
              [IdleSession EXCEPT !.doing = "sweep", !.rest = abandoned]]
  /\ UNCHANGED << wallet, ledger, renewal, reservation, now, changes >>

\* One that was closed in the meantime is refused, which ends the whole sweep.
ExpireNext(s) ==
  /\ Is(s, "sweep")
  /\ \E r \in session[s].rest :
       \/ BeginClose(s, r, "expire", 0, session[s].rest \ {r})
       \/ /\ reservation[r].state # "Held"
          /\ Ends(s)
          /\ UNCHANGED << wallet, ledger, renewal, reservation, now, changes >>

-----------------------------------------------------------------------------
(* Allowances: companyWallet, setAllowance and adjustAllowance.            *)

\* companyWallet: the opening balance is a ledger entry like any other.
OpenCompanyWallet ==
  /\ "open" \in Work /\ ~wallet[Company].exists
  /\ wallet' = [wallet EXCEPT ![Company] = [NoWallet EXCEPT !.exists = TRUE, !.allowance = Opening]]
  /\ ledger' = [ledger EXCEPT ![Company] = Apply(@, "TopUp", Opening)]
  /\ UNCHANGED << renewal, reservation, session, now, changes >>

BeginChange(s, doing, path, w, amount, recurs) ==
  /\ Is(s, "idle")
  /\ changes < MaxChanges /\ changes' = changes + 1
  /\ \E order \in LockOrders(path) :
       session' = [session EXCEPT ![s] =
         [IdleSession EXCEPT !.doing = doing, !.path = path, !.of = w, !.todo = order,
                             !.amount = amount, !.recurs = recurs]]
  /\ UNCHANGED << wallet, ledger, renewal, reservation, now >>

BeginSet(s, w, amount, recurs) ==
  /\ "set" \in Work /\ ~(recurs /\ amount = 0)
  /\ BeginChange(s, "set", {Company, w}, w, amount, recurs)

BeginAdjust(s, w, delta) ==
  /\ "adjust" \in Work /\ delta # 0
  /\ BeginChange(s, "adjust", {w}, w, delta, FALSE)

\* Mutant: an allowance below zero is written.
AcceptsAny(allowance) == TRUE

\* Refused rather than clamped.
Accepts(allowance) == allowance >= 0

\* Both write the allowance they worked out, not an increment.
WriteAllowance(s, allowance) ==
  /\ ~Clashes(s) /\ Accepts(allowance)
  /\ LET w == session[s].of
         moved == allowance - session[s].seen[w].allowance
     IN  /\ wallet' = [v \in Wallets |->
              IF v = w THEN [wallet[v] EXCEPT !.exists = TRUE, !.allowance = allowance]
              ELSE [wallet[v] EXCEPT !.exists = @ \/ v \in Written(s)]]
         /\ ledger' = [ledger EXCEPT ![w] = Apply(@, "Adjustment", moved)]
  /\ Ends(s)
  /\ UNCHANGED << reservation, now, changes >>

Set(s) ==
  /\ Ready(s, "set")
  /\ WriteAllowance(s, session[s].amount)
  /\ renewal' = [renewal EXCEPT ![session[s].of] =
       IF session[s].recurs THEN [grant |-> session[s].amount, at |-> now + 1] ELSE NoRenewal]

Adjust(s) ==
  /\ Ready(s, "adjust")
  /\ WriteAllowance(s, session[s].seen[session[s].of].allowance + session[s].amount)
  /\ UNCHANGED renewal

-----------------------------------------------------------------------------
(* The reset runner: resetOne and recordPeriodMovement.                    *)

\* Mutant: a period that is caught up does not let the one before it lapse.
LeftOverNothing(w) == 0

LeftOver(w) == IF Remaining(w) > 0 THEN Remaining(w) ELSE 0

\* The wallet is read without a lock, and what was left over worked out.
BeginReset(s, w) ==
  /\ "reset" \in Work /\ Is(s, "idle")
  /\ renewal[w].grant > 0 /\ renewal[w].at <= now
  /\ session' = [session EXCEPT ![s] =
       [IdleSession EXCEPT !.doing = "dueRead", !.of = w, !.amount = renewal[w].grant,
                           !.left = LeftOver(wallet[w]), !.at = renewal[w].at, !.until = now]]
  /\ UNCHANGED << wallet, ledger, renewal, reservation, now, changes >>

\* recordPeriodMovement reads it again, still without a lock.
ReadToReset(s) ==
  /\ Is(s, "dueRead")
  /\ session' = [session EXCEPT ![s].doing = "dueReread",
                                ![s].seen[session[s].of] = wallet[session[s].of]]
  /\ UNCHANGED << wallet, ledger, renewal, reservation, now, changes >>

Lapsed(allowance, left) == IF allowance > left THEN allowance - left ELSE 0

\* Mutant: nobody asks whether another runner was first.
StillDueUnchecked(s) == TRUE

\* The advance finds no row when the boundary is no longer the one that was read; that
\* throws and rolls the movements back.
StillDue(s) == renewal[session[s].of].at = session[s].at

\* The first UPDATE takes the row lock.  Expiry of what was left, grant, advance.
FirstPeriod(s) ==
  /\ Is(s, "dueReread") /\ Free(session[s].of) /\ StillDue(s)
  /\ LET w == session[s].of
         left == session[s].left
         seen == session[s].seen[w]
         grant == session[s].amount
     IN  session' = [session EXCEPT
           ![s].doing = "renewing", ![s].held = {w}, ![s].at = @ + 1,
           ![s].seen[w] = [wallet[w] EXCEPT !.allowance = Lapsed(seen.allowance, left) + grant],
           ![s].entries = grant - left]
  /\ UNCHANGED << wallet, ledger, renewal, reservation, now, changes >>

\* A wallet that is several periods behind is taken through them one by one.
NextPeriod(s) ==
  /\ Is(s, "renewing") /\ session[s].at <= session[s].until
  /\ LET w == session[s].of
         moved == session[s].amount - LeftOver(session[s].seen[w])
     IN  session' = [session EXCEPT ![s].at = @ + 1, ![s].entries = @ + moved,
                                    ![s].seen[w].allowance = @ + moved]
  /\ UNCHANGED << wallet, ledger, renewal, reservation, now, changes >>

Renew(s) ==
  /\ Is(s, "renewing") /\ session[s].at > session[s].until
  /\ LET w == session[s].of
     IN  /\ wallet' = [wallet EXCEPT ![w].allowance = session[s].seen[w].allowance]
         /\ ledger' = [ledger EXCEPT ![w] = Apply(@, "Adjustment", session[s].entries)]
         /\ renewal' = [renewal EXCEPT ![w].at = session[s].at]
  /\ Ends(s)
  /\ UNCHANGED << reservation, now, changes >>

-----------------------------------------------------------------------------
PeriodEnds ==
  /\ "reset" \in Work /\ now < LastPeriod
  /\ now' = now + 1
  /\ UNCHANGED << wallet, ledger, renewal, reservation, session, changes >>

\* An hour has passed since the reservation was taken.
GrowsOld(r) ==
  /\ "sweep" \in Work
  /\ reservation[r].state = "Held" /\ ~reservation[r].old
  /\ reservation' = [reservation EXCEPT ![r].old = TRUE]
  /\ UNCHANGED << wallet, ledger, renewal, session, now, changes >>

Begin(s) ==
  \/ \E r \in Reservations :
       \/ \E path \in Paths, e \in Estimates : BeginReserve(s, r, path, e)
       \/ \E actual \in Actuals : BeginSettle(s, r, actual)
       \/ BeginRelease(s, r)
  \/ BeginSweep(s)
  \/ \E w \in Wallets :
       \/ \E a \in Allowances, recurs \in BOOLEAN : BeginSet(s, w, a, recurs)
       \/ \E delta \in Deltas : BeginAdjust(s, w, delta)
       \/ BeginReset(s, w)

Proceed(s) ==
  \/ LockNext(s) \/ Hold(s) \/ Refuse(s) \/ Settle(s) \/ Release(s) \/ ExpireNext(s)
  \/ Set(s) \/ Adjust(s)
  \/ ReadToReset(s) \/ FirstPeriod(s) \/ NextPeriod(s) \/ Renew(s)

Next ==
  \/ \E s \in Sessions : Begin(s) \/ Proceed(s) \/ Abort(s)
  \/ OpenCompanyWallet \/ PeriodEnds
  \/ \E r \in Reservations : GrowsOld(r)

Spec == Init /\ [][Next]_vars
=============================================================================
