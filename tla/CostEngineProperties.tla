------------------------- MODULE CostEngineProperties -------------------------
(***************************************************************************)
(* What the cost engine promises, stated over CostEngine.                  *)
(***************************************************************************)
EXTENDS CostEngine

HeldOn(w) == {r \in Reservations : reservation[r].state = "Held" /\ w \in reservation[r].holds}
ChargedTo(w) == {r \in Reservations : reservation[r].state = "Settled" /\ w \in reservation[r].holds}

\* The minor units a set of reservations amounts to, each told apart.
Units(rs, amount) == UNION {{r} \X (1..amount[r]) : r \in rs}

Estimated == [r \in Reservations |-> reservation[r].estimate]
Charged == [r \in Reservations |-> reservation[r].settled]

\* At every level of the hierarchy, what a wallet says is reserved is what its open
\* reservations hold, and what it says is used is what the settled ones were charged: no
\* hold leaks, none is given back twice, and no run is charged twice.
WalletsMatchReservations ==
  \A w \in Wallets :
    /\ wallet[w].reserved = Cardinality(Units(HeldOn(w), Estimated))
    /\ wallet[w].used = Cardinality(Units(ChargedTo(w), Charged))

\* reconcile never finds anything: every wallet is what its ledger replays to.
BalanceMatchesLedger ==
  \A w \in Wallets :
    ledger[w] = [allowance |-> wallet[w].allowance, used |-> wallet[w].used,
                 reserved |-> wallet[w].reserved]

\* Two agents cannot spend the same last of a budget: when a reservation becomes held, no
\* level it holds against is committed past its hard stop, counting everybody's holds.
NeverPastHardStop ==
  [][\A r \in Reservations :
       (reservation[r].state = "none" /\ reservation'[r].state = "Held")
         => \A w \in reservation'[r].holds :
              Committed(wallet'[w]) <= Ceiling(wallet'[w].allowance)]_vars

\* A reservation that was settled, released or expired is never reopened, re-settled or
\* charged differently (also a database trigger, which is thus never the one to refuse).
ClosedForGood ==
  [][\A r \in Reservations :
       reservation[r].state \in Closed => reservation'[r] = reservation[r]]_vars

\* Transactions that only lock along the hierarchy never wait for one another in a circle.
WaitsFor(s) ==
  {t \in Sessions \ {s} : session[s].todo # << >> /\ Head(session[s].todo) \in session[t].held}

InACircle(ss) == ss # {} /\ \A s \in ss : WaitsFor(s) \intersect ss # {}

OutermostFirstNeverDeadlocks ==
  \A ss \in SUBSET {s \in Sessions : session[s].doing \in {"reserve", "set", "adjust"}} :
    ~InACircle(ss)

\* Unused allowance lapses: right after a reset nobody has more to spend than one period's
\* grant, however many runners reset the wallet at once and however far behind it was.
LapsesWhatWasLeft ==
  [][\A w \in Wallets :
       (renewal'[w].at > renewal[w].at /\ renewal'[w].grant = renewal[w].grant)
         => Remaining(wallet'[w]) <= renewal'[w].grant]_vars
\* The spends, and the allowance of each wallet: what the budget consists of.
Promise == INSTANCE Budget WITH
  allowance <- [w \in Wallets |-> wallet[w].allowance],
  spend <- [r \in Reservations |->
    [state |-> reservation[r].state, levels |-> reservation[r].holds,
     estimate |-> reservation[r].estimate, charged |-> reservation[r].settled]]

\* Every transaction takes effect as if it were alone and in one step, however many overlap,
\* wait for one another and fail between their steps: what is committed at a level of the
\* budget is what the spends admitted there come to, the hard stop was asked of that, a level
\* that was passed over for want of a wallet had nothing to ask, and a spend is closed once.
ImplementsBudget == Promise!Spec
=============================================================================
