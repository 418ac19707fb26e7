--------------------------- MODULE CostEngineProofs ---------------------------
(***************************************************************************)
(* Machine-checked proofs about CostEngine, for every set of wallets,      *)
(* reservations, sessions and amounts.                                     *)
(***************************************************************************)
EXTENDS CostEngineProperties, TLAPS, FiniteSetTheorems, SequenceTheorems

-----------------------------------------------------------------------------
(* Lock orders.                                                            *)

\* A lock order of a set of wallets is a sequence of wallets.
LEMMA OrdersAreSequences ==
  ASSUME NEW S \in SUBSET Wallets, NEW q \in SetToSeqs(S)
  PROVE  q \in Seq(Wallets) /\ Len(q) = Cardinality(S) /\ Cardinality(S) \in Nat
<1>1. IsFiniteSet(S) /\ Cardinality(S) \in Nat
  BY CostAssumption, FS_Subset, FS_CardinalityType
<1>2. q \in [1..Cardinality(S) -> S]
  BY DEF SetToSeqs
<1> QED
  BY <1>1, <1>2

LEMMA TailIsSequence ==
  ASSUME NEW q \in Seq(Wallets), q # << >>
  PROVE  Head(q) \in Wallets /\ Tail(q) \in Seq(Wallets)
BY HeadTailProperties

Listed(q, w) == \E i \in 1..Len(q) : q[i] = w

\* It names every wallet of the set.
LEMMA OrdersCover ==
  ASSUME NEW S \in SUBSET Wallets, NEW q \in SetToSeqs(S), NEW w \in S
  PROVE  Listed(q, w)
<1> DEFINE n == Cardinality(S)
<1>1. q \in Seq(Wallets) /\ Len(q) = n /\ n \in Nat
  BY OrdersAreSequences
<1>2. q \in [1..n -> S] /\ \A i, j \in 1..n : i # j => q[i] # q[j]
  BY DEF SetToSeqs
<1>3. IsFiniteSet(1..n) /\ Cardinality(1..n) = n
  BY <1>1, FS_Interval
<1>4. /\ IsFiniteSet(S \ {w}) /\ Cardinality(S \ {w}) = n - 1
      /\ Cardinality(S \ {w}) < Cardinality(1..n)
  BY <1>1, <1>3, CostAssumption, FS_Subset, FS_RemoveElement
<1>5. \E i \in 1..n : q[i] = w
  <2>1. ASSUME \A i \in 1..n : q[i] # w PROVE FALSE
    <3>1. q \in [1..n -> S \ {w}]
      BY <1>2, <2>1
    <3> DEFINE D == 1..n
               T == S \ {w}
    <3>2. /\ IsFiniteSet(D) /\ IsFiniteSet(T) /\ Cardinality(T) < Cardinality(D)
          /\ q \in [D -> T]
      BY <1>3, <1>4, <3>1
    <3> HIDE DEF D, T
    <3>3. \E i, j \in D : i # j /\ q[i] = q[j]
      BY <3>2, FS_PigeonHole
    <3> QED
      BY <1>2, <3>3 DEF D
  <2> QED
    BY <2>1
<1> QED
  BY <1>1, <1>5 DEF Listed

LEMMA TailLists ==
  ASSUME NEW q \in Seq(Wallets), q # << >>, NEW w, Listed(q, w)
  PROVE  w = Head(q) \/ Listed(Tail(q), w)
<1>1. PICK i \in 1..Len(q) : q[i] = w
  BY DEF Listed
<1>2. CASE i = 1
  BY <1>1, <1>2
<1>3. CASE i # 1
  <2>1. i - 1 \in 1..Len(Tail(q))
    BY <1>1, <1>3, HeadTailProperties
  <2>2. Tail(q)[i - 1] = q[(i - 1) + 1]
    BY <2>1, HeadTailProperties
  <2> QED
    BY <1>1, <2>1, <2>2 DEF Listed
<1> QED
  BY <1>2, <1>3

-----------------------------------------------------------------------------
(* Types.                                                                  *)

\* What the type invariant does not say of a session: which of its fields are in use.
SessionWellFormed(x) ==
  /\ x.doing \in {"reserve", "settle", "set"} \union Renewing => x.amount \in Nat
  /\ x.doing \in {"reserve"} \union Closing => x.res \in Reservations

TypeInv == TypeOK /\ \A s \in Sessions : SessionWellFormed(session[s])

LEMMA IdleSessionTyped == IdleSession \in Session /\ SessionWellFormed(IdleSession)
<1>1. [w \in Wallets |-> NoWallet] \in [Wallets -> Wallet]
  BY DEF NoWallet, Wallet
<1>2. << >> \in Seq(Wallets)
  OBVIOUS
<1> QED
  BY <1>1, <1>2, CostAssumption DEF IdleSession, Session, SessionWellFormed, Doing, Renewing, Closing

\* A session replaced by a well-formed one leaves the sessions well-formed.
LEMMA SessionReplaced ==
  ASSUME TypeInv, NEW s \in Sessions, NEW x \in Session, SessionWellFormed(x),
         session' = [session EXCEPT ![s] = x]
  PROVE  session' \in [Sessions -> Session] /\ \A t \in Sessions : SessionWellFormed(session'[t])
BY DEF TypeInv, TypeOK

LEMMA EndsTyped ==
  ASSUME TypeInv, NEW s \in Sessions, Ends(s)
  PROVE  session' \in [Sessions -> Session] /\ \A t \in Sessions : SessionWellFormed(session'[t])
BY SessionReplaced, IdleSessionTyped DEF Ends

\* A step that only replaces a session.
LEMMA OnlySessionTyped ==
  ASSUME TypeInv, NEW s \in Sessions, NEW x \in Session, SessionWellFormed(x),
         session' = [session EXCEPT ![s] = x],
         UNCHANGED << wallet, ledger, renewal, reservation, now >>, changes' \in 0..MaxChanges
  PROVE  TypeInv'
<1>1. session' \in [Sessions -> Session] /\ \A t \in Sessions : SessionWellFormed(session'[t])
  BY SessionReplaced
<1> QED
  BY <1>1 DEF TypeInv, TypeOK

LEMMA BeginReserveTyped ==
  ASSUME TypeInv, NEW s \in Sessions, NEW r \in Reservations, NEW path \in Paths,
         NEW e \in Estimates, BeginReserve(s, r, path, e)
  PROVE  TypeInv'
<1>1. PICK order \in LockOrders(path) :
        session' = [session EXCEPT ![s] =
          [IdleSession EXCEPT !.doing = "reserve", !.res = r, !.path = path,
                              !.todo = order, !.amount = e]]
  BY DEF BeginReserve
<1> DEFINE x == [IdleSession EXCEPT !.doing = "reserve", !.res = r, !.path = path,
                                   !.todo = order, !.amount = e]
<1>2. path \in SUBSET Wallets /\ order \in Seq(Wallets)
  BY CostAssumption, OrdersAreSequences DEF LockOrders
<1>3. e \in Nat /\ e \in Int /\ "reserve" \in Doing
  BY CostAssumption DEF Doing
<1>4. x \in Session
  BY <1>2, <1>3, IdleSessionTyped DEF Session
<1>5. SessionWellFormed(x)
  BY <1>3 DEF SessionWellFormed, IdleSession, Renewing, Closing
<1>6. changes' \in 0..MaxChanges
  BY DEF BeginReserve, TypeInv, TypeOK
<1> QED
  BY <1>1, <1>4, <1>5, <1>6, OnlySessionTyped DEF BeginReserve

LEMMA BeginCloseTyped ==
  ASSUME TypeInv, NEW s \in Sessions, NEW r \in Reservations, NEW how \in Closing,
         NEW actual \in Nat, NEW rest \in SUBSET Reservations,
         BeginClose(s, r, how, actual, rest)
  PROVE  TypeInv'
<1>1. PICK order \in HoldOrders(reservation[r].holds) :
        session' = [session EXCEPT ![s] =
          [IdleSession EXCEPT !.doing = how, !.res = r, !.path = reservation[r].holds,
                              !.todo = order, !.amount = actual, !.rest = rest]]
  BY DEF BeginClose
<1> DEFINE x == [IdleSession EXCEPT !.doing = how, !.res = r, !.path = reservation[r].holds,
                                   !.todo = order, !.amount = actual, !.rest = rest]
<1>2. reservation[r].holds \in SUBSET Wallets
  BY DEF TypeInv, TypeOK, Reservation
<1>3. order \in Seq(Wallets)
  BY <1>2, OrdersAreSequences DEF HoldOrders
<1>4. actual \in Int /\ how \in Doing
  BY DEF Doing
<1>5. x \in Session
  BY <1>2, <1>3, <1>4, IdleSessionTyped DEF Session
<1>6. SessionWellFormed(x)
  BY <1>4 DEF SessionWellFormed, IdleSession, Renewing, Closing
<1>7. changes' \in 0..MaxChanges
  BY DEF BeginClose, TypeInv, TypeOK
<1> QED
  BY <1>1, <1>5, <1>6, <1>7, OnlySessionTyped DEF BeginClose

LEMMA BeginSettleTyped ==
  ASSUME TypeInv, NEW s \in Sessions, NEW r \in Reservations, NEW actual \in Actuals,
         BeginSettle(s, r, actual)
  PROVE  TypeInv'
BY BeginCloseTyped, CostAssumption DEF BeginSettle, Closing

LEMMA BeginReleaseTyped ==
  ASSUME TypeInv, NEW s \in Sessions, NEW r \in Reservations, BeginRelease(s, r)
  PROVE  TypeInv'
BY BeginCloseTyped DEF BeginRelease, Closing

LEMMA BeginSweepTyped ==
  ASSUME TypeInv, NEW s \in Sessions, BeginSweep(s)
  PROVE  TypeInv'
<1>1. PICK abandoned \in SUBSET Reservations :
        session' = [session EXCEPT ![s] =
          [IdleSession EXCEPT !.doing = "sweep", !.rest = abandoned]]
  BY Zenon DEF BeginSweep
<1> DEFINE x == [IdleSession EXCEPT !.doing = "sweep", !.rest = abandoned]
<1>2. x \in Session
  BY IdleSessionTyped DEF Session, Doing
<1>3. SessionWellFormed(x)
  BY DEF SessionWellFormed, IdleSession, Renewing, Closing
<1>4. changes' \in 0..MaxChanges
  BY DEF BeginSweep, TypeInv, TypeOK
<1> QED
  BY Zenon, <1>1, <1>2, <1>3, <1>4, OnlySessionTyped DEF BeginSweep

LEMMA ExpireNextTyped ==
  ASSUME TypeInv, NEW s \in Sessions, ExpireNext(s)
  PROVE  TypeInv'
<1>1. PICK r \in session[s].rest :
        \/ BeginClose(s, r, "expire", 0, session[s].rest \ {r})
        \/ Ends(s) /\ UNCHANGED << wallet, ledger, renewal, reservation, now, changes >>
  BY DEF ExpireNext
<1>2. session[s].rest \in SUBSET Reservations
  BY DEF TypeInv, TypeOK, Session
<1>3. CASE BeginClose(s, r, "expire", 0, session[s].rest \ {r})
  BY <1>2, <1>3, BeginCloseTyped DEF Closing
<1>4. CASE Ends(s) /\ UNCHANGED << wallet, ledger, renewal, reservation, now, changes >>
  BY <1>4, EndsTyped DEF TypeInv, TypeOK
<1> QED
  BY <1>1, <1>3, <1>4

LEMMA BeginChangeTyped ==
  ASSUME TypeInv, NEW s \in Sessions, NEW doing \in {"set", "adjust"},
         NEW path \in SUBSET Wallets, NEW w \in Wallets, NEW a \in Int, NEW recurs \in BOOLEAN,
         doing = "set" => a \in Nat, BeginChange(s, doing, path, w, a, recurs)
  PROVE  TypeInv'
<1>1. PICK order \in LockOrders(path) :
        session' = [session EXCEPT ![s] =
          [IdleSession EXCEPT !.doing = doing, !.path = path, !.of = w, !.todo = order,
                              !.amount = a, !.recurs = recurs]]
  BY DEF BeginChange
<1> DEFINE x == [IdleSession EXCEPT !.doing = doing, !.path = path, !.of = w, !.todo = order,
                                   !.amount = a, !.recurs = recurs]
<1>2. order \in Seq(Wallets)
  BY OrdersAreSequences DEF LockOrders
<1>3. doing \in Doing
  BY DEF Doing
<1>4. x \in Session
  BY <1>2, <1>3, IdleSessionTyped DEF Session
<1>5. SessionWellFormed(x)
  BY IdleSessionTyped DEF SessionWellFormed, IdleSession, Renewing, Closing
<1>6. changes' \in 0..MaxChanges
  BY CostAssumption DEF BeginChange, TypeInv, TypeOK
<1> QED
  BY <1>1, <1>4, <1>5, <1>6, OnlySessionTyped DEF BeginChange

LEMMA BeginSetTyped ==
  ASSUME TypeInv, NEW s \in Sessions, NEW w \in Wallets, NEW a \in Allowances,
         NEW recurs \in BOOLEAN, BeginSet(s, w, a, recurs)
  PROVE  TypeInv'
<1>1. a \in Nat /\ a \in Int /\ {Company, w} \in SUBSET Wallets
  BY CostAssumption
<1> QED
  BY <1>1, BeginChangeTyped DEF BeginSet

LEMMA BeginAdjustTyped ==
  ASSUME TypeInv, NEW s \in Sessions, NEW w \in Wallets, NEW delta \in Deltas,
         BeginAdjust(s, w, delta)
  PROVE  TypeInv'
<1>1. delta \in Int /\ {w} \in SUBSET Wallets
  BY CostAssumption
<1> QED
  BY <1>1, BeginChangeTyped DEF BeginAdjust

LEMMA BeginResetTyped ==
  ASSUME TypeInv, NEW s \in Sessions, NEW w \in Wallets, BeginReset(s, w)
  PROVE  TypeInv'
<1> DEFINE x == [IdleSession EXCEPT !.doing = "dueRead", !.of = w, !.amount = renewal[w].grant,
                                   !.left = LeftOver(wallet[w]), !.at = renewal[w].at,
                                   !.until = now]
<1>1. wallet[w] \in Wallet /\ renewal[w] \in Renewal /\ now \in Nat
  BY CostAssumption DEF TypeInv, TypeOK
<1>2. renewal[w].grant \in Nat /\ renewal[w].grant \in Int /\ renewal[w].at \in Nat
  BY <1>1 DEF Renewal
<1>3. LeftOver(wallet[w]) \in Nat
  BY <1>1 DEF Wallet, LeftOver, Remaining, Committed
<1>4. x \in Session
  BY <1>1, <1>2, <1>3, IdleSessionTyped DEF Session, Doing, Renewing
<1>5. SessionWellFormed(x)
  BY <1>2 DEF SessionWellFormed, IdleSession, Renewing, Closing
<1>6. changes' \in 0..MaxChanges
  BY DEF BeginReset, TypeInv, TypeOK
<1>7. session' = [session EXCEPT ![s] = x]
  BY DEF BeginReset
<1> QED
  BY <1>4, <1>5, <1>6, <1>7, OnlySessionTyped DEF BeginReset

LEMMA LockNextTyped ==
  ASSUME TypeInv, NEW s \in Sessions, LockNext(s)
  PROVE  TypeInv'
<1> DEFINE w == Head(session[s].todo)
           x == [session[s] EXCEPT !.todo = Tail(@), !.seen[w] = wallet[w],
                   !.held = IF wallet[w].exists THEN @ \union {w} ELSE @]
<1>1. session[s] \in Session /\ SessionWellFormed(session[s])
  BY DEF TypeInv, TypeOK
<1>2. w \in Wallets /\ Tail(session[s].todo) \in Seq(Wallets)
  BY <1>1, TailIsSequence DEF LockNext, Session
<1>3. wallet[w] \in Wallet
  BY <1>2 DEF TypeInv, TypeOK
<1>4. x \in Session
  BY <1>1, <1>2, <1>3 DEF Session
<1>5. SessionWellFormed(x)
  BY <1>1 DEF SessionWellFormed, Session
<1>6. session' = [session EXCEPT ![s] = x]
  BY <1>1 DEF LockNext, TypeInv, TypeOK, Session
<1>7. changes' \in 0..MaxChanges
  BY DEF LockNext, TypeInv, TypeOK
<1> QED
  BY <1>4, <1>5, <1>6, <1>7, OnlySessionTyped DEF LockNext

LEMMA AbortTyped ==
  ASSUME TypeInv, NEW s \in Sessions, Abort(s)
  PROVE  TypeInv'
BY EndsTyped DEF Abort, TypeInv, TypeOK

\* What a ledger entry does to a balance.
Effect(b, kind, a) ==
  [allowance |-> CASE kind \in {"TopUp", "Adjustment", "Reallocation"} -> b.allowance + a
                   [] kind = "Expiry" -> b.allowance - a
                   [] OTHER -> b.allowance,
   used |-> IF kind = "Settle" THEN b.used + a ELSE b.used,
   reserved |-> CASE kind = "Reserve" -> b.reserved + a
                  [] kind = "ReleaseReserve" -> b.reserved - a
                  [] OTHER -> b.reserved]

Kind == {"TopUp", "Adjustment", "Reallocation", "Expiry", "Reserve", "ReleaseReserve", "Settle"}

LEMMA ApplyEffect ==
  ASSUME NEW b \in Balance, NEW kind \in Kind, NEW a \in Int
  PROVE  Apply(b, kind, a) = Effect(b, kind, a) /\ Apply(b, kind, a) \in Balance
<1>1. b = [allowance |-> b.allowance, used |-> b.used, reserved |-> b.reserved]
  BY DEF Balance
<1>2. b.allowance \in Int /\ b.used \in Int /\ b.reserved \in Int
  BY DEF Balance
<1>3. CASE kind \in {"TopUp", "Adjustment", "Reallocation"}
  BY <1>1, <1>2, <1>3 DEF Apply, Effect, Balance
<1>4. CASE kind = "Expiry"
  BY <1>1, <1>2, <1>4 DEF Apply, Effect, Balance
<1>5. CASE kind = "Reserve"
  BY <1>1, <1>2, <1>5 DEF Apply, Effect, Balance
<1>6. CASE kind = "ReleaseReserve"
  BY <1>1, <1>2, <1>6 DEF Apply, Effect, Balance
<1>7. CASE kind = "Settle"
  BY <1>1, <1>2, <1>7 DEF Apply, Effect, Balance
<1> QED
  BY <1>3, <1>4, <1>5, <1>6, <1>7 DEF Kind

LEMMA WalletFields ==
  ASSUME NEW w \in Wallet
  PROVE  w.exists \in BOOLEAN /\ w.allowance \in Nat /\ w.used \in Nat /\ w.reserved \in Nat
BY DEF Wallet

\* What an UPDATE leaves of a wallet's type.
LEMMA WalletTyped ==
  ASSUME NEW w \in Wallet, NEW x \in BOOLEAN, NEW a \in Nat, NEW u \in Nat, NEW v \in Nat
  PROVE  /\ [w EXCEPT !.exists = x] \in Wallet
         /\ [w EXCEPT !.allowance = a] \in Wallet
         /\ [w EXCEPT !.reserved = v] \in Wallet
         /\ [w EXCEPT !.exists = x, !.allowance = a] \in Wallet
         /\ [w EXCEPT !.exists = x, !.reserved = v] \in Wallet
         /\ [w EXCEPT !.reserved = v, !.used = u] \in Wallet
BY DEF Wallet

LEMMA HoldTyped ==
  ASSUME TypeInv, NEW s \in Sessions, Hold(s)
  PROVE  TypeInv'
<1> DEFINE e == session[s].amount
           r == session[s].res
<1>1. session[s] \in Session /\ e \in Nat /\ r \in Reservations
  BY DEF TypeInv, TypeOK, SessionWellFormed, Hold, Ready, Is, Renewing, Closing
<1>2. wallet' \in [Wallets -> Wallet]
  <2>1. ASSUME NEW w \in Wallets
        PROVE  /\ wallet[w] \in Wallet
               /\ [wallet[w] EXCEPT !.exists = TRUE, !.reserved = @ + e] \in Wallet
    <3>1. wallet[w] \in Wallet
      BY DEF TypeInv, TypeOK
    <3>2. wallet[w].reserved + e \in Nat
      BY <1>1, <3>1, WalletFields
    <3> QED
      BY Zenon, <3>1, <3>2, WalletTyped
  <2> QED
    BY Zenon, <2>1 DEF Hold
<1>3. ledger' \in [Wallets -> Balance]
  <2>1. \A w \in Wallets : ledger[w] \in Balance
    BY DEF TypeInv, TypeOK
  <2>2. e \in Int /\ "Reserve" \in Kind
    BY <1>1 DEF Kind
  <2>3. \A w \in Wallets : Apply(ledger[w], "Reserve", e) \in Balance
    BY <2>1, <2>2, ApplyEffect
  <2> QED
    BY <2>1, <2>3 DEF Hold
<1>4. reservation' \in [Reservations -> Reservation]
  <2>1. Written(s) \in SUBSET Wallets
    BY <1>1 DEF Written, Session
  <2>2. [NotReserved EXCEPT !.state = "Held", !.estimate = e, !.holds = Written(s)] \in Reservation
    BY <1>1, <2>1 DEF NotReserved, Reservation
  <2> QED
    BY <1>1, <2>2 DEF Hold, TypeInv, TypeOK
<1>5. session' \in [Sessions -> Session] /\ \A t \in Sessions : SessionWellFormed(session'[t])
  BY EndsTyped DEF Hold
<1> QED
  BY Zenon, <1>2, <1>3, <1>4, <1>5 DEF Hold, TypeInv, TypeOK

LEMMA RefuseTyped ==
  ASSUME TypeInv, NEW s \in Sessions, Refuse(s)
  PROVE  TypeInv'
<1>1. wallet' \in [Wallets -> Wallet]
  <2>1. Company \in Wallets /\ wallet \in [Wallets -> Wallet]
    BY CostAssumption DEF TypeInv, TypeOK
  <2>2. [wallet[Company] EXCEPT !.exists = TRUE] \in Wallet
    BY <2>1 DEF Wallet
  <2>3. wallet' = [wallet EXCEPT ![Company] = [wallet[Company] EXCEPT !.exists = TRUE]]
    BY Zenon DEF Refuse
  <2> QED
    BY Zenon, <2>1, <2>2, <2>3
<1>2. session' \in [Sessions -> Session] /\ \A t \in Sessions : SessionWellFormed(session'[t])
  BY EndsTyped DEF Refuse
<1> QED
  BY <1>1, <1>2 DEF Refuse, TypeInv, TypeOK

LEMMA SettleTyped ==
  ASSUME TypeInv, NEW s \in Sessions, Settle(s)
  PROVE  TypeInv'
<1> DEFINE r == session[s].res
           actual == session[s].amount
           e == reservation[r].estimate
<1>1. session[s] \in Session /\ actual \in Nat /\ r \in Reservations
  BY Zenon DEF TypeInv, TypeOK, SessionWellFormed, Settle, Ready, Is, Renewing, Closing
<1>2. reservation[r] \in Reservation /\ e \in Nat
  BY <1>1 DEF TypeInv, TypeOK, Reservation
<1>3. wallet' \in [Wallets -> Wallet]
  <2>1. ASSUME NEW w \in Wallets
        PROVE  /\ wallet[w] \in Wallet
               /\ w \in reservation[r].holds
                    => [wallet[w] EXCEPT !.reserved = @ - e, !.used = @ + actual] \in Wallet
    <3>1. wallet[w] \in Wallet
      BY DEF TypeInv, TypeOK
    <3>2. w \in reservation[r].holds => wallet[w].reserved >= e
      BY Zenon DEF Settle, CoversItsHolds
    <3>3. w \in reservation[r].holds => wallet[w].reserved - e \in Nat
      BY <1>2, <3>1, <3>2, WalletFields
    <3>4. wallet[w].used + actual \in Nat
      BY <1>1, <3>1, WalletFields
    <3> QED
      BY Zenon, <3>1, <3>3, <3>4, WalletTyped
  <2> QED
    BY Zenon, <2>1 DEF Settle
<1>4. ledger' \in [Wallets -> Balance]
  <2>1. \A w \in Wallets : ledger[w] \in Balance
    BY DEF TypeInv, TypeOK
  <2>2. e \in Int /\ actual \in Int /\ "ReleaseReserve" \in Kind /\ "Settle" \in Kind
    BY <1>1, <1>2 DEF Kind
  <2>3. \A w \in Wallets :
          Apply(Apply(ledger[w], "ReleaseReserve", e), "Settle", actual) \in Balance
    BY <2>1, <2>2, ApplyEffect
  <2> QED
    BY Zenon, <2>1, <2>3 DEF Settle
<1>5. reservation' \in [Reservations -> Reservation]
  BY Zenon, <1>1, <1>2 DEF Settle, TypeInv, TypeOK, Reservation, Closed
<1>6. session' \in [Sessions -> Session] /\ \A t \in Sessions : SessionWellFormed(session'[t])
  BY Zenon, EndsTyped DEF Settle
<1> QED
  BY Zenon, <1>3, <1>4, <1>5, <1>6 DEF Settle, TypeInv, TypeOK

LEMMA ReleaseTyped ==
  ASSUME TypeInv, NEW s \in Sessions, Release(s)
  PROVE  TypeInv'
<1> DEFINE r == session[s].res
           e == reservation[r].estimate
           x == [IdleSession EXCEPT !.rest = session[s].rest,
                                    !.doing = IF session[s].rest = {} THEN "idle" ELSE "sweep"]
<1>1. session[s] \in Session /\ r \in Reservations
  BY DEF TypeInv, TypeOK, SessionWellFormed, Release, Ready, Is, Closing
<1>2. reservation[r] \in Reservation /\ e \in Nat
  BY <1>1 DEF TypeInv, TypeOK, Reservation
<1>3. wallet' \in [Wallets -> Wallet]
  <2>1. ASSUME NEW w \in Wallets
        PROVE  /\ wallet[w] \in Wallet
               /\ w \in ReleasedFrom(r) => [wallet[w] EXCEPT !.reserved = @ - e] \in Wallet
    <3>1. wallet[w] \in Wallet
      BY DEF TypeInv, TypeOK
    <3>2. w \in ReleasedFrom(r) => wallet[w].reserved >= e
      BY DEF Release, CoversItsHolds, ReleasedFrom
    <3>3. w \in ReleasedFrom(r) => wallet[w].reserved - e \in Nat
      BY <1>2, <3>1, <3>2, WalletFields
    <3> QED
      BY Zenon, <3>1, <3>3, WalletTyped
  <2> QED
    BY <2>1 DEF Release
<1>4. ledger' \in [Wallets -> Balance]
  <2>1. \A w \in Wallets : ledger[w] \in Balance
    BY DEF TypeInv, TypeOK
  <2>2. e \in Int /\ "ReleaseReserve" \in Kind
    BY <1>2 DEF Kind
  <2>3. \A w \in Wallets : Apply(ledger[w], "ReleaseReserve", e) \in Balance
    BY <2>1, <2>2, ApplyEffect
  <2> QED
    BY <2>1, <2>3 DEF Release
<1>5. reservation' \in [Reservations -> Reservation]
  BY <1>1, <1>2 DEF Release, TypeInv, TypeOK, Reservation, Closed
<1>6. x \in Session
  BY Zenon, <1>1, IdleSessionTyped DEF Session, Doing
<1>7. SessionWellFormed(x)
  BY IdleSessionTyped DEF SessionWellFormed, IdleSession, Renewing, Closing
<1>8. session' = [session EXCEPT ![s] = x]
  BY DEF Release
<1>9. session' \in [Sessions -> Session] /\ \A t \in Sessions : SessionWellFormed(session'[t])
  BY Zenon, <1>6, <1>7, <1>8, SessionReplaced
<1> QED
  BY Zenon, <1>3, <1>4, <1>5, <1>9 DEF Release, TypeInv, TypeOK

LEMMA WriteAllowanceTyped ==
  ASSUME TypeInv, NEW s \in Sessions, NEW a \in Int, WriteAllowance(s, a)
  PROVE  /\ wallet' \in [Wallets -> Wallet]
         /\ ledger' \in [Wallets -> Balance]
         /\ session' \in [Sessions -> Session]
         /\ \A t \in Sessions : SessionWellFormed(session'[t])
<1> DEFINE w == session[s].of
           moved == a - session[s].seen[w].allowance
<1>1. session[s] \in Session /\ w \in Wallets
  BY DEF TypeInv, TypeOK, Session
<1>2. moved \in Int /\ a \in Nat
  <2>1. session[s].seen[w] \in Wallet
    BY <1>1 DEF Session
  <2>2. session[s].seen[w].allowance \in Nat
    BY <2>1, WalletFields
  <2>3. a >= 0
    BY Zenon DEF WriteAllowance, Accepts
  <2> QED
    BY <2>2, <2>3
<1>3. wallet' \in [Wallets -> Wallet]
  <2>1. \A v \in Wallets :
          /\ [wallet[v] EXCEPT !.exists = TRUE, !.allowance = a] \in Wallet
          /\ [wallet[v] EXCEPT !.exists = @ \/ v \in Written(s)] \in Wallet
    BY <1>2 DEF TypeInv, TypeOK, Wallet
  <2> QED
    BY Zenon, <2>1 DEF WriteAllowance
<1>4. ledger' \in [Wallets -> Balance]
  <2>1. ledger[w] \in Balance /\ Apply(ledger[w], "Adjustment", moved) \in Balance
    BY <1>1, <1>2, ApplyEffect DEF TypeInv, TypeOK, Kind
  <2> QED
    BY Zenon, <1>1, <2>1 DEF WriteAllowance, TypeInv, TypeOK
<1>5. session' \in [Sessions -> Session] /\ \A t \in Sessions : SessionWellFormed(session'[t])
  BY Zenon, EndsTyped DEF WriteAllowance
<1> QED
  BY <1>3, <1>4, <1>5

LEMMA SetTyped ==
  ASSUME TypeInv, NEW s \in Sessions, Set(s)
  PROVE  TypeInv'
<1>1. session[s] \in Session /\ session[s].amount \in Nat /\ session[s].amount \in Int
  BY DEF TypeInv, TypeOK, SessionWellFormed, Set, Ready, Is, Renewing, Closing
<1>2. /\ wallet' \in [Wallets -> Wallet] /\ ledger' \in [Wallets -> Balance]
      /\ session' \in [Sessions -> Session] /\ \A t \in Sessions : SessionWellFormed(session'[t])
  BY <1>1, WriteAllowanceTyped DEF Set
<1>3. renewal' \in [Wallets -> Renewal]
  <2>1. now + 1 \in Nat
    BY CostAssumption DEF TypeInv, TypeOK
  <2>2. [grant |-> session[s].amount, at |-> now + 1] \in Renewal /\ NoRenewal \in Renewal
    BY <1>1, <2>1 DEF Renewal, NoRenewal
  <2> QED
    BY <2>2 DEF Set, TypeInv, TypeOK
<1> QED
  BY Zenon, <1>2, <1>3 DEF Set, WriteAllowance, TypeInv, TypeOK

LEMMA AdjustTyped ==
  ASSUME TypeInv, NEW s \in Sessions, Adjust(s)
  PROVE  TypeInv'
<1>1. session[s].seen[session[s].of].allowance + session[s].amount \in Int
  BY DEF TypeInv, TypeOK, Session, Wallet
<1>2. /\ wallet' \in [Wallets -> Wallet] /\ ledger' \in [Wallets -> Balance]
      /\ session' \in [Sessions -> Session] /\ \A t \in Sessions : SessionWellFormed(session'[t])
  BY <1>1, WriteAllowanceTyped DEF Adjust
<1> QED
  BY Zenon, <1>2 DEF Adjust, WriteAllowance, TypeInv, TypeOK

\* What a renewal step needs to know of its session.
LEMMA RenewingFields ==
  ASSUME TypeInv, NEW s \in Sessions, session[s].doing \in Renewing
  PROVE  /\ session[s] \in Session /\ SessionWellFormed(session[s])
         /\ session[s].of \in Wallets /\ session[s].seen[session[s].of] \in Wallet
         /\ session[s].amount \in Nat /\ session[s].left \in Nat
         /\ session[s].at \in Nat /\ session[s].entries \in Int
BY DEF TypeInv, TypeOK, SessionWellFormed, Session

LEMMA LeftOverBounded ==
  ASSUME NEW w \in Wallet
  PROVE  LeftOver(w) \in Nat /\ LeftOver(w) <= w.allowance
BY WalletFields DEF LeftOver, Remaining, Committed

LEMMA ReadToResetTyped ==
  ASSUME TypeInv, NEW s \in Sessions, ReadToReset(s)
  PROVE  TypeInv'
<1> DEFINE w == session[s].of
           x == [session[s] EXCEPT !.doing = "dueReread", !.seen[w] = wallet[w]]
<1>1. /\ session[s] \in Session /\ SessionWellFormed(session[s])
      /\ w \in Wallets /\ session[s].amount \in Nat
  BY RenewingFields DEF ReadToReset, Is, Renewing
<1>2. wallet[w] \in Wallet
  BY <1>1 DEF TypeInv, TypeOK
<1>3. x \in Session
  BY <1>1, <1>2 DEF Session, Doing, Renewing
<1>4. SessionWellFormed(x)
  BY <1>1 DEF SessionWellFormed, Session, Renewing, Closing
<1>5. session' = [session EXCEPT ![s] = x]
  BY <1>1 DEF ReadToReset, TypeInv, TypeOK, Session
<1>6. changes' \in 0..MaxChanges
  BY DEF ReadToReset, TypeInv, TypeOK
<1> QED
  BY <1>3, <1>4, <1>5, <1>6, OnlySessionTyped DEF ReadToReset

\* What the first period writes down, field by field.
LEMMA FirstPeriodSession ==
  ASSUME TypeInv, NEW s \in Sessions, FirstPeriod(s)
  PROVE  LET y == session[s]
             w == y.of
             x == session'[s]
         IN  /\ w \in Wallets /\ y \in Session
             /\ x.doing = "renewing" /\ x.held = {w} /\ x.at = y.at + 1
             /\ x.entries = y.amount - y.left
             /\ x.seen[w] = [wallet[w] EXCEPT
                              !.allowance = Lapsed(y.seen[w].allowance, y.left) + y.amount]
             /\ x.of = w /\ x.res = y.res /\ x.amount = y.amount
             /\ \A t \in Sessions \ {s} : session'[t] = session[t]
<1> DEFINE y == session[s]
           w == y.of
           new == [wallet[w] EXCEPT !.allowance = Lapsed(y.seen[w].allowance, y.left) + y.amount]
           at == y.at + 1
           entries == y.amount - y.left
           x == [y EXCEPT !.doing = "renewing", !.held = {w}, !.at = at, !.seen[w] = new,
                          !.entries = entries]
<1>1. y \in Session /\ w \in Wallets /\ y.seen \in [Wallets -> Wallet]
      /\ session \in [Sessions -> Session]
  BY RenewingFields DEF FirstPeriod, Is, Renewing, Session, TypeInv, TypeOK
<1>2. session' = [session EXCEPT ![s] = x]
  BY Zenon, <1>1 DEF FirstPeriod, TypeInv, TypeOK, Session
<1> HIDE DEF new, at, entries
<1>3. /\ x.doing = "renewing" /\ x.held = {w} /\ x.at = at /\ x.entries = entries
      /\ x.seen = [y.seen EXCEPT ![w] = new]
      /\ x.of = w /\ x.res = y.res /\ x.amount = y.amount
  BY <1>1 DEF Session
<1>4. x.seen[w] = new
  BY Zenon, <1>1, <1>3
<1> HIDE DEF x
<1>5. session'[s] = x /\ \A t \in Sessions \ {s} : session'[t] = session[t]
  BY <1>1, <1>2
<1> QED
  BY Zenon, <1>1, <1>3, <1>4, <1>5 DEF new, at, entries

LEMMA FirstPeriodTyped ==
  ASSUME TypeInv, NEW s \in Sessions, FirstPeriod(s)
  PROVE  TypeInv'
<1> DEFINE w == session[s].of
           seen == session[s].seen[w]
           grant == session[s].amount
           left == session[s].left
           new == [wallet[w] EXCEPT !.allowance = Lapsed(seen.allowance, left) + grant]
           x == [session[s] EXCEPT !.doing = "renewing", !.held = {w}, !.at = @ + 1,
                   !.seen[w] = new, !.entries = grant - left]
<1>1. /\ session[s] \in Session /\ SessionWellFormed(session[s]) /\ w \in Wallets
      /\ seen \in Wallet /\ grant \in Nat /\ left \in Nat /\ session[s].at \in Nat
  BY RenewingFields DEF FirstPeriod, Is, Renewing
<1>2. Lapsed(seen.allowance, left) + grant \in Nat
  BY <1>1, WalletFields DEF Lapsed
<1>3. wallet[w] \in Wallet
  BY <1>1 DEF TypeInv, TypeOK
<1>4. new \in Wallet
  BY Zenon, <1>2, <1>3, WalletTyped
<1>5. session[s].at + 1 \in Nat /\ grant - left \in Int
  BY <1>1
<1>6. x \in Session
  BY <1>1, <1>4, <1>5 DEF Session, Doing, Renewing
<1>7. SessionWellFormed(x)
  BY <1>1 DEF SessionWellFormed, Session, Renewing, Closing
<1>8. session' = [session EXCEPT ![s] = x]
  BY Zenon, <1>1 DEF FirstPeriod, TypeInv, TypeOK, Session
<1>9. changes' \in 0..MaxChanges
  BY DEF FirstPeriod, TypeInv, TypeOK
<1> QED
  BY <1>6, <1>7, <1>8, <1>9, OnlySessionTyped DEF FirstPeriod

LEMMA NextPeriodTyped ==
  ASSUME TypeInv, NEW s \in Sessions, NextPeriod(s)
  PROVE  TypeInv'
<1> DEFINE w == session[s].of
           seen == session[s].seen[w]
           moved == session[s].amount - LeftOver(seen)
           new == [seen EXCEPT !.allowance = @ + moved]
           x == [session[s] EXCEPT !.at = @ + 1, !.entries = @ + moved, !.seen[w] = new]
<1>1. /\ session[s] \in Session /\ SessionWellFormed(session[s]) /\ w \in Wallets
      /\ seen \in Wallet /\ session[s].amount \in Nat /\ session[s].at \in Nat
      /\ session[s].entries \in Int
  BY RenewingFields DEF NextPeriod, Is, Renewing
<1>2. seen.allowance + moved \in Nat /\ moved \in Int
  BY <1>1, WalletFields, LeftOverBounded
<1>3. new \in Wallet
  BY Zenon, <1>1, <1>2, WalletTyped
<1>4. session[s].at + 1 \in Nat /\ session[s].entries + moved \in Int
  BY <1>1, <1>2
<1>5. x \in Session
  BY <1>1, <1>3, <1>4 DEF Session
<1>6. SessionWellFormed(x)
  BY <1>1 DEF SessionWellFormed, Session, Renewing, Closing
<1>7. session' = [session EXCEPT ![s] = x]
  BY <1>1 DEF NextPeriod, TypeInv, TypeOK, Session
<1>8. changes' \in 0..MaxChanges
  BY DEF NextPeriod, TypeInv, TypeOK
<1> QED
  BY <1>5, <1>6, <1>7, <1>8, OnlySessionTyped DEF NextPeriod

LEMMA RenewTyped ==
  ASSUME TypeInv, NEW s \in Sessions, Renew(s)
  PROVE  TypeInv'
<1> DEFINE w == session[s].of
           new == session[s].seen[w].allowance
<1>1. /\ w \in Wallets /\ session[s].seen[w] \in Wallet
      /\ session[s].at \in Nat /\ session[s].entries \in Int
  BY RenewingFields DEF Renew, Is, Renewing
<1>2. new \in Nat /\ wallet[w] \in Wallet
  BY <1>1, WalletFields DEF TypeInv, TypeOK
<1>3. wallet' \in [Wallets -> Wallet]
  <2>1. [wallet[w] EXCEPT !.allowance = new] \in Wallet
    BY Zenon, <1>2, WalletTyped
  <2> QED
    BY <1>1, <2>1 DEF Renew, TypeInv, TypeOK
<1>4. ledger' \in [Wallets -> Balance]
  <2>1. Apply(ledger[w], "Adjustment", session[s].entries) \in Balance
    BY <1>1, ApplyEffect DEF TypeInv, TypeOK, Kind
  <2> QED
    BY <1>1, <2>1 DEF Renew, TypeInv, TypeOK
<1>5. renewal' \in [Wallets -> Renewal]
  BY <1>1 DEF Renew, TypeInv, TypeOK, Renewal
<1>6. session' \in [Sessions -> Session] /\ \A t \in Sessions : SessionWellFormed(session'[t])
  BY EndsTyped DEF Renew
<1> QED
  BY <1>3, <1>4, <1>5, <1>6 DEF Renew, TypeInv, TypeOK

LEMMA OpenCompanyWalletTyped ==
  ASSUME TypeInv, OpenCompanyWallet
  PROVE  TypeInv'
<1>1. wallet' \in [Wallets -> Wallet]
  <2>1. [NoWallet EXCEPT !.exists = TRUE, !.allowance = Opening] \in Wallet
    BY CostAssumption DEF NoWallet, Wallet
  <2> QED
    BY <2>1 DEF OpenCompanyWallet, TypeInv, TypeOK
<1>2. ledger' \in [Wallets -> Balance]
  <2>1. Company \in Wallets /\ Opening \in Int /\ "TopUp" \in Kind
    BY CostAssumption DEF Kind
  <2>2. ledger[Company] \in Balance
    BY <2>1 DEF TypeInv, TypeOK
  <2>3. Apply(ledger[Company], "TopUp", Opening) \in Balance
    BY <2>1, <2>2, ApplyEffect
  <2> QED
    BY <2>1, <2>3 DEF OpenCompanyWallet, TypeInv, TypeOK
<1> QED
  BY <1>1, <1>2 DEF OpenCompanyWallet, TypeInv, TypeOK

LEMMA TypeInvInitially == Init => TypeInv
<1> SUFFICES ASSUME Init PROVE TypeInv
  OBVIOUS
<1>1. NoWallet \in Wallet /\ ZeroBalance \in Balance /\ NoRenewal \in Renewal
      /\ NotReserved \in Reservation
  BY DEF NoWallet, Wallet, ZeroBalance, Balance, NoRenewal, Renewal, NotReserved, Reservation
<1>2. /\ wallet \in [Wallets -> Wallet] /\ ledger \in [Wallets -> Balance]
      /\ renewal \in [Wallets -> Renewal] /\ reservation \in [Reservations -> Reservation]
  BY <1>1 DEF Init
<1>3. session \in [Sessions -> Session] /\ \A s \in Sessions : SessionWellFormed(session[s])
  BY IdleSessionTyped DEF Init
<1>4. now \in 0..LastPeriod /\ changes \in 0..MaxChanges
  BY CostAssumption DEF Init
<1> QED
  BY <1>2, <1>3, <1>4 DEF TypeInv, TypeOK

LEMMA TypeInvPreserved == TypeInv /\ [Next]_vars => TypeInv'
<1> SUFFICES ASSUME TypeInv, [Next]_vars PROVE TypeInv'
  OBVIOUS
<1>1. ASSUME NEW s \in Sessions, Begin(s) PROVE TypeInv'
  BY <1>1, BeginReserveTyped, BeginSettleTyped, BeginReleaseTyped, BeginSweepTyped,
     BeginSetTyped, BeginAdjustTyped, BeginResetTyped DEF Begin
<1>2. ASSUME NEW s \in Sessions, Proceed(s) PROVE TypeInv'
  BY <1>2, LockNextTyped, HoldTyped, RefuseTyped, SettleTyped, ReleaseTyped, ExpireNextTyped,
     SetTyped, AdjustTyped, ReadToResetTyped, FirstPeriodTyped, NextPeriodTyped, RenewTyped
     DEF Proceed
<1>3. CASE PeriodEnds
  BY <1>3, CostAssumption DEF PeriodEnds, TypeInv, TypeOK
<1>4. ASSUME NEW r \in Reservations, GrowsOld(r) PROVE TypeInv'
  BY <1>4 DEF GrowsOld, TypeInv, TypeOK, Reservation
<1>5. CASE UNCHANGED vars
  BY <1>5 DEF vars, TypeInv, TypeOK
<1> QED
  BY <1>1, <1>2, <1>3, <1>4, <1>5, AbortTyped, OpenCompanyWalletTyped DEF Next

LEMMA TypeInvAlways == Spec => []TypeInv
BY TypeInvInitially, TypeInvPreserved, PTL DEF Spec

\* Amounts keep their range: no sequence of holds, settlements, resets and adjustments takes
\* an allowance, a spend or a hold below zero, which the CHECK wallet_amounts_are_sane and
\* the tests of setAllowance and adjustAllowance are there to refuse.
THEOREM CostTypeCorrect == Spec => []TypeOK
<1>1. TypeInv => TypeOK
  BY DEF TypeInv
<1> QED
  BY <1>1, TypeInvAlways, PTL
-----------------------------------------------------------------------------
(* Reservations are closed once.                                           *)

\* What the lock on a reservation's row buys: it is still held when the transaction that
\* closes it commits, no two transactions close the same one, and the one that a
\* reserving transaction is about to insert is nobody else's.
ClosesWhatIsHeld ==
  \A s \in Sessions : session[s].doing \in Closing => reservation[session[s].res].state = "Held"

ClosesAlone ==
  \A s, t \in Sessions :
    (s # t /\ session[s].doing \in Closing /\ session[t].doing \in Closing)
      => session[s].res # session[t].res

ReservesAlone ==
  \A s \in Sessions :
    session[s].doing = "reserve" =>
      /\ reservation[session[s].res].state = "none"
      /\ \A t \in Sessions \ {s} : session[t].res # session[s].res

ResInv == TypeInv /\ ClosesWhatIsHeld /\ ClosesAlone /\ ReservesAlone

\* A step that replaces a session without taking a reservation.
LEMMA ReservationsKept ==
  ASSUME ResInv, NEW s \in Sessions, NEW x,
         session' = [session EXCEPT ![s] = x], reservation' = reservation, TypeInv',
         x.res \in {NoReservation, session[s].res},
         x.doing \in Closing \union {"reserve"} =>
           x.doing = session[s].doing /\ x.res = session[s].res
  PROVE  ResInv'
<1>1. /\ session'[s] = x
      /\ \A t \in Sessions : t # s => session'[t] = session[t]
  BY DEF ResInv, TypeInv, TypeOK
<1>2. \A t \in Sessions : session[t].doing = "reserve" => session[t].res # NoReservation
  BY CostAssumption DEF ResInv, TypeInv, SessionWellFormed
<1>3. ClosesWhatIsHeld'
  BY <1>1 DEF ResInv, ClosesWhatIsHeld
<1>4. ClosesAlone'
  BY <1>1 DEF ResInv, ClosesAlone
<1>5. ReservesAlone'
  BY <1>1, <1>2 DEF ResInv, ReservesAlone
<1> QED
  BY <1>3, <1>4, <1>5 DEF ResInv

LEMMA IdleSessionFields ==
  IdleSession.doing = "idle" /\ IdleSession.res = NoReservation /\ "idle" \notin Closing \union {"reserve"}
BY DEF IdleSession, Closing

LEMMA EndsKeepsReservations ==
  ASSUME ResInv, NEW s \in Sessions, Ends(s), reservation' = reservation, TypeInv'
  PROVE  ResInv'
BY ReservationsKept, IdleSessionFields DEF Ends

LEMMA BeginReserveAlone ==
  ASSUME ResInv, NEW s \in Sessions, NEW r \in Reservations, NEW path \in Paths,
         NEW e \in Estimates, BeginReserve(s, r, path, e)
  PROVE  ResInv'
<1> DEFINE x(order) == [IdleSession EXCEPT !.doing = "reserve", !.res = r, !.path = path,
                                           !.todo = order, !.amount = e]
<1>1. PICK order \in LockOrders(path) : session' = [session EXCEPT ![s] = x(order)]
  BY DEF BeginReserve
<1>5. x(order).doing = "reserve" /\ x(order).res = r
  BY DEF IdleSession
<1> HIDE DEF x
<1>2. /\ session'[s].doing = "reserve" /\ session'[s].res = r
      /\ \A t \in Sessions : t # s => session'[t] = session[t]
      /\ reservation' = reservation
      /\ reservation[r].state = "none" /\ \A t \in Sessions : session[t].res # r
  BY <1>1, <1>5 DEF ResInv, TypeInv, TypeOK, BeginReserve
<1>3. TypeInv'
  BY BeginReserveTyped DEF ResInv
<1>4. ClosesWhatIsHeld' /\ ClosesAlone' /\ ReservesAlone'
  BY <1>2 DEF ResInv, ClosesWhatIsHeld, ClosesAlone, ReservesAlone, Closing
<1> QED
  BY <1>3, <1>4 DEF ResInv

LEMMA BeginCloseAlone ==
  ASSUME ResInv, NEW s \in Sessions, NEW r \in Reservations, NEW how \in Closing,
         NEW actual, NEW rest, BeginClose(s, r, how, actual, rest), TypeInv'
  PROVE  ResInv'
<1> DEFINE x(order) == [IdleSession EXCEPT !.doing = how, !.res = r, !.path = reservation[r].holds,
                                           !.todo = order, !.amount = actual, !.rest = rest]
<1>1. PICK order \in HoldOrders(reservation[r].holds) : session' = [session EXCEPT ![s] = x(order)]
  BY DEF BeginClose
<1>5. x(order).doing = how /\ x(order).res = r
  BY DEF IdleSession
<1> HIDE DEF x
<1>2. /\ session'[s].doing = how /\ session'[s].res = r
      /\ \A t \in Sessions : t # s => session'[t] = session[t]
      /\ reservation' = reservation
      /\ reservation[r].state = "Held"
      /\ \A t \in Sessions : session[t].doing \in Closing => session[t].res # r
  BY <1>1, <1>5 DEF ResInv, TypeInv, TypeOK, BeginClose, MayClose
<1>3. ClosesWhatIsHeld' /\ ClosesAlone' /\ ReservesAlone'
  BY <1>2 DEF ResInv, ClosesWhatIsHeld, ClosesAlone, ReservesAlone, Closing
<1> QED
  BY <1>3 DEF ResInv

LEMMA ExpireNextAlone ==
  ASSUME ResInv, NEW s \in Sessions, ExpireNext(s)
  PROVE  ResInv'
<1>1. PICK r \in session[s].rest :
        \/ BeginClose(s, r, "expire", 0, session[s].rest \ {r})
        \/ Ends(s) /\ UNCHANGED << wallet, ledger, renewal, reservation, now, changes >>
  BY DEF ExpireNext
<1>2. r \in Reservations /\ TypeInv'
  BY ExpireNextTyped DEF ResInv, TypeInv, TypeOK, Session
<1> QED
  BY <1>1, <1>2, BeginCloseAlone, EndsKeepsReservations DEF Closing

\* The commit of a hold, and of a settlement or a release.
LEMMA HoldAlone ==
  ASSUME ResInv, NEW s \in Sessions, Hold(s)
  PROVE  ResInv'
<1>1. TypeInv'
  BY HoldTyped DEF ResInv
<1>2. session[s].doing = "reserve" /\ session[s].res \in Reservations
  BY DEF Hold, Ready, Is, ResInv, TypeInv, SessionWellFormed
<1>3. /\ session'[s] = IdleSession
      /\ \A t \in Sessions : t # s => session'[t] = session[t]
      /\ \A r \in Reservations : r # session[s].res => reservation'[r] = reservation[r]
  BY DEF Hold, Ends, ResInv, TypeInv, TypeOK
<1>4. \A t \in Sessions : (t # s /\ session[t].doing \in Closing \union {"reserve"}) =>
        session[t].res # session[s].res /\ session[t].res \in Reservations
  BY <1>2 DEF ResInv, ReservesAlone, TypeInv, SessionWellFormed
<1>5. \A t \in Sessions : session[t].doing = "reserve" => session[t].res # NoReservation
  BY CostAssumption DEF ResInv, TypeInv, SessionWellFormed
<1>6. ClosesWhatIsHeld' /\ ClosesAlone' /\ ReservesAlone'
  BY <1>3, <1>4, <1>5, IdleSessionFields DEF ResInv, ClosesWhatIsHeld, ClosesAlone, ReservesAlone
<1> QED
  BY <1>1, <1>6 DEF ResInv

LEMMA CloseAlone ==
  ASSUME ResInv, NEW s \in Sessions, Settle(s) \/ Release(s)
  PROVE  ResInv'
<1>1. TypeInv'
  BY SettleTyped, ReleaseTyped DEF ResInv
<1>2. session[s].doing \in Closing /\ session[s].res \in Reservations
  BY Zenon DEF Settle, Release, Ready, Is, Closing, ResInv, TypeInv, SessionWellFormed
<1>3. /\ session'[s].doing \in {"idle", "sweep"} /\ session'[s].res = NoReservation
      /\ \A t \in Sessions : t # s => session'[t] = session[t]
      /\ \A r \in Reservations : r # session[s].res => reservation'[r] = reservation[r]
  <2>1. CASE Settle(s)
    BY Zenon, <1>2, <2>1 DEF Settle, Ends, IdleSession, ResInv, TypeInv, TypeOK
  <2>2. CASE Release(s)
    <3> DEFINE x == [IdleSession EXCEPT !.rest = session[s].rest,
                                        !.doing = IF session[s].rest = {} THEN "idle" ELSE "sweep"]
    <3>1. session' = [session EXCEPT ![s] = x]
      BY <2>2 DEF Release
    <3>3. x.doing \in {"idle", "sweep"} /\ x.res = NoReservation
      BY DEF IdleSession
    <3> HIDE DEF x
    <3>2. \A r \in Reservations : r # session[s].res => reservation'[r] = reservation[r]
      BY <1>2, <2>2 DEF Release, ResInv, TypeInv, TypeOK
    <3> QED
      BY <3>1, <3>2, <3>3 DEF ResInv, TypeInv, TypeOK
  <2> QED
    BY <2>1, <2>2
<1>4. \A t \in Sessions : (t # s /\ session[t].doing \in Closing \union {"reserve"}) =>
        session[t].res # session[s].res /\ session[t].res \in Reservations
  BY <1>2 DEF ResInv, ClosesAlone, ReservesAlone, TypeInv, SessionWellFormed
<1>5. \A t \in Sessions : session[t].doing = "reserve" => session[t].res # NoReservation
  BY CostAssumption DEF ResInv, TypeInv, SessionWellFormed
<1>6. ClosesWhatIsHeld' /\ ClosesAlone' /\ ReservesAlone'
  BY <1>3, <1>4, <1>5 DEF ResInv, ClosesWhatIsHeld, ClosesAlone, ReservesAlone, Closing
<1> QED
  BY <1>1, <1>6 DEF ResInv

\* The steps of a session in which no reservation is involved.
LEMMA OtherStepsKeepReservations ==
  ASSUME ResInv, NEW s \in Sessions, TypeInv',
         \/ BeginSweep(s)
         \/ \E w \in Wallets : \/ \E a \in Allowances, recurs \in BOOLEAN : BeginSet(s, w, a, recurs)
                               \/ \E delta \in Deltas : BeginAdjust(s, w, delta)
                               \/ BeginReset(s, w)
         \/ LockNext(s) \/ ReadToReset(s) \/ FirstPeriod(s) \/ NextPeriod(s)
  PROVE  ResInv'
<1>1. reservation' = reservation
  BY Zenon DEF BeginSweep, BeginSet, BeginAdjust, BeginChange, BeginReset, LockNext, ReadToReset,
         FirstPeriod, NextPeriod
<1>2. session[s] \in Session
  BY DEF ResInv, TypeInv, TypeOK
<1> DEFINE Leaves(x) == /\ x.res \in {NoReservation, session[s].res}
                        /\ x.doing \in Closing \union {"reserve"} =>
                             x.doing = session[s].doing /\ x.res = session[s].res
<1>3. \E x : session' = [session EXCEPT ![s] = x] /\ Leaves(x)
  <2>1. ASSUME NEW x, x.res = NoReservation, x.doing \in {"sweep", "set", "adjust", "dueRead"}
        PROVE  Leaves(x)
    BY <2>1 DEF Closing
  <2>2. CASE BeginSweep(s)
    <3> DEFINE x(abandoned) == [IdleSession EXCEPT !.doing = "sweep", !.rest = abandoned]
    <3>1. PICK abandoned : session' = [session EXCEPT ![s] = x(abandoned)]
      BY Zenon, <2>2 DEF BeginSweep
    <3>2. x(abandoned).res = NoReservation /\ x(abandoned).doing = "sweep"
      BY DEF IdleSession
    <3> QED
      BY <2>1, <3>1, <3>2
  <2>3. ASSUME NEW w, NEW a, NEW recurs, BeginSet(s, w, a, recurs)
        PROVE  \E x : session' = [session EXCEPT ![s] = x] /\ Leaves(x)
    <3> DEFINE x(order) == [IdleSession EXCEPT !.doing = "set", !.path = {Company, w}, !.of = w,
                                               !.todo = order, !.amount = a, !.recurs = recurs]
    <3>1. PICK order : session' = [session EXCEPT ![s] = x(order)]
      BY <2>3 DEF BeginSet, BeginChange
    <3>2. x(order).res = NoReservation /\ x(order).doing = "set"
      BY DEF IdleSession
    <3> QED
      BY <2>1, <3>1, <3>2
  <2>4. ASSUME NEW w, NEW delta, BeginAdjust(s, w, delta)
        PROVE  \E x : session' = [session EXCEPT ![s] = x] /\ Leaves(x)
    <3> DEFINE x(order) == [IdleSession EXCEPT !.doing = "adjust", !.path = {w}, !.of = w,
                                               !.todo = order, !.amount = delta, !.recurs = FALSE]
    <3>1. PICK order : session' = [session EXCEPT ![s] = x(order)]
      BY <2>4 DEF BeginAdjust, BeginChange
    <3>2. x(order).res = NoReservation /\ x(order).doing = "adjust"
      BY DEF IdleSession
    <3> QED
      BY <2>1, <3>1, <3>2
  <2>5. ASSUME NEW w, BeginReset(s, w)
        PROVE  \E x : session' = [session EXCEPT ![s] = x] /\ Leaves(x)
    <3> DEFINE x == [IdleSession EXCEPT !.doing = "dueRead", !.of = w, !.amount = renewal[w].grant,
                       !.left = LeftOver(wallet[w]), !.at = renewal[w].at, !.until = now]
    <3>1. session' = [session EXCEPT ![s] = x]
      BY <2>5 DEF BeginReset
    <3>2. x.res = NoReservation /\ x.doing = "dueRead"
      BY DEF IdleSession
    <3> QED
      BY <2>1, <3>1, <3>2
  <2>6. CASE LockNext(s) \/ ReadToReset(s) \/ FirstPeriod(s) \/ NextPeriod(s)
    <3> DEFINE y == session'[s]
    <3>1. session' = [session EXCEPT ![s] = y]
      BY Zenon, <2>6 DEF LockNext, ReadToReset, FirstPeriod, NextPeriod, ResInv, TypeInv, TypeOK
    <3>2. y.res = session[s].res /\ y.doing \in Renewing \union {session[s].doing}
      <4>1. CASE LockNext(s)
        BY Zenon, <1>2, <4>1 DEF LockNext, Session, ResInv, TypeInv, TypeOK
      <4>2. CASE ReadToReset(s)
        BY <1>2, <4>2 DEF ReadToReset, Session, Renewing, ResInv, TypeInv, TypeOK
      <4>3. CASE FirstPeriod(s)
        BY <4>3, FirstPeriodSession DEF ResInv, Renewing
      <4>4. CASE NextPeriod(s)
        BY Zenon, <1>2, <4>4 DEF NextPeriod, Session, ResInv, TypeInv, TypeOK
      <4> QED
        BY <2>6, <4>1, <4>2, <4>3, <4>4
    <3>4. Leaves(y)
      BY <3>2 DEF Renewing, Closing
    <3> HIDE DEF y, Leaves
    <3> QED
      BY <3>1, <3>4
  <2> QED
    BY <2>2, <2>3, <2>4, <2>5, <2>6
<1>4. PICK x : session' = [session EXCEPT ![s] = x] /\ Leaves(x)
  BY <1>3
<1> QED
  BY <1>1, <1>4, ReservationsKept

LEMMA ResInvPreserved == ResInv /\ [Next]_vars => ResInv'
<1> SUFFICES ASSUME ResInv, [Next]_vars PROVE ResInv'
  OBVIOUS
<1>1. TypeInv'
  BY TypeInvPreserved DEF ResInv
<1>2. ASSUME NEW s \in Sessions, Begin(s) PROVE ResInv'
  <2>1. ASSUME NEW r \in Reservations, NEW actual \in Actuals, BeginSettle(s, r, actual)
        PROVE  ResInv'
    BY <1>1, <2>1, BeginCloseAlone DEF BeginSettle, Closing
  <2>2. ASSUME NEW r \in Reservations, BeginRelease(s, r)
        PROVE  ResInv'
    BY <1>1, <2>2, BeginCloseAlone DEF BeginRelease, Closing
  <2> QED
    BY <1>1, <1>2, <2>1, <2>2, BeginReserveAlone, OtherStepsKeepReservations DEF Begin
<1>3. ASSUME NEW s \in Sessions, Proceed(s) PROVE ResInv'
  <2>1. CASE Refuse(s) \/ Set(s) \/ Adjust(s) \/ Renew(s)
    BY Zenon, <1>1, <2>1, EndsKeepsReservations DEF Refuse, Set, Adjust, WriteAllowance, Renew
  <2> QED
    BY <1>1, <1>3, <2>1, ExpireNextAlone, HoldAlone, CloseAlone, OtherStepsKeepReservations
       DEF Proceed
<1>4. ASSUME NEW s \in Sessions, Abort(s) PROVE ResInv'
  BY <1>1, <1>4, EndsKeepsReservations DEF Abort
<1>5. CASE OpenCompanyWallet \/ PeriodEnds \/ UNCHANGED vars
  <2>1. session' = session /\ reservation' = reservation
    BY <1>5 DEF OpenCompanyWallet, PeriodEnds, vars
  <2> QED
    BY <1>1, <2>1 DEF ResInv, ClosesWhatIsHeld, ClosesAlone, ReservesAlone
<1>6. ASSUME NEW r \in Reservations, GrowsOld(r) PROVE ResInv'
  <2>1. session' = session /\ \A q \in Reservations : reservation'[q].state = reservation[q].state
    BY <1>6 DEF GrowsOld, ResInv, TypeInv, TypeOK, Reservation
  <2>2. \A t \in Sessions : session[t].doing \in Closing \union {"reserve"} =>
          session[t].res \in Reservations
    BY DEF ResInv, TypeInv, SessionWellFormed
  <2> QED
    BY <1>1, <2>1, <2>2 DEF ResInv, ClosesWhatIsHeld, ClosesAlone, ReservesAlone
<1> QED
  BY <1>2, <1>3, <1>4, <1>5, <1>6 DEF Next

LEMMA ResInvAlways == Spec => []ResInv
<1>1. Init => ResInv
  BY TypeInvInitially, IdleSessionFields
     DEF Init, ResInv, ClosesWhatIsHeld, ClosesAlone, ReservesAlone, Closing
<1> QED
  BY <1>1, ResInvPreserved, PTL DEF Spec

\* Once closed, a reservation stays as it is.
LEMMA ClosedStays ==
  ASSUME ResInv, [Next]_vars, NEW r \in Reservations, reservation[r].state \in Closed
  PROVE  reservation'[r] = reservation[r]
<1>1. reservation[r].state \notin {"none", "Held"}
  BY DEF Closed
<1>2. ASSUME NEW s \in Sessions, Begin(s) PROVE reservation' = reservation
  BY Zenon, <1>2 DEF Begin, BeginReserve, BeginSettle, BeginRelease, BeginClose, BeginSweep, BeginSet,
     BeginAdjust, BeginChange, BeginReset
<1>3. ASSUME NEW s \in Sessions, Hold(s) PROVE reservation'[r] = reservation[r]
  <2>1. r # session[s].res
    BY <1>1, <1>3 DEF Hold, Ready, Is, ResInv, ReservesAlone
  <2> QED
    BY <1>3, <2>1 DEF Hold, ResInv, TypeInv, TypeOK
<1>4. ASSUME NEW s \in Sessions, Settle(s) \/ Release(s) PROVE reservation'[r] = reservation[r]
  <2>1. r # session[s].res
    BY Zenon, <1>1, <1>4 DEF Settle, Release, Ready, Is, Closing, ResInv, ClosesWhatIsHeld
  <2> QED
    BY Zenon, <1>4, <2>1 DEF Settle, Release, ResInv, TypeInv, TypeOK
<1>5. ASSUME NEW s \in Sessions, Proceed(s) PROVE reservation'[r] = reservation[r]
  <2>1. CASE \/ LockNext(s) \/ Refuse(s) \/ ExpireNext(s) \/ Set(s) \/ Adjust(s)
             \/ ReadToReset(s) \/ FirstPeriod(s) \/ NextPeriod(s) \/ Renew(s)
    BY Zenon, <2>1 DEF LockNext, Refuse, ExpireNext, BeginClose, Set, Adjust, WriteAllowance,
       ReadToReset, FirstPeriod, NextPeriod, Renew
  <2> QED
    BY <1>3, <1>4, <1>5, <2>1 DEF Proceed
<1>6. ASSUME NEW q \in Reservations, GrowsOld(q) PROVE reservation'[r] = reservation[r]
  BY <1>1, <1>6 DEF GrowsOld, ResInv, TypeInv, TypeOK
<1>7. CASE OpenCompanyWallet \/ PeriodEnds \/ UNCHANGED vars \/ \E s \in Sessions : Abort(s)
  BY <1>7 DEF OpenCompanyWallet, PeriodEnds, vars, Abort
<1> QED
  BY <1>2, <1>5, <1>6, <1>7 DEF Next

\* Whatever the sweep, the runs that settle and the people who release do at once, a
\* reservation that was closed is never closed again or charged differently.
THEOREM ReservationsCloseOnce == Spec => ClosedForGood
<1>1. ResInv /\ [Next]_vars =>
        [\A r \in Reservations :
           reservation[r].state \in Closed => reservation'[r] = reservation[r]]_vars
  BY ClosedStays
<1> QED
  BY <1>1, ResInvAlways, PTL DEF Spec, ClosedForGood
-----------------------------------------------------------------------------
(* What a row lock protects.                                               *)

\* A wallet that is not there has no amounts; one that renews itself is there.
MissingIsEmpty ==
  \A w \in Wallets : /\ ~wallet[w].exists => wallet[w] = NoWallet
                     /\ renewal[w].grant > 0 => wallet[w].exists

HoldsExist ==
  \A r \in Reservations :
    reservation[r].state = "Held" => \A w \in reservation[r].holds : wallet[w].exists

LocksExclude ==
  \A s, t \in Sessions : s # t => session[s].held \intersect session[t].held = {}

\* What a transaction read under a lock is what the wallet still is.
Protects(x) ==
  \A w \in Wallets :
    IF w \in x.held THEN wallet[w].exists /\ x.seen[w] = wallet[w] ELSE x.seen[w] = NoWallet

\* The reset runner locks one wallet, the one it renews.
LocksOne(x) ==
  /\ wallet[x.of].exists /\ x.todo = << >>
  /\ x.held = IF x.doing = "renewing" THEN {x.of} ELSE {}

\* A transaction that closes a reservation locks all that it holds.
LocksItsHolds(x) ==
  /\ x.path = reservation[x.res].holds
  /\ \A w \in x.path : wallet[w].exists /\ (w \in x.held \/ Listed(x.todo, w))

SessionLocks(x) ==
  /\ x.doing \notin Renewing => Protects(x)
  /\ x.doing \in Renewing => LocksOne(x)
  /\ x.doing \in Closing => LocksItsHolds(x)
  /\ x.doing \in {"set", "adjust"} => x.of \in x.path

LockInv ==
  /\ ResInv /\ MissingIsEmpty /\ HoldsExist /\ LocksExclude
  /\ \A s \in Sessions : SessionLocks(session[s])

\* Sessions whose locked wallets are left alone keep what they know of them.
LEMMA OthersKeepLocks ==
  ASSUME LockInv, NEW t \in Sessions, session'[t] = session[t],
         \A w \in session[t].held : wallet'[w] = wallet[w],
         \A w \in Wallets : wallet[w].exists => wallet'[w].exists,
         session[t].doing \in Closing =>
           reservation'[session[t].res].holds = reservation[session[t].res].holds
  PROVE  SessionLocks(session[t])'
<1>1. session[t] \in Session /\ SessionLocks(session[t])
  BY DEF LockInv, ResInv, TypeInv, TypeOK
<1>2. session[t].path \in SUBSET Wallets /\ session[t].of \in Wallets
  BY <1>1 DEF Session
<1>3. session[t].doing \notin Renewing => Protects(session[t])'
  BY <1>1 DEF SessionLocks, Protects
<1>4. session[t].doing \in Renewing => LocksOne(session[t])'
  BY <1>1, <1>2 DEF SessionLocks, LocksOne
<1>5. session[t].doing \in Closing => LocksItsHolds(session[t])'
  BY <1>1, <1>2 DEF SessionLocks, LocksItsHolds
<1> QED
  BY <1>1, <1>3, <1>4, <1>5 DEF SessionLocks

LEMMA FreshProtects ==
  ASSUME NEW x, x.held = {}, x.seen = [w \in Wallets |-> NoWallet]
  PROVE  Protects(x)
BY DEF Protects

LEMMA IdleHoldsNothing ==
  /\ IdleSession.held = {} /\ IdleSession.seen = [w \in Wallets |-> NoWallet]
  /\ IdleSession.doing = "idle" /\ "idle" \notin Closing \union Renewing \union {"set", "adjust"}
BY DEF IdleSession, Closing, Renewing

\* A step that only replaces a session.
LEMMA OneSessionLocks ==
  ASSUME LockInv, NEW s \in Sessions, ResInv', UNCHANGED << wallet, renewal, reservation >>,
         \A t \in Sessions \ {s} : session'[t] = session[t],
         SessionLocks(session'[s]),
         \A t \in Sessions \ {s} : session'[s].held \intersect session[t].held = {}
  PROVE  LockInv'
<1>1. MissingIsEmpty' /\ HoldsExist'
  BY DEF LockInv, MissingIsEmpty, HoldsExist
<1>2. LocksExclude'
  BY DEF LockInv, LocksExclude
<1>3. ASSUME NEW t \in Sessions PROVE SessionLocks(session[t])'
  <2>1. CASE t = s
    BY <2>1 DEF SessionLocks, Protects, LocksOne, LocksItsHolds
  <2>2. CASE t # s
    BY <2>2, OthersKeepLocks
  <2> QED
    BY <2>1, <2>2
<1> QED
  BY <1>1, <1>2, <1>3 DEF LockInv
\* The fields that the session of a step is left with.
Unlocked(x) ==
  /\ x.held = {} /\ x.seen = [w \in Wallets |-> NoWallet]
  /\ x.doing \in {"idle", "sweep", "reserve", "set", "adjust"}
  /\ x.doing \in {"set", "adjust"} => x.of \in x.path

LEMMA UnlockedLocks ==
  ASSUME NEW x, Unlocked(x)
  PROVE  SessionLocks(x)
BY FreshProtects DEF Unlocked, SessionLocks, Renewing, Closing

LEMMA BeginUnlocked ==
  ASSUME LockInv, NEW s \in Sessions, ResInv', UNCHANGED << wallet, renewal, reservation >>,
         \A t \in Sessions \ {s} : session'[t] = session[t], Unlocked(session'[s])
  PROVE  LockInv'
<1>1. SessionLocks(session'[s])
  BY UnlockedLocks
<1>2. session'[s].held = {}
  BY DEF Unlocked
<1> QED
  BY <1>1, <1>2, OneSessionLocks

LEMMA SessionIs ==
  ASSUME TypeInv, NEW s \in Sessions, NEW x, session' = [session EXCEPT ![s] = x]
  PROVE  session'[s] = x /\ \A t \in Sessions \ {s} : session'[t] = session[t]
BY DEF TypeInv, TypeOK

LEMMA LockTypes == LockInv => TypeInv
BY DEF LockInv, ResInv

LEMMA BeginReserveLocks ==
  ASSUME LockInv, ResInv', NEW s \in Sessions, NEW r \in Reservations, NEW path \in Paths,
         NEW e \in Estimates, BeginReserve(s, r, path, e)
  PROVE  LockInv'
<1> DEFINE x(order) == [IdleSession EXCEPT !.doing = "reserve", !.res = r, !.path = path,
                                           !.todo = order, !.amount = e]
<1>1. PICK order : session' = [session EXCEPT ![s] = x(order)]
  BY DEF BeginReserve
<1>2. Unlocked(x(order))
  BY DEF Unlocked, IdleSession
<1>3. session'[s] = x(order) /\ \A t \in Sessions \ {s} : session'[t] = session[t]
  BY <1>1, SessionIs, LockTypes
<1> QED
  BY <1>2, <1>3, BeginUnlocked DEF BeginReserve

LEMMA BeginSweepLocks ==
  ASSUME LockInv, ResInv', NEW s \in Sessions, BeginSweep(s)
  PROVE  LockInv'
<1> DEFINE x(rest) == [IdleSession EXCEPT !.doing = "sweep", !.rest = rest]
<1>1. PICK rest : session' = [session EXCEPT ![s] = x(rest)]
  BY Zenon DEF BeginSweep
<1>2. Unlocked(x(rest))
  BY DEF Unlocked, IdleSession
<1>3. session'[s] = x(rest) /\ \A t \in Sessions \ {s} : session'[t] = session[t]
  BY <1>1, SessionIs, LockTypes
<1> QED
  BY Zenon, <1>2, <1>3, BeginUnlocked DEF BeginSweep

LEMMA BeginChangeLocks ==
  ASSUME LockInv, ResInv', NEW s \in Sessions, NEW doing \in {"set", "adjust"},
         NEW path, NEW w \in path, NEW a, NEW recurs, BeginChange(s, doing, path, w, a, recurs)
  PROVE  LockInv'
<1> DEFINE x(order) == [IdleSession EXCEPT !.doing = doing, !.path = path, !.of = w, !.todo = order,
                                           !.amount = a, !.recurs = recurs]
<1>1. PICK order : session' = [session EXCEPT ![s] = x(order)]
  BY DEF BeginChange
<1>2. Unlocked(x(order))
  BY DEF Unlocked, IdleSession
<1>3. session'[s] = x(order) /\ \A t \in Sessions \ {s} : session'[t] = session[t]
  BY <1>1, SessionIs, LockTypes
<1> QED
  BY <1>2, <1>3, BeginUnlocked DEF BeginChange

LEMMA BeginCloseLocks ==
  ASSUME LockInv, ResInv', NEW s \in Sessions, NEW r \in Reservations, NEW how \in Closing,
         NEW actual, NEW rest, BeginClose(s, r, how, actual, rest)
  PROVE  LockInv'
<1> DEFINE holds == reservation[r].holds
           x(order) == [IdleSession EXCEPT !.doing = how, !.res = r, !.path = holds,
                                           !.todo = order, !.amount = actual, !.rest = rest]
<1>1. PICK order \in SetToSeqs(holds) : session' = [session EXCEPT ![s] = x(order)]
  BY DEF BeginClose, HoldOrders
<1>2. /\ x(order).held = {} /\ x(order).seen = [w \in Wallets |-> NoWallet]
      /\ x(order).doing = how /\ x(order).res = r /\ x(order).path = holds /\ x(order).todo = order
  BY DEF IdleSession
<1>3. holds \in SUBSET Wallets /\ \A w \in holds : wallet[w].exists
  BY LockTypes DEF LockInv, HoldsExist, BeginClose, MayClose, TypeInv, TypeOK, Reservation
<1>4. \A w \in holds : Listed(order, w)
  BY <1>3, OrdersCover
<1> HIDE DEF x, holds
<1>5. LocksItsHolds(x(order))
  BY <1>2, <1>3, <1>4 DEF LocksItsHolds, holds
<1>6. SessionLocks(x(order))
  BY <1>2, <1>5, FreshProtects DEF SessionLocks, Closing, Renewing
<1>7. session'[s] = x(order) /\ \A t \in Sessions \ {s} : session'[t] = session[t]
  BY <1>1, SessionIs, LockTypes
<1>8. UNCHANGED << wallet, renewal, reservation >>
  BY Zenon DEF BeginClose
<1>9. \A t \in Sessions \ {s} : x(order).held \intersect session[t].held = {}
  BY <1>2
<1> QED
  BY Zenon, <1>6, <1>7, <1>8, <1>9, OneSessionLocks

LEMMA BeginResetLocks ==
  ASSUME LockInv, ResInv', NEW s \in Sessions, NEW w \in Wallets, BeginReset(s, w)
  PROVE  LockInv'
<1> DEFINE x == [IdleSession EXCEPT !.doing = "dueRead", !.of = w, !.amount = renewal[w].grant,
                   !.left = LeftOver(wallet[w]), !.at = renewal[w].at, !.until = now]
<1>1. session' = [session EXCEPT ![s] = x]
  BY DEF BeginReset
<1>2. x.held = {} /\ x.doing = "dueRead" /\ x.of = w /\ x.todo = << >>
  BY DEF IdleSession
<1>3. wallet[w].exists
  BY DEF BeginReset, LockInv, MissingIsEmpty
<1> HIDE DEF x
<1>4. SessionLocks(x)
  BY <1>2, <1>3 DEF SessionLocks, LocksOne, Closing, Renewing
<1>5. session'[s] = x /\ \A t \in Sessions \ {s} : session'[t] = session[t]
  BY <1>1, SessionIs, LockTypes
<1> QED
  BY <1>2, <1>4, <1>5, OneSessionLocks DEF BeginReset

LEMMA LockNextLocks ==
  ASSUME LockInv, ResInv', NEW s \in Sessions, LockNext(s)
  PROVE  LockInv'
<1> DEFINE y == session[s]
           w == Head(y.todo)
           x == [y EXCEPT !.todo = Tail(@), !.seen[w] = wallet[w],
                   !.held = IF wallet[w].exists THEN @ \union {w} ELSE @]
<1>1. y \in Session /\ SessionLocks(y)
  BY LockTypes DEF LockInv, TypeInv, TypeOK
<1>2. w \in Wallets /\ y.todo \in Seq(Wallets) /\ y.todo # << >>
  BY <1>1, TailIsSequence DEF LockNext, Session
<1>3. /\ x.doing = y.doing /\ x.res = y.res /\ x.path = y.path /\ x.of = y.of
      /\ x.todo = Tail(y.todo)
      /\ x.held = IF wallet[w].exists THEN y.held \union {w} ELSE y.held
      /\ x.seen = [y.seen EXCEPT ![w] = wallet[w]] /\ y.seen \in [Wallets -> Wallet]
      /\ y.path \in SUBSET Wallets
  BY <1>1 DEF Session
<1>4. session' = [session EXCEPT ![s] = x]
  BY <1>1, LockTypes DEF LockNext, TypeInv, TypeOK, Session
<1>5. session'[s] = x /\ \A t \in Sessions \ {s} : session'[t] = session[t]
  BY <1>4, SessionIs, LockTypes
<1>6. y.doing \notin Renewing /\ Protects(y)
  BY <1>1, <1>2 DEF SessionLocks, LocksOne
<1> HIDE DEF x
<1>7. Protects(x)
  <2>1. ~wallet[w].exists => wallet[w] = NoWallet /\ w \notin y.held
    BY <1>2, <1>6 DEF LockInv, MissingIsEmpty, Protects
  <2> QED
    BY <1>2, <1>3, <1>6, <2>1 DEF Protects
<1>8. y.doing \in Closing => LocksItsHolds(x)
  <2> SUFFICES ASSUME y.doing \in Closing PROVE LocksItsHolds(x)
    OBVIOUS
  <2>1. y.path = reservation[y.res].holds
    BY <1>1 DEF SessionLocks, LocksItsHolds
  <2>2. ASSUME NEW v \in y.path
        PROVE  wallet[v].exists /\ (v \in x.held \/ Listed(x.todo, v))
    <3>1. wallet[v].exists /\ (v \in y.held \/ Listed(y.todo, v))
      BY <1>1 DEF SessionLocks, LocksItsHolds
    <3>2. Listed(y.todo, v) => v = w \/ Listed(Tail(y.todo), v)
      BY <1>2, TailLists
    <3> QED
      BY <1>3, <3>1, <3>2
  <2> QED
    BY <1>3, <2>1, <2>2 DEF LocksItsHolds
<1>9. SessionLocks(x)
  BY <1>1, <1>3, <1>6, <1>7, <1>8 DEF SessionLocks
<1>10. \A t \in Sessions \ {s} : x.held \intersect session[t].held = {}
  BY <1>3 DEF LockNext, MayLock, Free, LockInv, LocksExclude
<1> QED
  BY <1>5, <1>9, <1>10, OneSessionLocks DEF LockNext
LEMMA RenewalStepLocks ==
  ASSUME LockInv, ResInv', NEW s \in Sessions,
         ReadToReset(s) \/ FirstPeriod(s) \/ NextPeriod(s)
  PROVE  LockInv'
<1> DEFINE y == session[s]
           x == session'[s]
<1>1. y \in Session /\ SessionLocks(y) /\ y.doing \in Renewing
  BY LockTypes DEF LockInv, TypeInv, TypeOK, ReadToReset, FirstPeriod, NextPeriod, Is, Renewing
<1>2. LocksOne(y)
  BY <1>1 DEF SessionLocks
<1>3. /\ \A t \in Sessions \ {s} : session'[t] = session[t]
      /\ UNCHANGED << wallet, renewal, reservation >>
  BY LockTypes DEF ReadToReset, FirstPeriod, NextPeriod, TypeInv, TypeOK
<1>4. /\ x.of = y.of /\ x.todo = y.todo /\ x.doing \in Renewing
      /\ x.held = IF x.doing = "renewing" THEN {y.of} ELSE {}
  <2>1. CASE ReadToReset(s)
    BY <1>1, <1>2, <2>1, LockTypes
       DEF ReadToReset, Is, Renewing, LocksOne, Session, TypeInv, TypeOK
  <2>2. CASE FirstPeriod(s)
    BY <1>1, <1>2, <2>2, LockTypes
       DEF FirstPeriod, Renewing, LocksOne, Session, TypeInv, TypeOK
  <2>3. CASE NextPeriod(s)
    BY <1>1, <1>2, <2>3, LockTypes
       DEF NextPeriod, Is, Renewing, LocksOne, Session, TypeInv, TypeOK
  <2> QED
    BY <2>1, <2>2, <2>3
<1>5. \A t \in Sessions \ {s} : x.held \intersect session[t].held = {}
  <2>1. CASE FirstPeriod(s)
    <3>1. \A t \in Sessions : y.of \notin session[t].held
      BY <2>1 DEF FirstPeriod, Free
    <3>2. x.held \subseteq {y.of}
      BY <1>4
    <3> HIDE DEF x, y
    <3> QED
      BY <3>1, <3>2
  <2>2. CASE ReadToReset(s) \/ NextPeriod(s)
    <3>1. x.held \subseteq y.held
      BY <1>1, <1>2, <1>4, <2>2, LockTypes
         DEF LocksOne, ReadToReset, NextPeriod, Is, Session, TypeInv, TypeOK
    <3> QED
      BY <3>1 DEF LockInv, LocksExclude
  <2> QED
    BY <2>1, <2>2
<1>6. SessionLocks(x)
  BY <1>2, <1>4 DEF SessionLocks, LocksOne, Renewing, Closing
<1> QED
  BY <1>3, <1>5, <1>6, OneSessionLocks

\* A commit: what others have locked is left alone, and nothing goes missing.
LEMMA CommitLocks ==
  ASSUME LockInv, ResInv', NEW s \in Sessions,
         \A t \in Sessions \ {s} : session'[t] = session[t], Unlocked(session'[s]),
         \A t \in Sessions \ {s} : \A w \in session[t].held : wallet'[w] = wallet[w],
         \A w \in Wallets : wallet[w].exists => wallet'[w].exists,
         MissingIsEmpty', HoldsExist',
         \A t \in Sessions \ {s} : session[t].doing \in Closing =>
           reservation'[session[t].res].holds = reservation[session[t].res].holds
  PROVE  LockInv'
<1>1. LocksExclude'
  BY DEF LockInv, LocksExclude, Unlocked
<1>2. ASSUME NEW t \in Sessions PROVE SessionLocks(session[t])'
  <2>1. CASE t = s
    BY <2>1 DEF Unlocked, SessionLocks, Protects, Renewing, Closing
  <2>2. CASE t # s
    BY <2>2, OthersKeepLocks
  <2> QED
    BY <2>1, <2>2
<1> QED
  BY <1>1, <1>2 DEF LockInv

\* A wallet that is not there is not locked.
LEMMA MissingIsFree ==
  ASSUME LockInv, NEW w \in Wallets, ~wallet[w].exists, NEW t \in Sessions
  PROVE  w \notin session[t].held
<1>1. SessionLocks(session[t])
  BY DEF LockInv
<1>2. CASE session[t].doing \in Renewing
  BY <1>1, <1>2 DEF SessionLocks, LocksOne
<1>3. CASE session[t].doing \notin Renewing
  BY <1>1, <1>3 DEF SessionLocks, Protects
<1> QED
  BY <1>2, <1>3

\* A row another transaction has locked is not one that this one writes.
LEMMA WrittenIsMine ==
  ASSUME LockInv, NEW s \in Sessions, session[s].doing \notin Renewing, ~Clashes(s),
         NEW w \in Written(s), NEW t \in Sessions \ {s}
  PROVE  w \notin session[t].held
<1>1. w \in Wallets /\ session[s] \in Session /\ SessionLocks(session[s])
  BY LockTypes DEF Written, LockInv, TypeInv, TypeOK, Session
<1>2. Protects(session[s])
  BY <1>1 DEF SessionLocks
<1>3. CASE session[s].seen[w].exists
  <2>1. w \in session[s].held
    BY <1>1, <1>2, <1>3 DEF Protects, NoWallet
  <2> QED
    BY <2>1 DEF LockInv, LocksExclude
<1>4. CASE ~session[s].seen[w].exists
  <2>1. ~wallet[w].exists
    BY <1>4 DEF Clashes
  <2> QED
    BY <1>1, <2>1, MissingIsFree
<1> QED
  BY <1>3, <1>4
LEMMA EndsUnlocks ==
  ASSUME LockInv, NEW s \in Sessions, Ends(s)
  PROVE  Unlocked(session'[s]) /\ \A t \in Sessions \ {s} : session'[t] = session[t]
<1>1. Unlocked(IdleSession)
  BY IdleHoldsNothing DEF Unlocked
<1> QED
  BY <1>1, SessionIs, LockTypes DEF Ends

LEMMA HoldLocks ==
  ASSUME LockInv, ResInv', NEW s \in Sessions, Hold(s)
  PROVE  LockInv'
<1> DEFINE r == session[s].res
<1>1. session[s].doing = "reserve" /\ "reserve" \notin Renewing \union Closing /\ ~Clashes(s)
  BY DEF Hold, Ready, Is, Renewing, Closing
<1>2. r \in Reservations /\ reservation[r].state = "none"
  BY <1>1 DEF LockInv, ResInv, TypeInv, SessionWellFormed, ReservesAlone
<1>3. \A w \in Wallets : /\ w \in Written(s) => wallet'[w].exists
                         /\ w \notin Written(s) => wallet'[w] = wallet[w]
  BY Zenon, LockTypes DEF Hold, TypeInv, TypeOK, Wallet
<1>4. /\ reservation'[r].holds = Written(s)
      /\ \A q \in Reservations \ {r} : reservation'[q] = reservation[q]
  BY Zenon, <1>2, LockTypes DEF Hold, TypeInv, TypeOK, NotReserved
<1>5. Written(s) \in SUBSET Wallets
  BY LockTypes DEF Written, TypeInv, TypeOK, Session
<1>6. \A t \in Sessions \ {s} : \A w \in session[t].held : wallet'[w] = wallet[w]
  <2>1. \A t \in Sessions : session[t].held \in SUBSET Wallets
    BY LockTypes DEF TypeInv, TypeOK, Session
  <2> QED
    BY <1>1, <1>3, <2>1, WrittenIsMine
<1>7. MissingIsEmpty' /\ \A w \in Wallets : wallet[w].exists => wallet'[w].exists
  BY Zenon, <1>3 DEF LockInv, MissingIsEmpty, Hold
<1>8. HoldsExist'
  BY <1>2, <1>3, <1>4, <1>5, <1>7, LockTypes DEF LockInv, HoldsExist, TypeInv, TypeOK, Reservation
<1>9. \A t \in Sessions \ {s} : session[t].doing \in Closing =>
        reservation'[session[t].res].holds = reservation[session[t].res].holds
  BY <1>2, <1>4 DEF LockInv, ResInv, ClosesWhatIsHeld, TypeInv, SessionWellFormed
<1> QED
  BY Zenon, <1>6, <1>7, <1>8, <1>9, EndsUnlocks, CommitLocks DEF Hold

LEMMA RefuseLocks ==
  ASSUME LockInv, ResInv', NEW s \in Sessions, Refuse(s)
  PROVE  LockInv'
<1>1. /\ wallet'[Company].exists
      /\ wallet[Company].exists => wallet'[Company] = wallet[Company]
      /\ \A w \in Wallets \ {Company} : wallet'[w] = wallet[w]
  BY LockTypes, CostAssumption DEF Refuse, TypeInv, TypeOK, Wallet
<1>2. \A t \in Sessions : session[t].held \in SUBSET Wallets
  BY LockTypes DEF TypeInv, TypeOK, Session
<1>3. \A t \in Sessions \ {s} : \A w \in session[t].held : wallet'[w] = wallet[w]
  <2>1. \A t \in Sessions : \A w \in session[t].held : w \in Wallets /\ wallet[w].exists
    BY <1>2, MissingIsFree
  <2> QED
    BY <1>1, <2>1
<1>4. MissingIsEmpty' /\ \A w \in Wallets : wallet[w].exists => wallet'[w].exists
  BY <1>1 DEF LockInv, MissingIsEmpty, Refuse
<1>5. HoldsExist'
  BY <1>4, LockTypes DEF LockInv, HoldsExist, TypeInv, TypeOK, Reservation, Refuse
<1> QED
  BY <1>3, <1>4, <1>5, EndsUnlocks, CommitLocks DEF Refuse

\* The last lock taken, a closing transaction has them all.
LEMMA ClosingHasAll ==
  ASSUME LockInv, NEW s \in Sessions, session[s].doing \in Closing, session[s].todo = << >>,
         NEW w \in reservation[session[s].res].holds
  PROVE  w \in session[s].held /\ wallet[w].exists
BY DEF LockInv, SessionLocks, LocksItsHolds, Listed

LEMMA CloseLocks ==
  ASSUME LockInv, ResInv', NEW s \in Sessions, Settle(s) \/ Release(s)
  PROVE  LockInv'
<1> DEFINE r == session[s].res
           holds == reservation[r].holds
<1>1. session[s].doing \in Closing /\ session[s].todo = << >>
  BY Zenon DEF Settle, Release, Ready, Is, Closing
<1>2. r \in Reservations /\ holds \in SUBSET Wallets
  BY <1>1, LockTypes DEF TypeInv, SessionWellFormed, TypeOK, Reservation
<1>3. \A w \in Wallets : /\ wallet'[w].exists = wallet[w].exists
                         /\ w \notin holds => wallet'[w] = wallet[w]
  <2>1. \A w \in Wallets : wallet[w] \in Wallet
    BY LockTypes DEF TypeInv, TypeOK
  <2>2. CASE Settle(s)
    BY Zenon, <2>1, <2>2 DEF Settle, Wallet
  <2>3. CASE Release(s)
    BY <2>1, <2>3 DEF Release, ReleasedFrom, Wallet
  <2> QED
    BY <2>2, <2>3
<1>4. /\ reservation'[r].state # "Held" /\ reservation'[r].holds = holds
      /\ \A q \in Reservations \ {r} : reservation'[q] = reservation[q]
  <2>1. reservation[r] \in Reservation
    BY <1>2, LockTypes DEF TypeInv, TypeOK
  <2>2. CASE Settle(s)
    BY Zenon, <1>2, <2>1, <2>2, LockTypes DEF Settle, TypeInv, TypeOK, Reservation
  <2>3. CASE Release(s)
    BY <1>2, <2>1, <2>3, LockTypes DEF Release, TypeInv, TypeOK, Reservation
  <2> QED
    BY <2>2, <2>3
<1>5. \A w \in holds : w \in session[s].held /\ wallet[w].exists
  BY <1>1, ClosingHasAll
<1>6. \A t \in Sessions \ {s} : \A w \in session[t].held : wallet'[w] = wallet[w]
  <2>1. \A t \in Sessions : session[t].held \in SUBSET Wallets
    BY LockTypes DEF TypeInv, TypeOK, Session
  <2> QED
    BY <1>3, <1>5, <2>1 DEF LockInv, LocksExclude
<1>7. MissingIsEmpty' /\ \A w \in Wallets : wallet[w].exists => wallet'[w].exists
  BY Zenon, <1>3, <1>5 DEF LockInv, MissingIsEmpty, Settle, Release
<1>8. HoldsExist'
  BY <1>2, <1>4, <1>7, LockTypes DEF LockInv, HoldsExist, TypeInv, TypeOK, Reservation
<1>9. \A t \in Sessions \ {s} : session[t].doing \in Closing =>
        reservation'[session[t].res].holds = reservation[session[t].res].holds
  BY <1>4 DEF LockInv, ResInv, TypeInv, SessionWellFormed
<1>10. Unlocked(session'[s]) /\ \A t \in Sessions \ {s} : session'[t] = session[t]
  <2>1. CASE Settle(s)
    BY Zenon, <2>1, EndsUnlocks DEF Settle
  <2>2. CASE Release(s)
    <3> DEFINE x == [IdleSession EXCEPT !.rest = session[s].rest,
                                        !.doing = IF session[s].rest = {} THEN "idle" ELSE "sweep"]
    <3>1. session' = [session EXCEPT ![s] = x]
      BY <2>2 DEF Release
    <3>2. Unlocked(x)
      BY DEF Unlocked, IdleSession
    <3> QED
      BY Zenon, <3>1, <3>2, SessionIs, LockTypes
  <2> QED
    BY <2>1, <2>2
<1> QED
  BY <1>6, <1>7, <1>8, <1>9, <1>10, CommitLocks

LEMMA ChangeLocks ==
  ASSUME LockInv, ResInv', NEW s \in Sessions, Set(s) \/ Adjust(s)
  PROVE  LockInv'
<1> DEFINE w == session[s].of
<1>1. session[s].doing \in {"set", "adjust"} /\ session[s].doing \notin Renewing \union Closing
  BY DEF Set, Adjust, Ready, Is, Renewing, Closing
<1>2. session[s] \in Session /\ SessionLocks(session[s]) /\ w \in Wallets /\ ~Clashes(s)
  BY Zenon, LockTypes DEF LockInv, TypeInv, TypeOK, Session, Set, Adjust, WriteAllowance
<1>3. w \in Written(s)
  BY <1>1, <1>2 DEF SessionLocks, Written
<1>4. \A v \in Wallets :
        /\ v \in Written(s) => wallet'[v].exists
        /\ v \notin Written(s) => wallet'[v] = wallet[v]
  <2>1. PICK a : WriteAllowance(s, a)
    BY DEF Set, Adjust
  <2>2. ASSUME NEW v \in Wallets
        PROVE  /\ v \in Written(s) => wallet'[v].exists
               /\ v \notin Written(s) => wallet'[v] = wallet[v]
    <3>1. wallet[v] \in Wallet
      BY LockTypes DEF TypeInv, TypeOK
    <3>2. CASE v = w
      <4>1. wallet'[v] = [wallet[v] EXCEPT !.exists = TRUE, !.allowance = a]
        BY <2>1, <3>2 DEF WriteAllowance
      <4> QED
        BY <1>3, <3>1, <3>2, <4>1 DEF Wallet
    <3>3. CASE v # w
      <4>1. wallet'[v] = [wallet[v] EXCEPT !.exists = @ \/ v \in Written(s)]
        BY Zenon, <2>1, <3>3 DEF WriteAllowance
      <4> QED
        BY <3>1, <4>1 DEF Wallet
    <3> QED
      BY <3>2, <3>3
  <2> QED
    BY <2>2
<1>5. \A t \in Sessions \ {s} : \A v \in session[t].held : wallet'[v] = wallet[v]
  <2>1. \A t \in Sessions : session[t].held \in SUBSET Wallets
    BY LockTypes DEF TypeInv, TypeOK, Session
  <2> QED
    BY <1>1, <1>2, <1>4, <2>1, WrittenIsMine
<1>6. \A v \in Wallets : wallet[v].exists => wallet'[v].exists
  BY <1>4
<1>7. MissingIsEmpty'
  <2>1. \A v \in Wallets \ {w} : renewal'[v] = renewal[v]
    BY <1>2, LockTypes DEF Set, Adjust, TypeInv, TypeOK
  <2> QED
    BY <1>3, <1>4, <2>1 DEF LockInv, MissingIsEmpty
<1>8. reservation' = reservation /\ Ends(s)
  BY Zenon DEF Set, Adjust, WriteAllowance
<1>9. HoldsExist'
  BY <1>6, <1>8, LockTypes DEF LockInv, HoldsExist, TypeInv, TypeOK, Reservation
<1> QED
  BY <1>5, <1>6, <1>7, <1>8, <1>9, EndsUnlocks, CommitLocks

LEMMA RenewLocks ==
  ASSUME LockInv, ResInv', NEW s \in Sessions, Renew(s)
  PROVE  LockInv'
<1> DEFINE w == session[s].of
<1>1. session[s].doing = "renewing" /\ SessionLocks(session[s]) /\ w \in Wallets
  BY LockTypes DEF Renew, Is, LockInv, TypeInv, TypeOK, Session
<1>2. session[s].held = {w} /\ wallet[w].exists
  BY <1>1 DEF SessionLocks, LocksOne, Renewing
<1>3. /\ wallet'[w].exists
      /\ \A v \in Wallets \ {w} : wallet'[v] = wallet[v]
      /\ \A v \in Wallets : renewal'[v].grant = renewal[v].grant
      /\ reservation' = reservation
  BY <1>1, <1>2, LockTypes DEF Renew, TypeInv, TypeOK, Wallet, Renewal
<1>4. \A t \in Sessions \ {s} : \A v \in session[t].held : wallet'[v] = wallet[v]
  <2>1. \A t \in Sessions : session[t].held \in SUBSET Wallets
    BY LockTypes DEF TypeInv, TypeOK, Session
  <2> QED
    BY <1>2, <1>3, <2>1 DEF LockInv, LocksExclude
<1>5. MissingIsEmpty' /\ \A v \in Wallets : wallet[v].exists => wallet'[v].exists
  BY <1>2, <1>3 DEF LockInv, MissingIsEmpty
<1>6. HoldsExist'
  BY <1>3, <1>5, LockTypes DEF LockInv, HoldsExist, TypeInv, TypeOK, Reservation
<1> QED
  BY <1>3, <1>4, <1>5, <1>6, EndsUnlocks, CommitLocks DEF Renew

LEMMA EndsLocks ==
  ASSUME LockInv, ResInv', NEW s \in Sessions, Ends(s), UNCHANGED << wallet, renewal, reservation >>
  PROVE  LockInv'
BY EndsUnlocks, BeginUnlocked

LEMMA ExpireNextLocks ==
  ASSUME LockInv, ResInv', NEW s \in Sessions, ExpireNext(s)
  PROVE  LockInv'
<1>1. PICK r \in session[s].rest :
        \/ BeginClose(s, r, "expire", 0, session[s].rest \ {r})
        \/ Ends(s) /\ UNCHANGED << wallet, ledger, renewal, reservation, now, changes >>
  BY DEF ExpireNext
<1>2. r \in Reservations
  BY LockTypes DEF TypeInv, TypeOK, Session
<1> QED
  BY <1>1, <1>2, BeginCloseLocks, EndsLocks DEF Closing

\* Steps that leave the sessions alone.
LEMMA OutsideLocks ==
  ASSUME LockInv, ResInv',
         OpenCompanyWallet \/ PeriodEnds \/ UNCHANGED vars \/ \E r \in Reservations : GrowsOld(r)
  PROVE  LockInv'
<1>1. /\ session' = session /\ renewal' = renewal
      /\ \A r \in Reservations : /\ reservation'[r].state = reservation[r].state
                                 /\ reservation'[r].holds = reservation[r].holds
  BY LockTypes DEF OpenCompanyWallet, PeriodEnds, vars, GrowsOld, TypeInv, TypeOK, Reservation
<1>2. \A w \in Wallets : /\ wallet[w].exists => wallet'[w] = wallet[w]
                         /\ ~wallet[w].exists => wallet'[w].exists \/ wallet'[w] = wallet[w]
  BY LockTypes DEF OpenCompanyWallet, PeriodEnds, vars, GrowsOld, TypeInv, TypeOK, Wallet, NoWallet
<1>3. MissingIsEmpty'
  BY <1>1, <1>2 DEF LockInv, MissingIsEmpty
<1>4. HoldsExist'
  BY <1>1, <1>2, LockTypes DEF LockInv, HoldsExist, TypeInv, TypeOK, Reservation
<1>5. LocksExclude'
  BY <1>1 DEF LockInv, LocksExclude
<1>6. ASSUME NEW t \in Sessions PROVE SessionLocks(session[t])'
  <2>1. \A w \in session[t].held : wallet'[w] = wallet[w]
    BY <1>2, MissingIsFree, LockTypes DEF TypeInv, TypeOK, Session
  <2>2. session[t].doing \in Closing => session[t].res \in Reservations
    BY LockTypes DEF TypeInv, SessionWellFormed
  <2> QED
    BY <1>1, <1>2, <2>1, <2>2, OthersKeepLocks
<1> QED
  BY <1>3, <1>4, <1>5, <1>6 DEF LockInv
LEMMA LockInvPreserved == LockInv /\ [Next]_vars => LockInv'
<1> SUFFICES ASSUME LockInv, [Next]_vars PROVE LockInv'
  OBVIOUS
<1>1. ResInv'
  BY ResInvPreserved DEF LockInv
<1>2. ASSUME NEW s \in Sessions, Begin(s) PROVE LockInv'
  <2>1. ASSUME NEW r \in Reservations, NEW actual, BeginSettle(s, r, actual) PROVE LockInv'
    BY <1>1, <2>1, BeginCloseLocks DEF BeginSettle, Closing
  <2>2. ASSUME NEW r \in Reservations, BeginRelease(s, r) PROVE LockInv'
    BY <1>1, <2>2, BeginCloseLocks DEF BeginRelease, Closing
  <2>3. ASSUME NEW w \in Wallets, NEW a, NEW recurs, BeginSet(s, w, a, recurs) PROVE LockInv'
    BY <1>1, <2>3, BeginChangeLocks DEF BeginSet
  <2>4. ASSUME NEW w \in Wallets, NEW delta, BeginAdjust(s, w, delta) PROVE LockInv'
    BY <1>1, <2>4, BeginChangeLocks DEF BeginAdjust
  <2> QED
    BY <1>1, <1>2, <2>1, <2>2, <2>3, <2>4, BeginReserveLocks, BeginSweepLocks, BeginResetLocks
       DEF Begin
<1>3. ASSUME NEW s \in Sessions, Proceed(s) PROVE LockInv'
  BY <1>1, <1>3, LockNextLocks, HoldLocks, RefuseLocks, CloseLocks, ExpireNextLocks, ChangeLocks,
     RenewalStepLocks, RenewLocks DEF Proceed
<1>4. ASSUME NEW s \in Sessions, Abort(s) PROVE LockInv'
  BY <1>1, <1>4, EndsLocks DEF Abort
<1>5. CASE OpenCompanyWallet \/ PeriodEnds \/ UNCHANGED vars \/ \E r \in Reservations : GrowsOld(r)
  BY <1>1, <1>5, OutsideLocks
<1> QED
  BY <1>2, <1>3, <1>4, <1>5 DEF Next

LEMMA LockInvInitially == Init => LockInv
<1> SUFFICES ASSUME Init PROVE LockInv
  OBVIOUS
<1>1. ResInv
  BY TypeInvInitially, IdleSessionFields
     DEF Init, ResInv, ClosesWhatIsHeld, ClosesAlone, ReservesAlone, Closing
<1>2. MissingIsEmpty
  BY DEF Init, MissingIsEmpty, NoRenewal
<1>3. HoldsExist
  BY DEF Init, HoldsExist, NotReserved
<1>4. LocksExclude
  BY IdleHoldsNothing DEF Init, LocksExclude
<1>5. Unlocked(IdleSession)
  BY IdleHoldsNothing DEF Unlocked
<1>6. \A s \in Sessions : SessionLocks(session[s])
  BY <1>5, UnlockedLocks DEF Init
<1> QED
  BY <1>1, <1>2, <1>3, <1>4, <1>6 DEF LockInv

LEMMA LockInvAlways == Spec => []LockInv
BY LockInvInitially, LockInvPreserved, PTL DEF Spec

\* What a decision was made on is what it is committed over.
LEMMA DecidedOnWhatIs ==
  ASSUME LockInv, NEW s \in Sessions, session[s].doing \notin Renewing, ~Clashes(s),
         NEW w \in Written(s)
  PROVE  session[s].seen[w] = wallet[w]
<1>1. w \in Wallets /\ session[s] \in Session /\ SessionLocks(session[s])
  BY LockTypes DEF Written, LockInv, TypeInv, TypeOK, Session
<1>2. Protects(session[s])
  BY <1>1 DEF SessionLocks
<1>3. CASE session[s].seen[w].exists
  BY <1>1, <1>2, <1>3 DEF Protects, NoWallet
<1>4. CASE ~session[s].seen[w].exists
  BY <1>1, <1>2, <1>4 DEF Clashes, LockInv, MissingIsEmpty, Protects
<1> QED
  BY <1>3, <1>4

LEMMA HoldIsAffordable ==
  ASSUME LockInv, NEW s \in Sessions, Hold(s), NEW w \in Written(s)
  PROVE  Committed(wallet'[w]) <= Ceiling(wallet'[w].allowance)
<1> DEFINE e == session[s].amount
           c == Ceiling(wallet[w].allowance)
<1>1. session[s].doing = "reserve" /\ w \in Wallets /\ e \in Nat
  BY Zenon, LockTypes DEF Hold, Ready, Is, Written, TypeInv, TypeOK, SessionWellFormed, Session
<1>2. session[s].seen[w] = wallet[w] /\ wallet[w] \in Wallet
  BY <1>1, DecidedOnWhatIs, LockTypes DEF Hold, TypeInv, TypeOK, Renewing
<1>3. ~(wallet[w].used + wallet[w].reserved + e > c)
  BY Zenon, <1>2 DEF Hold, Affordable, HardStopped, Committed
<1>4. wallet'[w] = [wallet[w] EXCEPT !.exists = TRUE, !.reserved = @ + e]
  BY <1>1 DEF Hold
<1>5. /\ wallet'[w].used = wallet[w].used /\ wallet'[w].allowance = wallet[w].allowance
      /\ wallet'[w].reserved = wallet[w].reserved + e
      /\ wallet[w].used \in Nat /\ wallet[w].reserved \in Nat /\ wallet[w].allowance \in Nat
  BY <1>2, <1>4 DEF Wallet
<1>6. c \in Int
  BY <1>5, CostAssumption DEF Ceiling
<1> HIDE DEF c
<1>7. wallet[w].used + (wallet[w].reserved + e) <= c
  BY <1>1, <1>3, <1>5, <1>6
<1> QED
  BY <1>5, <1>7 DEF Committed, c

\* A reservation becomes held only by the commit of a decision to hold it.
LEMMA HeldByHold ==
  ASSUME LockInv, [Next]_vars, NEW r \in Reservations,
         reservation[r].state = "none", reservation'[r].state = "Held",
         NEW w \in reservation'[r].holds
  PROVE  Committed(wallet'[w]) <= Ceiling(wallet'[w].allowance)
<1>1. ASSUME NEW s \in Sessions, Begin(s) PROVE FALSE
  BY Zenon, <1>1 DEF Begin, BeginReserve, BeginSettle, BeginRelease, BeginClose, BeginSweep, BeginSet,
     BeginAdjust, BeginChange, BeginReset
<1>2. CASE OpenCompanyWallet \/ PeriodEnds \/ UNCHANGED vars \/ \E s \in Sessions : Abort(s)
  BY <1>2 DEF OpenCompanyWallet, PeriodEnds, vars, Abort
<1>3. ASSUME NEW q \in Reservations, GrowsOld(q) PROVE FALSE
  BY <1>3, LockTypes DEF GrowsOld, TypeInv, TypeOK
<1>4. ASSUME NEW s \in Sessions, Settle(s) \/ Release(s) PROVE FALSE
  <2>1. r # session[s].res
    BY Zenon, <1>4 DEF Settle, Release, Ready, Is, Closing, LockInv, ResInv, ClosesWhatIsHeld
  <2> QED
    BY Zenon, <1>4, <2>1, LockTypes DEF Settle, Release, TypeInv, TypeOK
<1>5. ASSUME NEW s \in Sessions, Hold(s)
      PROVE  Committed(wallet'[w]) <= Ceiling(wallet'[w].allowance)
  <2>1. session[s].res \in Reservations
    BY <1>5, LockTypes DEF Hold, Ready, Is, TypeInv, SessionWellFormed
  <2>2. r = session[s].res
    BY <1>5, <2>1, LockTypes DEF Hold, TypeInv, TypeOK
  <2>3. reservation'[r].holds = Written(s)
    BY <1>5, <2>2, LockTypes DEF Hold, TypeInv, TypeOK, NotReserved
  <2> QED
    BY <1>5, <2>3, HoldIsAffordable
<1>6. ASSUME NEW s \in Sessions,
             \/ LockNext(s) \/ Refuse(s) \/ ExpireNext(s) \/ Set(s) \/ Adjust(s)
             \/ ReadToReset(s) \/ FirstPeriod(s) \/ NextPeriod(s) \/ Renew(s)
      PROVE  FALSE
  BY Zenon, <1>6 DEF LockNext, Refuse, ExpireNext, BeginClose, Set, Adjust, WriteAllowance,
     ReadToReset, FirstPeriod, NextPeriod, Renew
<1> QED
  BY <1>1, <1>2, <1>3, <1>4, <1>5, <1>6 DEF Next, Proceed

\* However many transactions decide at once, over however many levels, what is committed at
\* a level never passes its hard stop by a reservation that was admitted.
THEOREM HoldsStayWithinHardStop == Spec => NeverPastHardStop
<1>1. LockInv /\ [Next]_vars =>
        [\A r \in Reservations :
           (reservation[r].state = "none" /\ reservation'[r].state = "Held")
             => \A w \in reservation'[r].holds :
                  Committed(wallet'[w]) <= Ceiling(wallet'[w].allowance)]_vars
  BY HeldByHold
<1> QED
  BY <1>1, LockInvAlways, PTL DEF Spec, NeverPastHardStop
-----------------------------------------------------------------------------
(* Nobody waits in a circle.                                               *)

Ordered == {"reserve", "set", "adjust"}

\* Outermost first: what is still to lock is below what is locked, in this order.
OutermostFirst(x) ==
  /\ \A i, j \in 1..Len(x.todo) : i < j => Level[x.todo[i]] < Level[x.todo[j]]
  /\ \A w \in x.held : \A i \in 1..Len(x.todo) : Level[w] < Level[x.todo[i]]

OrderInv ==
  TypeInv /\ \A s \in Sessions : session[s].doing \in Ordered => OutermostFirst(session[s])

LEMMA LevelNat == \A w \in Wallets : Level[w] \in 0..4
BY CostAssumption

\* A transaction that begins in the order of scopesToCheck, holding nothing.
LEMMA BeginsInOrder ==
  ASSUME TypeInv, NEW path \in SUBSET Wallets, NEW order \in LockOrders(path), NEW x,
         x.todo = order, x.held = {}
  PROVE  OutermostFirst(x)
<1>1. order \in Seq(Wallets) /\ DOMAIN order = 1..Len(order)
  BY OrdersAreSequences DEF LockOrders
<1>2. \A i, j \in DOMAIN order : i < j => Level[order[i]] < Level[order[j]]
  BY DEF LockOrders
<1> QED
  BY <1>1, <1>2 DEF OutermostFirst

LEMMA LocksInOrder ==
  ASSUME OrderInv, NEW s \in Sessions, LockNext(s), session[s].doing \in Ordered
  PROVE  OutermostFirst(session'[s])
<1> DEFINE q == session[s].todo
           w == Head(q)
           x == session'[s]
<1>1. session[s] \in Session /\ q \in Seq(Wallets) /\ q # << >>
  BY DEF OrderInv, TypeInv, TypeOK, LockNext, Session
<1>2. x.todo = Tail(q) /\ x.held \subseteq session[s].held \union {w}
  BY <1>1 DEF LockNext, OrderInv, TypeInv, TypeOK, Session
<1>3. /\ \A i, j \in 1..Len(q) : i < j => Level[q[i]] < Level[q[j]]
      /\ \A v \in session[s].held : \A i \in 1..Len(q) : Level[v] < Level[q[i]]
  BY DEF OrderInv, OutermostFirst
<1>4. /\ Len(Tail(q)) = Len(q) - 1 /\ Len(q) \in Nat \ {0}
      /\ \A i \in 1..Len(Tail(q)) : Tail(q)[i] = q[i + 1]
  BY <1>1, HeadTailProperties
<1>5. w = q[1]
  BY <1>1
<1>6. \A i \in 1..Len(Tail(q)) : i + 1 \in 1..Len(q) /\ 1 < i + 1
  BY <1>4
<1>7. \A i, j \in 1..Len(Tail(q)) : i < j => Level[Tail(q)[i]] < Level[Tail(q)[j]]
  <2>1. \A i, j \in 1..Len(Tail(q)) : i < j => i + 1 < j + 1
    BY <1>4
  <2> QED
    BY <1>3, <1>4, <1>6, <2>1
<1>8. \A v \in x.held : \A i \in 1..Len(Tail(q)) : Level[v] < Level[Tail(q)[i]]
  <2>1. 1 \in 1..Len(q)
    BY <1>4
  <2> QED
    BY <1>2, <1>3, <1>4, <1>5, <1>6, <2>1
<1> QED
  BY <1>2, <1>7, <1>8 DEF OutermostFirst

\* The steps that touch a session: which of them leave it locking in order.
LEMMA SessionsInOrder ==
  ASSUME OrderInv, TypeInv', NEW s \in Sessions, Begin(s) \/ Proceed(s) \/ Abort(s)
  PROVE  OrderInv'
<1> DEFINE x == session'[s]
           Good == /\ \A t \in Sessions \ {s} : session'[t] = session[t]
                   /\ x.doing \in Ordered => OutermostFirst(x)
<1>1. SUFFICES Good
  BY DEF OrderInv, OutermostFirst
<1>2. ASSUME NEW y, session' = [session EXCEPT ![s] = y],
             y.doing \in Ordered => OutermostFirst(y)
      PROVE  Good
  <2>1. x = y /\ \A t \in Sessions \ {s} : session'[t] = session[t]
    BY <1>2, SessionIs DEF OrderInv
  <2> QED
    BY <1>2, <2>1
<1>3. CASE Ends(s)
  BY <1>2, <1>3, IdleHoldsNothing DEF Ends, Ordered
<1>4. ASSUME NEW r \in Reservations, NEW path \in Paths, NEW e, BeginReserve(s, r, path, e)
      PROVE  Good
  <2> DEFINE y(order) == [IdleSession EXCEPT !.doing = "reserve", !.res = r, !.path = path,
                                             !.todo = order, !.amount = e]
  <2>1. PICK order \in LockOrders(path) : session' = [session EXCEPT ![s] = y(order)]
    BY <1>4 DEF BeginReserve
  <2>2. y(order).todo = order /\ y(order).held = {}
    BY DEF IdleSession
  <2> HIDE DEF y
  <2>3. OutermostFirst(y(order))
    BY <2>2, BeginsInOrder, CostAssumption DEF OrderInv
  <2> QED
    BY <1>2, <2>1, <2>3
<1>5. ASSUME NEW doing, NEW path \in SUBSET Wallets, NEW w, NEW a, NEW recurs,
             BeginChange(s, doing, path, w, a, recurs)
      PROVE  Good
  <2> DEFINE y(order) == [IdleSession EXCEPT !.doing = doing, !.path = path, !.of = w, !.todo = order,
                                             !.amount = a, !.recurs = recurs]
  <2>1. PICK order \in LockOrders(path) : session' = [session EXCEPT ![s] = y(order)]
    BY <1>5 DEF BeginChange
  <2>2. y(order).todo = order /\ y(order).held = {}
    BY DEF IdleSession
  <2> HIDE DEF y
  <2>3. OutermostFirst(y(order))
    BY <2>2, BeginsInOrder DEF OrderInv
  <2> QED
    BY <1>2, <2>1, <2>3
<1>6. ASSUME NEW r, NEW how \in Closing, NEW actual, NEW rest, BeginClose(s, r, how, actual, rest)
      PROVE  Good
  <2> DEFINE y(order) == [IdleSession EXCEPT !.doing = how, !.res = r, !.path = reservation[r].holds,
                                             !.todo = order, !.amount = actual, !.rest = rest]
  <2>1. PICK order : session' = [session EXCEPT ![s] = y(order)]
    BY <1>6 DEF BeginClose
  <2>2. y(order).doing = how
    BY DEF IdleSession
  <2> HIDE DEF y
  <2> QED
    BY <1>2, <2>1, <2>2 DEF Ordered, Closing
<1>7. CASE BeginSweep(s)
  <2> DEFINE y(rest) == [IdleSession EXCEPT !.doing = "sweep", !.rest = rest]
  <2>1. PICK rest : session' = [session EXCEPT ![s] = y(rest)]
    BY Zenon, <1>7 DEF BeginSweep
  <2>2. y(rest).doing = "sweep"
    BY DEF IdleSession
  <2> HIDE DEF y
  <2> QED
    BY <1>2, <2>1, <2>2 DEF Ordered
<1>8. ASSUME NEW w, BeginReset(s, w)
      PROVE  Good
  <2> DEFINE y == [IdleSession EXCEPT !.doing = "dueRead", !.of = w, !.amount = renewal[w].grant,
                     !.left = LeftOver(wallet[w]), !.at = renewal[w].at, !.until = now]
  <2>1. session' = [session EXCEPT ![s] = y]
    BY <1>8 DEF BeginReset
  <2>2. y.doing = "dueRead"
    BY DEF IdleSession
  <2> HIDE DEF y
  <2> QED
    BY <1>2, <2>1, <2>2 DEF Ordered
<1>9. CASE LockNext(s)
  <2>1. \A t \in Sessions \ {s} : session'[t] = session[t]
    BY <1>9 DEF LockNext, OrderInv, TypeInv, TypeOK
  <2>2. x.doing = session[s].doing
    BY ZenonT(60), <1>9 DEF LockNext, OrderInv, TypeInv, TypeOK, Session
  <2> QED
    BY <1>9, <2>1, <2>2, LocksInOrder
<1>10. CASE ReadToReset(s) \/ FirstPeriod(s) \/ NextPeriod(s)
  <2>1. \A t \in Sessions \ {s} : session'[t] = session[t]
    BY <1>10 DEF ReadToReset, FirstPeriod, NextPeriod, OrderInv, TypeInv, TypeOK
  <2>2. x.doing \in Renewing
    <3>1. session[s] \in Session
      BY DEF OrderInv, TypeInv, TypeOK
    <3>2. CASE ReadToReset(s)
      BY <3>1, <3>2 DEF ReadToReset, Session, Renewing, OrderInv, TypeInv, TypeOK
    <3>3. CASE FirstPeriod(s)
      BY Zenon, <3>1, <3>3 DEF FirstPeriod, Session, Renewing, OrderInv, TypeInv, TypeOK
    <3>4. CASE NextPeriod(s)
      BY Zenon, <3>1, <3>4 DEF NextPeriod, Is, Session, Renewing, OrderInv, TypeInv, TypeOK
    <3> QED
      BY <1>10, <3>2, <3>3, <3>4
  <2> QED
    BY <2>1, <2>2 DEF Renewing, Ordered
<1>11. CASE Release(s)
  <2> DEFINE y == [IdleSession EXCEPT !.rest = session[s].rest,
                                      !.doing = IF session[s].rest = {} THEN "idle" ELSE "sweep"]
  <2>1. session' = [session EXCEPT ![s] = y]
    BY <1>11 DEF Release
  <2>2. y.doing \in {"idle", "sweep"}
    BY DEF IdleSession
  <2> HIDE DEF y
  <2> QED
    BY <1>2, <2>1, <2>2 DEF Ordered
<1>12. CASE Begin(s)
  <2>1. ASSUME NEW w \in Wallets, NEW a, NEW recurs, BeginSet(s, w, a, recurs) PROVE Good
    BY <1>5, <2>1, CostAssumption DEF BeginSet
  <2>2. ASSUME NEW w \in Wallets, NEW delta, BeginAdjust(s, w, delta) PROVE Good
    BY <1>5, <2>2 DEF BeginAdjust
  <2>3. ASSUME NEW r, NEW actual, BeginSettle(s, r, actual) \/ BeginRelease(s, r) PROVE Good
    BY <1>6, <2>3 DEF BeginSettle, BeginRelease, Closing
  <2> QED
    BY <1>4, <1>7, <1>8, <1>12, <2>1, <2>2, <2>3 DEF Begin
<1>13. CASE Abort(s) \/ Hold(s) \/ Refuse(s) \/ Settle(s) \/ Set(s) \/ Adjust(s) \/ Renew(s)
  BY Zenon, <1>3, <1>13 DEF Abort, Hold, Refuse, Settle, Set, Adjust, WriteAllowance, Renew
<1>14. CASE ExpireNext(s)
  BY <1>3, <1>6, <1>14 DEF ExpireNext, Closing
<1> QED
  BY <1>9, <1>10, <1>11, <1>12, <1>13, <1>14 DEF Proceed

LEMMA OrderInvAlways == Spec => []OrderInv
<1>1. Init => OrderInv
  BY TypeInvInitially, IdleHoldsNothing DEF Init, OrderInv, Ordered
<1>2. OrderInv /\ [Next]_vars => OrderInv'
  <2> SUFFICES ASSUME OrderInv, [Next]_vars PROVE OrderInv'
    OBVIOUS
  <2>1. TypeInv'
    BY TypeInvPreserved DEF OrderInv
  <2>2. CASE OpenCompanyWallet \/ PeriodEnds \/ UNCHANGED vars \/ \E r \in Reservations : GrowsOld(r)
    <3>1. session' = session
      BY <2>2 DEF OpenCompanyWallet, PeriodEnds, vars, GrowsOld
    <3> QED
      BY <2>1, <3>1 DEF OrderInv, OutermostFirst
  <2> QED
    BY <2>1, <2>2, SessionsInOrder DEF Next
<1> QED
  BY <1>1, <1>2, PTL DEF Spec

\* The wallet a transaction waits for is above the one that its holder waits for.
LEMMA WaitsUpwards ==
  ASSUME OrderInv, NEW s \in Sessions, NEW t \in WaitsFor(s), session[t].doing \in Ordered,
         session[t].todo # << >>
  PROVE  Level[Head(session[s].todo)] < Level[Head(session[t].todo)]
<1>1. t \in Sessions /\ Head(session[s].todo) \in session[t].held
  BY DEF WaitsFor
<1>2. session[t].todo \in Seq(Wallets) /\ OutermostFirst(session[t])
  BY <1>1 DEF OrderInv, TypeInv, TypeOK, Session
<1>3. 1 \in 1..Len(session[t].todo) /\ Head(session[t].todo) = session[t].todo[1]
  BY <1>2
<1> QED
  BY <1>1, <1>2, <1>3 DEF OutermostFirst

\* Five scopes leave no room for an endless climb.
LEMMA NoEndlessAscent ==
  ASSUME NEW S, NEW h \in [S -> 0..4], \A s \in S : \E t \in S : h[s] < h[t]
  PROVE  S = {}
<1>1. \A s \in S : h[s] \in 0..4
  OBVIOUS
<1>2. \A s \in S : h[s] < 4
  BY <1>1
<1>3. \A s \in S : h[s] < 3
  BY <1>1, <1>2
<1>4. \A s \in S : h[s] < 2
  BY <1>1, <1>3
<1>5. \A s \in S : h[s] < 1
  BY <1>1, <1>4
<1>6. \A s \in S : h[s] < 0
  BY <1>1, <1>5
<1> QED
  BY <1>1, <1>6

LEMMA NoCircle ==
  ASSUME OrderInv, NEW ss \in SUBSET {s \in Sessions : session[s].doing \in Ordered}
  PROVE  ~InACircle(ss)
<1> SUFFICES ASSUME ss # {}, \A s \in ss : WaitsFor(s) \intersect ss # {}
             PROVE  FALSE
  BY DEF InACircle
<1> DEFINE h == [s \in ss |-> Level[Head(session[s].todo)]]
<1>1. \A s \in ss : s \in Sessions /\ session[s].todo # << >> /\ session[s].doing \in Ordered
  BY DEF WaitsFor
<1>2. h \in [ss -> 0..4]
  <2>1. \A s \in ss : Head(session[s].todo) \in Wallets
    BY <1>1, TailIsSequence DEF OrderInv, TypeInv, TypeOK, Session
  <2> QED
    BY <2>1, LevelNat
<1>3. \A s \in ss : \E t \in ss : h[s] < h[t]
  <2>1. ASSUME NEW s \in ss PROVE \E t \in ss : h[s] < h[t]
    <3>1. PICK t \in ss : t \in WaitsFor(s)
      OBVIOUS
    <3>2. Level[Head(session[s].todo)] < Level[Head(session[t].todo)]
      BY <1>1, <3>1, WaitsUpwards
    <3> QED
      BY <3>2
  <2> QED
    BY <2>1
<1> QED
  BY <1>2, <1>3, NoEndlessAscent

\* Transactions that reserve, or change an allowance, never deadlock among themselves, over
\* any hierarchy: each locks the levels of its path outermost first.
THEOREM HierarchyNeverDeadlocks == Spec => []OutermostFirstNeverDeadlocks
<1>1. OrderInv => OutermostFirstNeverDeadlocks
  BY NoCircle DEF OutermostFirstNeverDeadlocks, Ordered
<1> QED
  BY <1>1, OrderInvAlways, PTL
-----------------------------------------------------------------------------
(* The ledger replays to the wallets.                                      *)

\* What a ledger should replay to.
Books(x) == [allowance |-> x.allowance, used |-> x.used, reserved |-> x.reserved]

LEMMA BooksOf ==
  ASSUME TypeInv, BalanceMatchesLedger, NEW w \in Wallets
  PROVE  /\ wallet[w] \in Wallet /\ ledger[w] \in Balance /\ ledger[w] = Books(wallet[w])
         /\ ledger[w].allowance = wallet[w].allowance /\ ledger[w].used = wallet[w].used
         /\ ledger[w].reserved = wallet[w].reserved
BY DEF TypeInv, TypeOK, BalanceMatchesLedger, Books

LEMMA HoldBalances ==
  ASSUME LockInv, BalanceMatchesLedger, NEW s \in Sessions, Hold(s)
  PROVE  BalanceMatchesLedger'
<1> DEFINE e == session[s].amount
<1>1. e \in Nat /\ e \in Int /\ "Reserve" \in Kind
  <2>1. e \in Nat
    BY LockTypes DEF Hold, Ready, Is, TypeInv, SessionWellFormed, Renewing, Closing
  <2> QED
    BY <2>1 DEF Kind
<1>2. ASSUME NEW w \in Wallets PROVE ledger'[w] = Books(wallet'[w])
  <2>1. /\ wallet[w] \in Wallet /\ ledger[w] \in Balance /\ ledger[w] = Books(wallet[w])
        /\ ledger[w].allowance = wallet[w].allowance /\ ledger[w].used = wallet[w].used
        /\ ledger[w].reserved = wallet[w].reserved
    BY BooksOf, LockTypes
  <2>2. CASE w \in Written(s)
    <3>1. /\ ledger'[w] = Apply(ledger[w], "Reserve", e)
          /\ wallet'[w] = [wallet[w] EXCEPT !.exists = TRUE, !.reserved = @ + e]
      BY <2>2 DEF Hold
    <3>2. ledger'[w] = Effect(ledger[w], "Reserve", e)
      BY <1>1, <2>1, <3>1, ApplyEffect
    <3>3. /\ wallet'[w].allowance = wallet[w].allowance /\ wallet'[w].used = wallet[w].used
          /\ wallet'[w].reserved = wallet[w].reserved + e
      BY <2>1, <3>1 DEF Wallet
    <3> QED
      BY <2>1, <3>2, <3>3 DEF Effect, Books
  <2>3. CASE w \notin Written(s)
    BY <2>1, <2>3 DEF Hold
  <2> QED
    BY <2>2, <2>3
<1> QED
  BY <1>2 DEF BalanceMatchesLedger, Books

LEMMA SettleBalances ==
  ASSUME LockInv, BalanceMatchesLedger, NEW s \in Sessions, Settle(s)
  PROVE  BalanceMatchesLedger'
<1> DEFINE r == session[s].res
           actual == session[s].amount
           e == reservation[r].estimate
<1>1. r \in Reservations /\ actual \in Int
  BY Zenon, LockTypes DEF Settle, Ready, Is, Closing, TypeInv, TypeOK, SessionWellFormed, Session
<1>2. e \in Int /\ "ReleaseReserve" \in Kind /\ "Settle" \in Kind
  BY <1>1, LockTypes DEF TypeInv, TypeOK, Reservation, Kind
<1>3. ASSUME NEW w \in Wallets PROVE ledger'[w] = Books(wallet'[w])
  <2>1. /\ wallet[w] \in Wallet /\ ledger[w] \in Balance /\ ledger[w] = Books(wallet[w])
        /\ ledger[w].allowance = wallet[w].allowance /\ ledger[w].used = wallet[w].used
        /\ ledger[w].reserved = wallet[w].reserved
    BY BooksOf, LockTypes
  <2>2. CASE w \in reservation[r].holds
    <3> DEFINE b == Apply(ledger[w], "ReleaseReserve", e)
    <3>1. /\ ledger'[w] = Apply(b, "Settle", actual)
          /\ wallet'[w] = [wallet[w] EXCEPT !.reserved = @ - e, !.used = @ + actual]
      BY Zenon, <2>2 DEF Settle
    <3>2. b \in Balance /\ b = Effect(ledger[w], "ReleaseReserve", e)
      BY <1>2, <2>1, ApplyEffect
    <3>3. /\ b.allowance = ledger[w].allowance /\ b.used = ledger[w].used
          /\ b.reserved = ledger[w].reserved - e
      BY <3>2 DEF Effect
    <3> HIDE DEF b
    <3>4. ledger'[w] = Effect(b, "Settle", actual)
      BY <1>1, <1>2, <3>1, <3>2, ApplyEffect
    <3>5. /\ wallet'[w].allowance = wallet[w].allowance /\ wallet'[w].used = wallet[w].used + actual
          /\ wallet'[w].reserved = wallet[w].reserved - e
      BY <2>1, <3>1 DEF Wallet
    <3> QED
      BY <2>1, <3>3, <3>4, <3>5 DEF Effect, Books
  <2>3. CASE w \notin reservation[r].holds
    BY Zenon, <2>1, <2>3 DEF Settle
  <2> QED
    BY <2>2, <2>3
<1> QED
  BY <1>3 DEF BalanceMatchesLedger, Books

LEMMA ReleaseBalances ==
  ASSUME LockInv, BalanceMatchesLedger, NEW s \in Sessions, Release(s)
  PROVE  BalanceMatchesLedger'
<1> DEFINE r == session[s].res
           e == reservation[r].estimate
<1>1. r \in Reservations
  BY LockTypes DEF Release, Ready, Is, Closing, TypeInv, SessionWellFormed
<1>2. e \in Int /\ "ReleaseReserve" \in Kind
  BY <1>1, LockTypes DEF TypeInv, TypeOK, Reservation, Kind
<1>3. ASSUME NEW w \in Wallets PROVE ledger'[w] = Books(wallet'[w])
  <2>1. /\ wallet[w] \in Wallet /\ ledger[w] \in Balance /\ ledger[w] = Books(wallet[w])
        /\ ledger[w].allowance = wallet[w].allowance /\ ledger[w].used = wallet[w].used
        /\ ledger[w].reserved = wallet[w].reserved
    BY BooksOf, LockTypes
  <2>2. CASE w \in ReleasedFrom(r)
    <3>1. /\ ledger'[w] = Apply(ledger[w], "ReleaseReserve", e)
          /\ wallet'[w] = [wallet[w] EXCEPT !.reserved = @ - e]
      BY <2>2 DEF Release
    <3>2. ledger'[w] = Effect(ledger[w], "ReleaseReserve", e)
      BY <1>2, <2>1, <3>1, ApplyEffect
    <3>3. /\ wallet'[w].allowance = wallet[w].allowance /\ wallet'[w].used = wallet[w].used
          /\ wallet'[w].reserved = wallet[w].reserved - e
      BY <2>1, <3>1 DEF Wallet
    <3> QED
      BY <2>1, <3>2, <3>3 DEF Effect, Books
  <2>3. CASE w \notin ReleasedFrom(r)
    BY <2>1, <2>3 DEF Release
  <2> QED
    BY <2>2, <2>3
<1> QED
  BY <1>3 DEF BalanceMatchesLedger, Books

\* An allowance is moved by the difference from what was read under the lock.
LEMMA ChangeBalances ==
  ASSUME LockInv, BalanceMatchesLedger, NEW s \in Sessions, Set(s) \/ Adjust(s)
  PROVE  BalanceMatchesLedger'
<1> DEFINE w == session[s].of
<1>1. session[s].doing \in {"set", "adjust"} /\ session[s].doing \notin Renewing
  BY DEF Set, Adjust, Ready, Is, Renewing
<1>2. session[s] \in Session /\ SessionLocks(session[s]) /\ w \in Wallets /\ ~Clashes(s)
  BY Zenon, LockTypes DEF LockInv, TypeInv, TypeOK, Session, Set, Adjust, WriteAllowance
<1>3. w \in Written(s)
  BY <1>1, <1>2 DEF SessionLocks, Written
<1>4. session[s].seen[w] = wallet[w]
  BY <1>1, <1>2, <1>3, DecidedOnWhatIs
<1>5. PICK a \in Nat : WriteAllowance(s, a)
  <2>1. session[s].amount \in Int /\ session[s].seen[w].allowance \in Int
    BY <1>2 DEF Session, Wallet
  <2>2. PICK b \in Int : WriteAllowance(s, b)
    BY <2>1 DEF Set, Adjust
  <2>3. b >= 0
    BY Zenon, <2>2 DEF WriteAllowance, Accepts
  <2> QED
    BY <2>2, <2>3
<1>6. ASSUME NEW v \in Wallets PROVE ledger'[v] = Books(wallet'[v])
  <2>1. /\ wallet[v] \in Wallet /\ ledger[v] \in Balance /\ ledger[v] = Books(wallet[v])
        /\ ledger[v].allowance = wallet[v].allowance /\ ledger[v].used = wallet[v].used
        /\ ledger[v].reserved = wallet[v].reserved
    BY BooksOf, LockTypes
  <2>2. CASE v = w
    <3> DEFINE moved == a - wallet[w].allowance
    <3>1. /\ ledger'[w] = Apply(ledger[w], "Adjustment", moved)
          /\ wallet'[w] = [wallet[w] EXCEPT !.exists = TRUE, !.allowance = a]
      BY <1>2, <1>4, <1>5, LockTypes DEF WriteAllowance, TypeInv, TypeOK
    <3>2. wallet[w].allowance \in Int /\ moved \in Int /\ "Adjustment" \in Kind
      BY <2>1, <2>2 DEF Wallet, Kind
    <3>3. ledger'[w] = Effect(ledger[w], "Adjustment", moved)
      BY <2>1, <2>2, <3>1, <3>2, ApplyEffect
    <3>4. /\ wallet'[w].allowance = a /\ wallet'[w].used = wallet[w].used
          /\ wallet'[w].reserved = wallet[w].reserved
      BY <2>1, <2>2, <3>1 DEF Wallet
    <3>5. wallet[w].allowance + moved = a
      BY <3>2
    <3> QED
      BY <2>1, <2>2, <3>3, <3>4, <3>5 DEF Effect, Books
  <2>3. CASE v # w
    <3>1. /\ ledger'[v] = ledger[v]
          /\ wallet'[v] = [wallet[v] EXCEPT !.exists = @ \/ v \in Written(s)]
      BY <1>5, <2>3, LockTypes DEF WriteAllowance, TypeInv, TypeOK
    <3>2. /\ wallet'[v].allowance = wallet[v].allowance /\ wallet'[v].used = wallet[v].used
          /\ wallet'[v].reserved = wallet[v].reserved
      BY <2>1, <3>1 DEF Wallet
    <3> QED
      BY <2>1, <3>1, <3>2 DEF Books
  <2> QED
    BY <2>2, <2>3
<1> QED
  BY <1>6 DEF BalanceMatchesLedger, Books

\* A wallet that is created is created with its ledger.
LEMMA CreateBalances ==
  ASSUME LockInv, BalanceMatchesLedger, OpenCompanyWallet \/ \E s \in Sessions : Refuse(s)
  PROVE  BalanceMatchesLedger'
<1>1. /\ wallet[Company] \in Wallet /\ ledger[Company] \in Balance
      /\ ledger[Company] = Books(wallet[Company])
  BY BooksOf, LockTypes, CostAssumption
<1>2. ASSUME NEW v \in Wallets \ {Company} PROVE ledger'[v] = Books(wallet'[v])
  BY <1>2, BooksOf, LockTypes DEF OpenCompanyWallet, Refuse, TypeInv, TypeOK
<1>3. CASE OpenCompanyWallet
  <2>1. wallet[Company] = NoWallet /\ Opening \in Int /\ "TopUp" \in Kind
    BY <1>3, CostAssumption DEF OpenCompanyWallet, LockInv, MissingIsEmpty, Kind
  <2>2. ledger'[Company] = Effect(ledger[Company], "TopUp", Opening)
    BY <1>1, <1>3, <2>1, CostAssumption, ApplyEffect, LockTypes DEF OpenCompanyWallet, TypeInv, TypeOK
  <2>3. wallet'[Company] = [NoWallet EXCEPT !.exists = TRUE, !.allowance = Opening]
    BY <1>3, CostAssumption, LockTypes DEF OpenCompanyWallet, TypeInv, TypeOK
  <2>4. ledger'[Company] = Books(wallet'[Company])
    BY <1>1, <2>1, <2>2, <2>3 DEF NoWallet, Books, Effect
  <2> QED
    BY <1>2, <2>4 DEF BalanceMatchesLedger, Books
<1>4. CASE \E s \in Sessions : Refuse(s)
  <2>1. ledger' = ledger /\ wallet'[Company] = [wallet[Company] EXCEPT !.exists = TRUE]
    BY <1>4, CostAssumption, LockTypes DEF Refuse, TypeInv, TypeOK
  <2>2. ledger'[Company] = Books(wallet'[Company])
    BY <1>1, <2>1 DEF Books, Wallet
  <2> QED
    BY <1>2, <2>2 DEF BalanceMatchesLedger, Books
<1> QED
  BY <1>3, <1>4
\* Which operations the sessions perform.
DoesItsWork(x) == /\ x.doing \in Renewing => "reset" \in Work
                  /\ x.doing = "adjust" => "adjust" \in Work

GrantsHaveAnEnd == \A w \in Wallets : renewal[w].grant > 0 => renewal[w].at >= 1

\* As long as the boundary is the one that was read, so is the allowance.
NothingMovedSince(x) ==
  /\ x.at >= 1 /\ x.at <= now
  /\ renewal[x.of].at = 0 \/ renewal[x.of].at >= x.at
  /\ renewal[x.of].at = x.at =>
       /\ x.left <= wallet[x.of].allowance
       /\ x.doing = "dueReread" => x.seen[x.of].allowance = wallet[x.of].allowance

\* The entries of the periods it has gone through add up to the allowance it will write.
MovesWhatItWrites(x) ==
  /\ renewal[x.of].at >= 1 /\ renewal[x.of].at < x.at
  /\ wallet[x.of].allowance + x.entries = x.seen[x.of].allowance

SessionRenews(x) ==
  /\ DoesItsWork(x)
  /\ x.doing \in {"dueRead", "dueReread"} => NothingMovedSince(x)
  /\ x.doing = "renewing" => MovesWhatItWrites(x)

LedgerInv ==
  /\ LockInv /\ GrantsHaveAnEnd /\ BalanceMatchesLedger
  /\ \A s \in Sessions : SessionRenews(session[s])

LEMMA LedgerTypes == LedgerInv => LockInv /\ TypeInv
BY LockTypes DEF LedgerInv

\* A session whose wallet's allowance and boundary are left alone.
LEMMA OthersRenew ==
  ASSUME LedgerInv, TypeInv', NEW t \in Sessions, session'[t] = session[t],
         renewal'[session[t].of] = renewal[session[t].of], now' >= now,
         session[t].doing \in Renewing =>
           wallet'[session[t].of].allowance = wallet[session[t].of].allowance
  PROVE  SessionRenews(session[t])'
<1>1. SessionRenews(session[t]) /\ session[t] \in Session /\ now \in Int /\ now' \in Int
  BY CostAssumption, LedgerTypes DEF LedgerInv, TypeInv, TypeOK
<1>2. session[t].at \in Nat
  BY <1>1 DEF Session
<1>3. DoesItsWork(session[t])'
  BY <1>1 DEF SessionRenews, DoesItsWork
<1>4. session[t].doing \in {"dueRead", "dueReread"} => NothingMovedSince(session[t])'
  BY <1>1, <1>2 DEF SessionRenews, NothingMovedSince, Renewing
<1>5. session[t].doing = "renewing" => MovesWhatItWrites(session[t])'
  BY <1>1 DEF SessionRenews, MovesWhatItWrites, Renewing
<1> QED
  BY <1>3, <1>4, <1>5 DEF SessionRenews

\* A step after which all that renews is as it was, but for one session.
LEMMA RenewalsAlone ==
  ASSUME LedgerInv, LockInv', NEW s \in Sessions, BalanceMatchesLedger',
         renewal' = renewal, now' = now,
         \A t \in Sessions \ {s} : session'[t] = session[t],
         \A w \in Wallets : wallet[w].exists => wallet'[w].allowance = wallet[w].allowance,
         SessionRenews(session[s])'
  PROVE  LedgerInv'
<1>1. GrantsHaveAnEnd'
  BY DEF LedgerInv, GrantsHaveAnEnd
<1>2. TypeInv' /\ now' >= now
  <2>1. now \in Nat
    BY LedgerTypes, CostAssumption DEF TypeInv, TypeOK
  <2>2. TypeInv'
    BY DEF LockInv, ResInv
  <2> QED
    BY <2>1, <2>2
<1>3. ASSUME NEW t \in Sessions \ {s} PROVE SessionRenews(session[t])'
  <2>1. session[t].of \in Wallets /\ SessionLocks(session[t])
    BY LedgerTypes DEF LedgerInv, LockInv, TypeInv, TypeOK, Session
  <2>2. session[t].doing \in Renewing => wallet[session[t].of].exists
    BY <2>1 DEF SessionLocks, LocksOne
  <2> QED
    BY <1>2, <2>1, <2>2, OthersRenew
<1> QED
  BY <1>1, <1>3 DEF LedgerInv

\* A session that has nothing to do with a renewal.
LEMMA NotRenewingNext ==
  ASSUME NEW s \in Sessions, session'[s].doing \notin Renewing,
         session'[s].doing = "adjust" => "adjust" \in Work
  PROVE  SessionRenews(session[s])'
BY DEF SessionRenews, DoesItsWork, Renewing

LEMMA BooksKept ==
  ASSUME BalanceMatchesLedger, UNCHANGED << wallet, ledger >>
  PROVE  BalanceMatchesLedger'
BY DEF BalanceMatchesLedger
LEMMA BeginResetRenews ==
  ASSUME LedgerInv, LockInv', NEW s \in Sessions, NEW w \in Wallets, BeginReset(s, w)
  PROVE  LedgerInv'
<1> DEFINE x == [IdleSession EXCEPT !.doing = "dueRead", !.of = w, !.amount = renewal[w].grant,
                   !.left = LeftOver(wallet[w]), !.at = renewal[w].at, !.until = now]
<1>1. session' = [session EXCEPT ![s] = x]
  BY DEF BeginReset
<1>2. x.doing = "dueRead" /\ x.of = w /\ x.left = LeftOver(wallet[w]) /\ x.at = renewal[w].at
  BY DEF IdleSession
<1> HIDE DEF x
<1>3. session'[s] = x /\ \A t \in Sessions \ {s} : session'[t] = session[t]
  BY <1>1, SessionIs, LedgerTypes
<1>4. /\ UNCHANGED << wallet, ledger, renewal, now >> /\ "reset" \in Work
      /\ renewal[w].at >= 1 /\ renewal[w].at <= now /\ LeftOver(wallet[w]) <= wallet[w].allowance
  BY LedgerTypes, LeftOverBounded DEF BeginReset, LedgerInv, GrantsHaveAnEnd, TypeInv, TypeOK
<1>5. SessionRenews(session[s])'
  <2>1. DoesItsWork(session[s])'
    BY <1>2, <1>3, <1>4 DEF DoesItsWork
  <2>2. NothingMovedSince(session[s])'
    <3>1. renewal[w].at \in Nat
      BY LedgerTypes DEF TypeInv, TypeOK, Renewal
    <3> QED
      BY <1>2, <1>3, <1>4, <3>1 DEF NothingMovedSince
  <2> QED
    BY <1>2, <1>3, <2>1, <2>2 DEF SessionRenews
<1> QED
  BY <1>3, <1>4, <1>5, BooksKept, RenewalsAlone DEF LedgerInv

LEMMA ReadToResetRenews ==
  ASSUME LedgerInv, LockInv', NEW s \in Sessions, ReadToReset(s)
  PROVE  LedgerInv'
<1> DEFINE y == session[s]
           w == y.of
           x == session'[s]
<1>1. /\ y \in Session /\ y.doing = "dueRead" /\ w \in Wallets /\ SessionRenews(y)
  BY LedgerTypes DEF ReadToReset, Is, LedgerInv, TypeInv, TypeOK, Session
<1>2. /\ x.doing = "dueReread" /\ x.of = w /\ x.at = y.at /\ x.left = y.left /\ x.seen[w] = wallet[w]
      /\ \A t \in Sessions \ {s} : session'[t] = session[t]
      /\ UNCHANGED << wallet, ledger, renewal, now >>
  BY <1>1, LedgerTypes DEF ReadToReset, TypeInv, TypeOK, Session
<1>3. NothingMovedSince(y) /\ "reset" \in Work
  BY <1>1 DEF SessionRenews, DoesItsWork, Renewing
<1>4. DoesItsWork(session[s])'
  BY <1>2, <1>3 DEF DoesItsWork
<1>5. NothingMovedSince(session[s])'
  BY <1>2, <1>3 DEF NothingMovedSince
<1>6. SessionRenews(session[s])'
  BY <1>2, <1>4, <1>5 DEF SessionRenews
<1> QED
  BY <1>2, <1>6, BooksKept, RenewalsAlone DEF LedgerInv

\* Under the row lock, and the boundary being what was read, all of what was left lapses.
LEMMA FirstPeriodRenews ==
  ASSUME LedgerInv, LockInv', NEW s \in Sessions, FirstPeriod(s)
  PROVE  LedgerInv'
<1> DEFINE y == session[s]
           w == y.of
           x == session'[s]
           a == wallet[w].allowance
<1>1. /\ y \in Session /\ y.doing = "dueReread" /\ w \in Wallets /\ SessionRenews(y)
      /\ y.seen[w] \in Wallet /\ wallet[w] \in Wallet
      /\ y.amount \in Nat /\ y.left \in Nat /\ y.at \in Nat
  BY LedgerTypes, RenewingFields DEF FirstPeriod, Is, LedgerInv, TypeInv, TypeOK, Renewing
<1>2. NothingMovedSince(y) /\ "reset" \in Work /\ renewal[w].at = y.at
  BY <1>1 DEF SessionRenews, DoesItsWork, Renewing, FirstPeriod, StillDue
<1>3. y.left <= a /\ y.seen[w].allowance = a /\ y.at >= 1 /\ a \in Nat
  BY <1>1, <1>2, WalletFields DEF NothingMovedSince
<1>4. /\ x.doing = "renewing" /\ x.of = w /\ x.at = y.at + 1 /\ x.entries = y.amount - y.left
      /\ x.seen[w] = [wallet[w] EXCEPT !.allowance = Lapsed(y.seen[w].allowance, y.left) + y.amount]
      /\ \A t \in Sessions \ {s} : session'[t] = session[t]
      /\ UNCHANGED << wallet, ledger, renewal, now >>
  BY Zenon, LedgerTypes, FirstPeriodSession DEF FirstPeriod
<1>5. x.seen[w].allowance = Lapsed(a, y.left) + y.amount
  BY <1>1, <1>3, <1>4 DEF Wallet
<1>6. a + x.entries = x.seen[w].allowance
  BY <1>1, <1>3, <1>4, <1>5 DEF Lapsed
<1>7. MovesWhatItWrites(session[s])'
  BY <1>1, <1>2, <1>3, <1>4, <1>6 DEF MovesWhatItWrites
<1>8. DoesItsWork(session[s])'
  BY <1>2, <1>4 DEF DoesItsWork
<1>9. SessionRenews(session[s])'
  BY <1>4, <1>7, <1>8 DEF SessionRenews
<1> QED
  BY <1>4, <1>9, BooksKept, RenewalsAlone DEF LedgerInv

LEMMA NextPeriodRenews ==
  ASSUME LedgerInv, LockInv', NEW s \in Sessions, NextPeriod(s)
  PROVE  LedgerInv'
<1> DEFINE y == session[s]
           w == y.of
           x == session'[s]
           moved == y.amount - LeftOver(y.seen[w])
<1>1. /\ y \in Session /\ y.doing = "renewing" /\ w \in Wallets /\ SessionRenews(y)
      /\ y.seen[w] \in Wallet /\ wallet[w] \in Wallet /\ renewal[w] \in Renewal
      /\ y.amount \in Nat /\ y.at \in Nat /\ y.entries \in Int
  BY LedgerTypes, RenewingFields DEF NextPeriod, Is, LedgerInv, TypeInv, TypeOK, Renewing
<1>2. MovesWhatItWrites(y) /\ "reset" \in Work
  BY <1>1 DEF SessionRenews, DoesItsWork, Renewing
<1>3. moved \in Int /\ y.seen[w].allowance \in Int /\ wallet[w].allowance \in Int /\ renewal[w].at \in Int
  BY <1>1, LeftOverBounded, WalletFields DEF Renewal
<1>4. /\ x.doing = "renewing" /\ x.of = w /\ x.at = y.at + 1 /\ x.entries = y.entries + moved
      /\ x.seen[w].allowance = y.seen[w].allowance + moved
      /\ \A t \in Sessions \ {s} : session'[t] = session[t]
      /\ UNCHANGED << wallet, ledger, renewal, now >>
  BY <1>1, LedgerTypes DEF NextPeriod, TypeInv, TypeOK, Session, Wallet
<1> HIDE DEF moved
<1>5. wallet[w].allowance + x.entries = x.seen[w].allowance
  BY <1>1, <1>2, <1>3, <1>4 DEF MovesWhatItWrites
<1>6. renewal[w].at >= 1 /\ renewal[w].at < x.at
  BY <1>1, <1>2, <1>3, <1>4 DEF MovesWhatItWrites
<1>7. MovesWhatItWrites(session[s])'
  BY <1>4, <1>5, <1>6 DEF MovesWhatItWrites
<1>8. DoesItsWork(session[s])'
  BY <1>2, <1>4 DEF DoesItsWork
<1>9. SessionRenews(session[s])'
  BY <1>4, <1>7, <1>8 DEF SessionRenews
<1> QED
  BY <1>4, <1>9, BooksKept, RenewalsAlone DEF LedgerInv

LEMMA EndsRenews ==
  ASSUME LedgerInv, NEW s \in Sessions, Ends(s)
  PROVE  /\ SessionRenews(session[s])'
         /\ \A t \in Sessions \ {s} : session'[t] = session[t]
<1>1. session'[s] = IdleSession /\ \A t \in Sessions \ {s} : session'[t] = session[t]
  BY SessionIs, LedgerTypes DEF Ends
<1> QED
  BY <1>1, IdleHoldsNothing, NotRenewingNext DEF Renewing

\* The other commits leave every allowance, and every boundary, alone.
LEMMA SpendingRenews ==
  ASSUME LedgerInv, LockInv', NEW s \in Sessions,
         Hold(s) \/ Refuse(s) \/ Settle(s) \/ Release(s)
  PROVE  LedgerInv'
<1>1. BalanceMatchesLedger'
  BY HoldBalances, CreateBalances, SettleBalances, ReleaseBalances DEF LedgerInv
<1>2. \A w \in Wallets : wallet'[w].allowance = wallet[w].allowance
  <2>1. \A w \in Wallets : wallet[w] \in Wallet
    BY LedgerTypes DEF TypeInv, TypeOK
  <2>2. CASE Hold(s)
    BY <2>1, <2>2 DEF Hold, Wallet
  <2>3. CASE Refuse(s)
    BY <2>1, <2>3, LedgerTypes DEF Refuse, Wallet, TypeInv, TypeOK
  <2>4. CASE Settle(s)
    BY Zenon, <2>1, <2>4 DEF Settle, Wallet
  <2>5. CASE Release(s)
    BY <2>1, <2>5 DEF Release, Wallet
  <2> QED
    BY <2>2, <2>3, <2>4, <2>5
<1>3. SessionRenews(session[s])' /\ \A t \in Sessions \ {s} : session'[t] = session[t]
  <2>1. CASE Release(s)
    <3> DEFINE x == [IdleSession EXCEPT !.rest = session[s].rest,
                                        !.doing = IF session[s].rest = {} THEN "idle" ELSE "sweep"]
    <3>1. session' = [session EXCEPT ![s] = x]
      BY <2>1 DEF Release
    <3>2. x.doing \in {"idle", "sweep"}
      BY DEF IdleSession
    <3> HIDE DEF x
    <3>3. session'[s] = x /\ \A t \in Sessions \ {s} : session'[t] = session[t]
      BY <3>1, SessionIs, LedgerTypes
    <3> QED
      BY <3>2, <3>3, NotRenewingNext DEF Renewing
  <2>2. CASE Hold(s) \/ Refuse(s) \/ Settle(s)
    BY Zenon, <2>2, EndsRenews DEF Hold, Refuse, Settle
  <2> QED
    BY <2>1, <2>2
<1>4. renewal' = renewal /\ now' = now
  BY Zenon DEF Hold, Refuse, Settle, Release
<1> QED
  BY <1>1, <1>2, <1>3, <1>4, RenewalsAlone
\* Whoever read a boundary that is then moved on is no longer due.
LEMMA MovedOn ==
  ASSUME LedgerInv, TypeInv', NEW t \in Sessions, session'[t] = session[t], now' = now,
         session[t].doing # "renewing",
         LET at == renewal'[session[t].of].at
         IN  at = 0 \/ at > session[t].at \/ session[t].doing \notin Renewing
  PROVE  SessionRenews(session[t])'
<1>1. SessionRenews(session[t]) /\ session[t] \in Session
  BY LedgerTypes DEF LedgerInv, TypeInv, TypeOK
<1>2. session[t].at \in Nat /\ renewal'[session[t].of].at \in Nat
  BY <1>1 DEF Session, TypeInv, TypeOK, Renewal
<1>3. DoesItsWork(session[t])'
  BY <1>1 DEF SessionRenews, DoesItsWork
<1>4. session[t].doing \in {"dueRead", "dueReread"} => NothingMovedSince(session[t])'
  <2> SUFFICES ASSUME session[t].doing \in {"dueRead", "dueReread"}
               PROVE  NothingMovedSince(session[t])'
    OBVIOUS
  <2>1. NothingMovedSince(session[t])
    BY <1>1 DEF SessionRenews
  <2>2. renewal'[session[t].of].at = 0 \/ renewal'[session[t].of].at > session[t].at
    BY DEF Renewing
  <2>3. session[t].at >= 1 /\ session[t].at <= now
    BY <2>1 DEF NothingMovedSince
  <2>4. /\ renewal'[session[t].of].at = 0 \/ renewal'[session[t].of].at >= session[t].at
        /\ renewal'[session[t].of].at # session[t].at
    BY <1>2, <2>2, <2>3
  <2> QED
    BY <2>3, <2>4 DEF NothingMovedSince
<1> QED
  BY <1>3, <1>4 DEF SessionRenews

LEMMA RenewRenews ==
  ASSUME LedgerInv, LockInv', NEW s \in Sessions, Renew(s)
  PROVE  LedgerInv'
<1> DEFINE y == session[s]
           w == y.of
<1>1. /\ y \in Session /\ y.doing = "renewing" /\ w \in Wallets /\ SessionRenews(y)
      /\ y.seen[w] \in Wallet /\ wallet[w] \in Wallet /\ ledger[w] \in Balance
      /\ renewal[w] \in Renewal /\ y.at \in Nat /\ y.entries \in Int /\ SessionLocks(y)
  BY LedgerTypes, RenewingFields DEF Renew, Is, LedgerInv, LockInv, TypeInv, TypeOK, Renewing
<1>2. MovesWhatItWrites(y) /\ y.held = {w}
  BY <1>1 DEF SessionRenews, SessionLocks, LocksOne, Renewing
<1>3. /\ wallet'[w] = [wallet[w] EXCEPT !.allowance = y.seen[w].allowance]
      /\ ledger'[w] = Apply(ledger[w], "Adjustment", y.entries)
      /\ renewal'[w] = [renewal[w] EXCEPT !.at = y.at]
      /\ \A v \in Wallets \ {w} : /\ wallet'[v] = wallet[v] /\ ledger'[v] = ledger[v]
                                  /\ renewal'[v] = renewal[v]
      /\ now' = now
  BY <1>1, LedgerTypes DEF Renew, TypeInv, TypeOK
<1>4. renewal'[w].at = y.at /\ renewal'[w].grant = renewal[w].grant /\ renewal[w].at \in Nat
      /\ y.at > renewal[w].at /\ y.at >= 1
  BY <1>1, <1>2, <1>3 DEF Renewal, MovesWhatItWrites
<1>5. GrantsHaveAnEnd'
  BY <1>3, <1>4 DEF LedgerInv, GrantsHaveAnEnd
<1>6. BalanceMatchesLedger'
  <2>1. ledger[w] = Books(wallet[w]) /\ "Adjustment" \in Kind
    BY <1>1, BooksOf, LedgerTypes DEF LedgerInv, Kind
  <2>2. ledger'[w] = Effect(ledger[w], "Adjustment", y.entries)
    BY <1>1, <1>3, <2>1, ApplyEffect
  <2>3. /\ wallet'[w].allowance = y.seen[w].allowance /\ wallet'[w].used = wallet[w].used
        /\ wallet'[w].reserved = wallet[w].reserved
    BY <1>1, <1>3 DEF Wallet
  <2>4. ledger'[w] = Books(wallet'[w])
    BY <1>2, <2>1, <2>2, <2>3 DEF Effect, Books, MovesWhatItWrites
  <2> QED
    BY <1>3, <2>4 DEF LedgerInv, BalanceMatchesLedger, Books
<1>7. SessionRenews(session[s])' /\ \A t \in Sessions \ {s} : session'[t] = session[t]
  BY EndsRenews DEF Renew
<1>8. ASSUME NEW t \in Sessions \ {s} PROVE SessionRenews(session[t])'
  <2>1. session[t] \in Session /\ SessionRenews(session[t]) /\ SessionLocks(session[t])
    BY LedgerTypes DEF LedgerInv, LockInv, TypeInv, TypeOK
  <2>2. session[t].of \in Wallets /\ session[t].at \in Nat
    BY <2>1 DEF Session
  <2>3. CASE session[t].of # w
    <3>1. TypeInv' /\ now' >= now
      BY <1>3, LedgerTypes, CostAssumption DEF TypeInv, TypeOK, LockInv, ResInv
    <3> QED
      BY <1>3, <1>7, <2>2, <2>3, <3>1, OthersRenew
  <2>4. CASE session[t].of = w
    <3>1. session[t].doing # "renewing"
      BY <1>2, <2>1, <2>4 DEF SessionLocks, LocksOne, Renewing, LedgerInv, LockInv, LocksExclude
    <3>2. session[t].doing \in Renewing => NothingMovedSince(session[t])
      BY <2>1, <3>1 DEF SessionRenews, Renewing
    <3>3. session[t].doing \in Renewing => y.at > session[t].at
      <4>1. session[t].doing \in Renewing => renewal[w].at >= session[t].at
        BY <1>2, <2>4, <3>2 DEF NothingMovedSince, MovesWhatItWrites
      <4> QED
        BY <1>1, <1>4, <2>2, <4>1
    <3> QED
      BY <1>3, <1>4, <1>7, <2>4, <3>1, <3>3, MovedOn DEF LockInv, ResInv
  <2> QED
    BY <2>3, <2>4
<1> QED
  BY <1>5, <1>6, <1>7, <1>8 DEF LedgerInv

\* An allowance that is set takes its boundary along; one that is adjusted does not, which
\* is why nothing may adjust while the reset runner works.
LEMMA SetRenews ==
  ASSUME LedgerInv, LockInv', NEW s \in Sessions, Set(s)
  PROVE  LedgerInv'
<1> DEFINE y == session[s]
           w == y.of
<1>1. /\ y \in Session /\ y.doing = "set" /\ w \in Wallets /\ SessionLocks(y) /\ ~Clashes(s)
      /\ now \in Nat
  <2>1. y \in Session /\ SessionLocks(y) /\ now \in Nat
    BY LedgerTypes, CostAssumption DEF LockInv, TypeInv, TypeOK
  <2>2. w \in Wallets
    BY <2>1 DEF Session
  <2> QED
    BY Zenon, <2>1, <2>2 DEF Set, Ready, Is, WriteAllowance
<1>2. w \in Written(s) /\ y.doing \notin Renewing
  BY <1>1 DEF SessionLocks, Written, Renewing
<1>3. /\ \A v \in Wallets \ {w} : /\ renewal'[v] = renewal[v]
                                  /\ wallet'[v].allowance = wallet[v].allowance
      /\ now' = now
  <2>1. \A v \in Wallets \ {w} : wallet'[v] = [wallet[v] EXCEPT !.exists = @ \/ v \in Written(s)]
    BY Zenon DEF Set, WriteAllowance
  <2>2. \A v \in Wallets : wallet[v] \in Wallet
    BY LedgerTypes DEF TypeInv, TypeOK
  <2>3. \A v \in Wallets \ {w} : wallet'[v].allowance = wallet[v].allowance
    BY <2>1, <2>2 DEF Wallet
  <2> QED
    BY Zenon, <1>1, <2>3, LedgerTypes DEF Set, WriteAllowance, TypeInv, TypeOK
<1>4. (renewal'[w].at = 0 /\ renewal'[w].grant = 0) \/ renewal'[w].at = now + 1
  BY <1>1, LedgerTypes DEF Set, TypeInv, TypeOK, NoRenewal
<1>5. GrantsHaveAnEnd'
  BY <1>1, <1>3, <1>4 DEF LedgerInv, GrantsHaveAnEnd
<1>6. BalanceMatchesLedger'
  BY ChangeBalances DEF LedgerInv
<1>7. SessionRenews(session[s])' /\ \A t \in Sessions \ {s} : session'[t] = session[t]
  BY EndsRenews DEF Set, WriteAllowance
<1>8. ASSUME NEW t \in Sessions \ {s} PROVE SessionRenews(session[t])'
  <2>1. session[t] \in Session /\ SessionRenews(session[t]) /\ SessionLocks(session[t])
    BY LedgerTypes DEF LedgerInv, LockInv, TypeInv, TypeOK
  <2>2. session[t].of \in Wallets /\ session[t].at \in Nat
    BY <2>1 DEF Session
  <2>3. CASE session[t].of # w
    <3>1. TypeInv' /\ now' >= now
      BY <1>1, <1>3 DEF LockInv, ResInv
    <3> QED
      BY <1>3, <1>7, <2>2, <2>3, <3>1, OthersRenew
  <2>4. CASE session[t].of = w
    <3>1. w \notin session[t].held
      BY <1>1, <1>2, WrittenIsMine, LedgerTypes
    <3>2. session[t].doing # "renewing"
      BY <2>1, <2>4, <3>1 DEF SessionLocks, LocksOne, Renewing
    <3>3. session[t].doing \in Renewing => session[t].at <= now
      BY <2>1, <3>2 DEF SessionRenews, Renewing, NothingMovedSince
    <3>4. \/ renewal'[w].at = 0 \/ renewal'[w].at > session[t].at
          \/ session[t].doing \notin Renewing
      BY <1>1, <1>4, <2>2, <3>3
    <3> QED
      BY <1>3, <1>7, <2>4, <3>2, <3>4, MovedOn DEF LockInv, ResInv
  <2> QED
    BY <2>3, <2>4
<1> QED
  BY <1>5, <1>6, <1>7, <1>8 DEF LedgerInv

LEMMA AdjustRenews ==
  ASSUME LedgerInv, LockInv', ~("reset" \in Work /\ "adjust" \in Work),
         NEW s \in Sessions, Adjust(s)
  PROVE  LedgerInv'
<1>1. \A t \in Sessions : session[t].doing \notin Renewing
  BY DEF LedgerInv, SessionRenews, DoesItsWork, Adjust, Ready, Is
<1>2. renewal' = renewal /\ now' = now
  BY Zenon DEF Adjust, WriteAllowance
<1>3. GrantsHaveAnEnd' /\ BalanceMatchesLedger'
  BY <1>2, ChangeBalances DEF LedgerInv, GrantsHaveAnEnd
<1>4. SessionRenews(session[s])' /\ \A t \in Sessions \ {s} : session'[t] = session[t]
  BY Zenon, EndsRenews DEF Adjust, WriteAllowance
<1>5. ASSUME NEW t \in Sessions \ {s} PROVE SessionRenews(session[t])'
  BY <1>1, <1>4, NotRenewingNext DEF LedgerInv, SessionRenews, DoesItsWork
<1> QED
  BY <1>3, <1>4, <1>5 DEF LedgerInv
\* The steps that concern no amount: the locks, the beginnings, and the aborts.
LEMMA QuietRenews ==
  ASSUME LedgerInv, LockInv', NEW s \in Sessions, UNCHANGED << wallet, ledger, renewal, now >>,
         \A t \in Sessions \ {s} : session'[t] = session[t],
         session'[s].doing \notin Renewing, session'[s].doing = "adjust" => "adjust" \in Work
  PROVE  LedgerInv'
<1>1. SessionRenews(session[s])'
  BY NotRenewingNext
<1> QED
  BY <1>1, BooksKept, RenewalsAlone DEF LedgerInv

LEMMA QuietSteps ==
  ASSUME LedgerInv, LockInv', NEW s \in Sessions,
         \/ \E r, path, e : BeginReserve(s, r, path, e)
         \/ \E how \in Closing : \E r, actual, rest : BeginClose(s, r, how, actual, rest)
         \/ BeginSweep(s)
         \/ \E w, a, recurs : BeginSet(s, w, a, recurs)
         \/ \E w, delta : BeginAdjust(s, w, delta)
         \/ LockNext(s)
         \/ Ends(s) /\ UNCHANGED << wallet, ledger, renewal, now >>
  PROVE  LedgerInv'
<1> DEFINE Quiet == /\ UNCHANGED << wallet, ledger, renewal, now >>
                    /\ \A t \in Sessions \ {s} : session'[t] = session[t]
                    /\ session'[s].doing \notin Renewing
                    /\ session'[s].doing = "adjust" => "adjust" \in Work
<1>1. SUFFICES Quiet
  BY QuietRenews
<1>2. ASSUME NEW x, session' = [session EXCEPT ![s] = x], x.doing \notin Renewing,
             x.doing = "adjust" => "adjust" \in Work, UNCHANGED << wallet, ledger, renewal, now >>
      PROVE  Quiet
  <2>1. session'[s] = x /\ \A t \in Sessions \ {s} : session'[t] = session[t]
    BY <1>2, SessionIs, LedgerTypes
  <2> QED
    BY <1>2, <2>1
<1>3. ASSUME NEW r, NEW path, NEW e, BeginReserve(s, r, path, e) PROVE Quiet
  <2> DEFINE x(order) == [IdleSession EXCEPT !.doing = "reserve", !.res = r, !.path = path,
                                             !.todo = order, !.amount = e]
  <2>1. PICK order : session' = [session EXCEPT ![s] = x(order)]
    BY <1>3 DEF BeginReserve
  <2>2. x(order).doing = "reserve"
    BY DEF IdleSession
  <2> HIDE DEF x
  <2> QED
    BY <1>2, <1>3, <2>1, <2>2 DEF BeginReserve, Renewing
<1>4. ASSUME NEW r, NEW how \in Closing, NEW actual, NEW rest, BeginClose(s, r, how, actual, rest)
      PROVE  Quiet
  <2> DEFINE x(order) == [IdleSession EXCEPT !.doing = how, !.res = r, !.path = reservation[r].holds,
                                             !.todo = order, !.amount = actual, !.rest = rest]
  <2>1. PICK order : session' = [session EXCEPT ![s] = x(order)]
    BY <1>4 DEF BeginClose
  <2>2. x(order).doing = how
    BY DEF IdleSession
  <2> HIDE DEF x
  <2> QED
    BY <1>2, <1>4, <2>1, <2>2 DEF BeginClose, Renewing, Closing
<1>5. CASE BeginSweep(s)
  <2> DEFINE x(rest) == [IdleSession EXCEPT !.doing = "sweep", !.rest = rest]
  <2>1. PICK rest : session' = [session EXCEPT ![s] = x(rest)]
    BY Zenon, <1>5 DEF BeginSweep
  <2>2. x(rest).doing = "sweep"
    BY DEF IdleSession
  <2> HIDE DEF x
  <2> QED
    BY Zenon, <1>2, <1>5, <2>1, <2>2 DEF BeginSweep, Renewing
<1>6. ASSUME NEW doing \in {"set", "adjust"}, NEW path, NEW w, NEW a, NEW recurs,
             doing = "adjust" => "adjust" \in Work, BeginChange(s, doing, path, w, a, recurs)
      PROVE  Quiet
  <2> DEFINE x(order) == [IdleSession EXCEPT !.doing = doing, !.path = path, !.of = w, !.todo = order,
                                             !.amount = a, !.recurs = recurs]
  <2>1. PICK order : session' = [session EXCEPT ![s] = x(order)]
    BY <1>6 DEF BeginChange
  <2>2. x(order).doing = doing
    BY DEF IdleSession
  <2> HIDE DEF x
  <2> QED
    BY <1>2, <1>6, <2>1, <2>2 DEF BeginChange, Renewing
<1>7. ASSUME NEW w, NEW a, NEW recurs, BeginSet(s, w, a, recurs) PROVE Quiet
  BY <1>6, <1>7 DEF BeginSet
<1>8. ASSUME NEW w, NEW delta, BeginAdjust(s, w, delta) PROVE Quiet
  BY <1>6, <1>8 DEF BeginAdjust
<1>9. CASE LockNext(s)
  <2>1. session[s] \in Session /\ SessionLocks(session[s]) /\ SessionRenews(session[s])
    BY LedgerTypes DEF LedgerInv, LockInv, TypeInv, TypeOK
  <2>2. session[s].doing \notin Renewing
    BY <1>9, <2>1 DEF LockNext, SessionLocks, LocksOne
  <2>3. session'[s].doing = session[s].doing /\ \A t \in Sessions \ {s} : session'[t] = session[t]
    BY <1>9, <2>1, LedgerTypes DEF LockNext, Session, TypeInv, TypeOK
  <2> QED
    BY <1>9, <2>1, <2>2, <2>3 DEF LockNext, SessionRenews, DoesItsWork
<1>10. CASE Ends(s) /\ UNCHANGED << wallet, ledger, renewal, now >>
  BY <1>2, <1>10, IdleHoldsNothing DEF Ends
<1> QED
  BY <1>3, <1>4, <1>5, <1>7, <1>8, <1>9, <1>10

LEMMA LedgerInvPreserved ==
  ASSUME ~("reset" \in Work /\ "adjust" \in Work)
  PROVE  LedgerInv /\ [Next]_vars => LedgerInv'
<1> SUFFICES ASSUME LedgerInv, [Next]_vars PROVE LedgerInv'
  OBVIOUS
<1>1. LockInv' /\ TypeInv' /\ LockInv /\ TypeInv
  BY LockInvPreserved, LedgerTypes DEF LockInv, ResInv
<1>2. ASSUME NEW s \in Sessions, NEW r, NEW how \in Closing, NEW actual, NEW rest,
             BeginClose(s, r, how, actual, rest)
      PROVE  LedgerInv'
  BY <1>1, <1>2, QuietSteps
<1>3. ASSUME NEW s \in Sessions, Begin(s) PROVE LedgerInv'
  <2>1. ASSUME NEW r, NEW actual, BeginSettle(s, r, actual) \/ BeginRelease(s, r) PROVE LedgerInv'
    BY <1>2, <2>1 DEF BeginSettle, BeginRelease, Closing
  <2>2. ASSUME NEW r, NEW path, NEW e, BeginReserve(s, r, path, e) PROVE LedgerInv'
    BY <1>1, <2>2, QuietSteps
  <2>3. ASSUME NEW w, NEW a, NEW recurs, BeginSet(s, w, a, recurs) PROVE LedgerInv'
    BY <1>1, <2>3, QuietSteps
  <2>4. ASSUME NEW w, NEW delta, BeginAdjust(s, w, delta) PROVE LedgerInv'
    BY <1>1, <2>4, QuietSteps
  <2>5. CASE BeginSweep(s)
    BY <1>1, <2>5, QuietSteps
  <2> QED
    BY <1>1, <1>3, <2>1, <2>2, <2>3, <2>4, <2>5, BeginResetRenews DEF Begin
<1>4. ASSUME NEW s \in Sessions, Proceed(s) PROVE LedgerInv'
  <2>1. CASE ExpireNext(s)
    <3>1. CASE Ends(s) /\ UNCHANGED << wallet, ledger, renewal, now >>
      BY <1>1, <3>1, QuietSteps
    <3> QED
      BY <1>2, <2>1, <3>1 DEF ExpireNext, Closing
  <2>2. CASE LockNext(s)
    BY <1>1, <2>2, QuietSteps
  <2> QED
    BY <1>1, <1>4, <2>1, <2>2, SpendingRenews, SetRenews, AdjustRenews, ReadToResetRenews,
       FirstPeriodRenews, NextPeriodRenews, RenewRenews DEF Proceed
<1>5. ASSUME NEW s \in Sessions, Abort(s) PROVE LedgerInv'
  BY <1>1, <1>5, QuietSteps DEF Abort
<1>6. CASE OpenCompanyWallet \/ PeriodEnds \/ UNCHANGED vars \/ \E r \in Reservations : GrowsOld(r)
  <2>1. session' = session /\ renewal' = renewal /\ now' >= now
    <3>1. now \in Int
      BY <1>1, CostAssumption DEF TypeInv, TypeOK
    <3> QED
      BY <1>6, <3>1 DEF OpenCompanyWallet, PeriodEnds, vars, GrowsOld
  <2>2. BalanceMatchesLedger'
    BY <1>1, <1>6, CreateBalances, BooksKept DEF LedgerInv, PeriodEnds, vars, GrowsOld
  <2>3. GrantsHaveAnEnd'
    BY <2>1 DEF LedgerInv, GrantsHaveAnEnd
  <2>4. \A w \in Wallets : wallet[w].exists => wallet'[w] = wallet[w]
    BY <1>1, <1>6 DEF OpenCompanyWallet, PeriodEnds, vars, GrowsOld, TypeInv, TypeOK
  <2>5. ASSUME NEW t \in Sessions PROVE SessionRenews(session[t])'
    <3>1. session[t].of \in Wallets /\ SessionLocks(session[t])
      BY <1>1 DEF LockInv, TypeInv, TypeOK, Session
    <3>2. session[t].doing \in Renewing => wallet'[session[t].of].allowance = wallet[session[t].of].allowance
      BY <2>4, <3>1 DEF SessionLocks, LocksOne
    <3> QED
      BY <1>1, <2>1, <3>1, <3>2, OthersRenew
  <2> QED
    BY <1>1, <2>2, <2>3, <2>5 DEF LedgerInv
<1> QED
  BY <1>3, <1>4, <1>5, <1>6 DEF Next

LEMMA LedgerInvInitially == Init => LedgerInv
<1> SUFFICES ASSUME Init PROVE LedgerInv
  OBVIOUS
<1>1. LockInv
  BY LockInvInitially
<1>2. GrantsHaveAnEnd
  BY DEF Init, GrantsHaveAnEnd, NoRenewal
<1>3. BalanceMatchesLedger
  BY DEF Init, BalanceMatchesLedger, NoWallet, ZeroBalance
<1>4. \A s \in Sessions : SessionRenews(session[s])
  BY IdleHoldsNothing DEF Init, SessionRenews, DoesItsWork, Renewing
<1> QED
  BY <1>1, <1>2, <1>3, <1>4 DEF LedgerInv

\* reconcile finds nothing, whatever interleaves, as long as nobody adjusts an allowance
\* while the reset runner is at work: with both, the ledger drifts from its wallet.
THEOREM LedgerNeverDrifts ==
  ASSUME ~("reset" \in Work /\ "adjust" \in Work)
  PROVE  Spec => []BalanceMatchesLedger
<1>1. LedgerInv /\ [Next]_vars => LedgerInv'
  BY LedgerInvPreserved
<1>2. LedgerInv => BalanceMatchesLedger
  BY DEF LedgerInv
<1> QED
  BY <1>1, <1>2, LedgerInvInitially, PTL DEF Spec

-----------------------------------------------------------------------------
(* What wallets say is reserved and used.                                  *)

\* The units of one more reservation.
LEMMA UnitsOfOneMore ==
  ASSUME NEW S, NEW T, IsFiniteSet(S), NEW r, NEW n \in Nat,
         T = S \union ({r} \X (1..n)), \A k : << r, k >> \notin S
  PROVE  IsFiniteSet(T) /\ Cardinality(T) = Cardinality(S) + n
<1> DEFINE one == {r}
           to == 1..n
           U == one \X to
<1>1. IsFiniteSet(one) /\ Cardinality(one) = 1
  BY FS_Singleton
<1>2. IsFiniteSet(to) /\ Cardinality(to) = n
  BY FS_Interval
<1>3. \A u \in U : \E k : u = << r, k >>
  OBVIOUS
<1>4. T = S \union U
  OBVIOUS
<1> HIDE DEF one, to
<1>5. IsFiniteSet(U) /\ Cardinality(U) = 1 * n
  BY <1>1, <1>2, FS_Product
<1> HIDE DEF U
<1>6. S \intersect U = {}
  BY <1>3
<1>7. Cardinality(S \intersect U) = 0
  BY <1>6, FS_EmptySet
<1>8. Cardinality(S) \in Nat /\ Cardinality(U) = n
  BY <1>5, FS_CardinalityType
<1>9. /\ IsFiniteSet(S \union U)
      /\ Cardinality(S \union U) = Cardinality(S) + Cardinality(U) - Cardinality(S \intersect U)
  BY <1>5, FS_Union
<1>10. T = S \union U /\ n \in Nat
  BY <1>4
<1> HIDE DEF U
<1>11. Cardinality(S \union U) = Cardinality(S) + n
  BY <1>7, <1>8, <1>9, <1>10
<1> QED
  BY <1>9, <1>10, <1>11

LEMMA UnitsFirst ==
  ASSUME NEW rs, NEW amount, NEW r, r \notin rs
  PROVE  \A k : << r, k >> \notin Units(rs, amount)
BY DEF Units

LEMMA UnitsAdded ==
  ASSUME NEW rs, NEW r, r \notin rs, NEW amount, NEW before, amount[r] \in Nat,
         \A q \in rs : amount[q] = before[q], IsFiniteSet(Units(rs, before))
  PROVE  /\ IsFiniteSet(Units(rs \union {r}, amount))
         /\ Cardinality(Units(rs \union {r}, amount)) = Cardinality(Units(rs, before)) + amount[r]
<1>1. Units(rs \union {r}, amount) = Units(rs, before) \union ({r} \X (1..amount[r]))
  BY DEF Units
<1>2. \A k : << r, k >> \notin Units(rs, before)
  BY UnitsFirst
<1> DEFINE S == Units(rs, before)
           T == Units(rs \union {r}, amount)
           n == amount[r]
<1>3. IsFiniteSet(S) /\ n \in Nat /\ T = S \union ({r} \X (1..n)) /\ \A k : << r, k >> \notin S
  BY <1>1, <1>2
<1> HIDE DEF S, T, n
<1>4. IsFiniteSet(T) /\ Cardinality(T) = Cardinality(S) + n
  BY <1>3, UnitsOfOneMore
<1> QED
  BY <1>4 DEF S, T, n

LEMMA UnitsRemoved ==
  ASSUME NEW rs, NEW r \in rs, NEW amount, NEW before, before[r] \in Nat,
         \A q \in rs \ {r} : amount[q] = before[q], IsFiniteSet(Units(rs, before))
  PROVE  /\ IsFiniteSet(Units(rs \ {r}, amount))
         /\ Cardinality(Units(rs \ {r}, amount)) = Cardinality(Units(rs, before)) - before[r]
<1> DEFINE S == Units(rs \ {r}, amount)
<1>1. S \subseteq Units(rs, before)
  BY DEF Units
<1>2. IsFiniteSet(S) /\ Cardinality(S) \in Nat
  BY <1>1, FS_Subset, FS_CardinalityType
<1>3. Units(rs, before) = S \union ({r} \X (1..before[r]))
  BY DEF Units
<1>4. \A k : << r, k >> \notin S
  BY UnitsFirst
<1> DEFINE T == Units(rs, before)
           n == before[r]
<1>5. n \in Nat /\ T = S \union ({r} \X (1..n))
  BY <1>3
<1> HIDE DEF S, T, n
<1>6. Cardinality(T) = Cardinality(S) + n
  BY <1>2, <1>4, <1>5, UnitsOfOneMore
<1>7. Cardinality(S) = Cardinality(T) - n
  BY <1>2, <1>5, <1>6
<1> QED
  BY <1>2, <1>7 DEF S, T, n

LEMMA UnitsKept ==
  ASSUME NEW rs, NEW amount, NEW before, \A q \in rs : amount[q] = before[q]
  PROVE  Units(rs, amount) = Units(rs, before)
BY DEF Units

\* A sum after one reservation more, one less or none.
FollowsSum(rs, rs1, before, amount, sum, sum1) ==
  /\ \A r \in rs : amount[r] = before[r]
  /\ \/ rs1 = rs /\ sum1 = sum
     \/ \E r \in Reservations \ rs : rs1 = rs \union {r} /\ sum1 = sum + amount[r]
     \/ \E r \in rs : rs1 = rs \ {r} /\ sum1 = sum - before[r]

LEMMA SumFollowed ==
  ASSUME NEW rs \in SUBSET Reservations, NEW rs1, NEW before, NEW amount, NEW sum, NEW sum1,
         \A r \in Reservations : before[r] \in Nat /\ amount[r] \in Nat,
         IsFiniteSet(Units(rs, before)), sum = Cardinality(Units(rs, before)),
         FollowsSum(rs, rs1, before, amount, sum, sum1)
  PROVE  IsFiniteSet(Units(rs1, amount)) /\ sum1 = Cardinality(Units(rs1, amount))
<1>1. CASE rs1 = rs /\ sum1 = sum
  BY <1>1, UnitsKept DEF FollowsSum
<1>2. ASSUME NEW r \in Reservations \ rs, rs1 = rs \union {r}, sum1 = sum + amount[r]
      PROVE  IsFiniteSet(Units(rs1, amount)) /\ sum1 = Cardinality(Units(rs1, amount))
  <2>1. r \notin rs /\ amount[r] \in Nat /\ \A q \in rs : amount[q] = before[q]
    BY DEF FollowsSum
  <2>2. /\ IsFiniteSet(Units(rs \union {r}, amount))
        /\ Cardinality(Units(rs \union {r}, amount)) = Cardinality(Units(rs, before)) + amount[r]
    BY <2>1, UnitsAdded
  <2> QED
    BY <1>2, <2>2
<1>3. ASSUME NEW r \in rs, rs1 = rs \ {r}, sum1 = sum - before[r]
      PROVE  IsFiniteSet(Units(rs1, amount)) /\ sum1 = Cardinality(Units(rs1, amount))
  <2>1. before[r] \in Nat /\ \A q \in rs \ {r} : amount[q] = before[q]
    BY DEF FollowsSum
  <2>2. /\ IsFiniteSet(Units(rs \ {r}, amount))
        /\ Cardinality(Units(rs \ {r}, amount)) = Cardinality(Units(rs, before)) - before[r]
    BY <2>1, UnitsRemoved
  <2> QED
    BY <1>3, <2>2
<1> QED
  BY <1>1, <1>2, <1>3 DEF FollowsSum

CountedUnits ==
  \A w \in Wallets : /\ IsFiniteSet(Units(HeldOn(w), Estimated))
                     /\ IsFiniteSet(Units(ChargedTo(w), Charged))

MatchInv == LockInv /\ CountedUnits /\ WalletsMatchReservations

LEMMA MatchTypes == MatchInv => LockInv /\ ResInv /\ TypeInv
BY DEF MatchInv, LockInv, ResInv

\* What a step may do to the reservations of a wallet, and to the wallet.
LEMMA Recounted ==
  ASSUME MatchInv, LockInv',
         \A w \in Wallets :
           /\ FollowsSum(HeldOn(w), HeldOn(w)', Estimated, Estimated',
                         wallet[w].reserved, wallet'[w].reserved)
           /\ FollowsSum(ChargedTo(w), ChargedTo(w)', Charged, Charged',
                         wallet[w].used, wallet'[w].used)
  PROVE  MatchInv'
<1> DEFINE e0 == Estimated
           e1 == Estimated'
           c0 == Charged
           c1 == Charged'
<1>1. TypeInv /\ TypeInv'
  BY MatchTypes DEF LockInv, ResInv
<1>2. \A r \in Reservations : e0[r] \in Nat /\ e1[r] \in Nat /\ c0[r] \in Nat /\ c1[r] \in Nat
  BY <1>1 DEF Estimated, Charged, TypeInv, TypeOK, Reservation
<1>3. ASSUME NEW w \in Wallets
      PROVE  /\ IsFiniteSet(Units(HeldOn(w), Estimated))'
             /\ IsFiniteSet(Units(ChargedTo(w), Charged))'
             /\ wallet'[w].reserved = Cardinality(Units(HeldOn(w), Estimated))'
             /\ wallet'[w].used = Cardinality(Units(ChargedTo(w), Charged))'
  <2> DEFINE H0 == HeldOn(w)
             H1 == HeldOn(w)'
             C0 == ChargedTo(w)
             C1 == ChargedTo(w)'
             res0 == wallet[w].reserved
             res1 == wallet'[w].reserved
             used0 == wallet[w].used
             used1 == wallet'[w].used
  <2>1. H0 \subseteq Reservations /\ C0 \subseteq Reservations
    BY DEF HeldOn, ChargedTo
  <2>2. /\ IsFiniteSet(Units(H0, e0)) /\ IsFiniteSet(Units(C0, c0))
        /\ res0 = Cardinality(Units(H0, e0)) /\ used0 = Cardinality(Units(C0, c0))
    BY DEF MatchInv, CountedUnits, WalletsMatchReservations
  <2>3. FollowsSum(H0, H1, e0, e1, res0, res1) /\ FollowsSum(C0, C1, c0, c1, used0, used1)
    OBVIOUS
  <2> HIDE DEF e0, e1, c0, c1, H0, H1, C0, C1, res0, res1, used0, used1
  <2>4. IsFiniteSet(Units(H1, e1)) /\ res1 = Cardinality(Units(H1, e1))
    BY <1>2, <2>1, <2>2, <2>3, SumFollowed
  <2>5. IsFiniteSet(Units(C1, c1)) /\ used1 = Cardinality(Units(C1, c1))
    BY <1>2, <2>1, <2>2, <2>3, SumFollowed
  <2>6. Units(HeldOn(w), Estimated)' = Units(H1, e1) /\ Units(ChargedTo(w), Charged)' = Units(C1, c1)
    BY DEF H1, C1, e1, c1, Units
  <2> QED
    BY <2>4, <2>5, <2>6 DEF res1, used1
<1> QED
  BY <1>3, Zenon DEF MatchInv, CountedUnits, WalletsMatchReservations

\* The amounts of reservations.
LEMMA AmountsOf ==
  \A r \in Reservations :
    /\ Estimated[r] = reservation[r].estimate /\ Estimated'[r] = reservation'[r].estimate
    /\ Charged[r] = reservation[r].settled /\ Charged'[r] = reservation'[r].settled
BY DEF Estimated, Charged

\* Steps that move no money.
LEMMA MatchKept ==
  ASSUME MatchInv, LockInv',
         \A r \in Reservations :
           /\ reservation'[r].state = reservation[r].state
           /\ reservation'[r].estimate = reservation[r].estimate
           /\ reservation'[r].settled = reservation[r].settled
           /\ reservation'[r].holds = reservation[r].holds,
         \A w \in Wallets :
           wallet'[w].reserved = wallet[w].reserved /\ wallet'[w].used = wallet[w].used
  PROVE  MatchInv'
<1>1. \A w \in Wallets : HeldOn(w)' = HeldOn(w) /\ ChargedTo(w)' = ChargedTo(w)
  BY DEF HeldOn, ChargedTo
<1>2. \A w \in Wallets : HeldOn(w) \subseteq Reservations /\ ChargedTo(w) \subseteq Reservations
  BY DEF HeldOn, ChargedTo
<1>3. \A w \in Wallets :
        /\ FollowsSum(HeldOn(w), HeldOn(w)', Estimated, Estimated',
                      wallet[w].reserved, wallet'[w].reserved)
        /\ FollowsSum(ChargedTo(w), ChargedTo(w)', Charged, Charged',
                      wallet[w].used, wallet'[w].used)
  BY <1>1, <1>2, AmountsOf DEF FollowsSum
<1> QED
  BY <1>3, Recounted

SameSpend(r) ==
  /\ reservation'[r].state = reservation[r].state /\ reservation'[r].holds = reservation[r].holds
  /\ reservation'[r].estimate = reservation[r].estimate
  /\ reservation'[r].settled = reservation[r].settled

\* No wallet spends or holds more or less; at most one is given another allowance.
SameMoney ==
  /\ \A w \in Wallets : /\ wallet'[w].reserved = wallet[w].reserved
                        /\ wallet'[w].used = wallet[w].used
                        /\ wallet[w].exists => wallet'[w].exists
  /\ \E w \in Wallets : \A v \in Wallets \ {w} : wallet'[v].allowance = wallet[v].allowance

\* Only these move money.
Moves(s) == Hold(s) \/ Settle(s) \/ Release(s)

LEMMA AllowancesMoveNoMoney ==
  ASSUME LockInv, NEW s \in Sessions, Refuse(s) \/ Set(s) \/ Adjust(s) \/ Renew(s)
  PROVE  SameMoney
<1>1. \A w \in Wallets : wallet[w] \in Wallet
  BY LockTypes DEF TypeInv, TypeOK
<1>2. Company \in Wallets /\ session[s].of \in Wallets
  BY CostAssumption, LockTypes DEF TypeInv, TypeOK, Session
<1>3. CASE Refuse(s)
  BY <1>1, <1>2, <1>3, LockTypes DEF Refuse, SameMoney, Wallet, TypeInv, TypeOK
<1>4. CASE Renew(s)
  <2>1. \A v \in Wallets : v # session[s].of => wallet'[v] = wallet[v]
    BY <1>4, LockTypes DEF Renew, TypeInv, TypeOK
  <2>2. /\ wallet'[session[s].of].reserved = wallet[session[s].of].reserved
        /\ wallet'[session[s].of].used = wallet[session[s].of].used
        /\ wallet'[session[s].of].exists = wallet[session[s].of].exists
    BY <1>1, <1>2, <1>4, LockTypes DEF Renew, Wallet, TypeInv, TypeOK
  <2> QED
    BY <1>2, <2>1, <2>2 DEF SameMoney
<1>5. ASSUME NEW a, WriteAllowance(s, a) PROVE SameMoney
  <2>1. \A v \in Wallets : v = session[s].of =>
          wallet'[v] = [wallet[v] EXCEPT !.exists = TRUE, !.allowance = a]
    BY Zenon, <1>5 DEF WriteAllowance
  <2>2. \A v \in Wallets : v # session[s].of =>
          wallet'[v] = [wallet[v] EXCEPT !.exists = @ \/ v \in Written(s)]
    BY Zenon, <1>5 DEF WriteAllowance
  <2>3. \A v \in Wallets : /\ wallet'[v].reserved = wallet[v].reserved
                           /\ wallet'[v].used = wallet[v].used
                           /\ wallet[v].exists => wallet'[v].exists
    <3>1. ASSUME NEW v \in Wallets, v = session[s].of
          PROVE  /\ wallet'[v].reserved = wallet[v].reserved /\ wallet'[v].used = wallet[v].used
                 /\ wallet'[v].exists
      BY Zenon, <1>1, <2>1, <3>1 DEF Wallet
    <3>2. ASSUME NEW v \in Wallets, v # session[s].of
          PROVE  /\ wallet'[v].reserved = wallet[v].reserved /\ wallet'[v].used = wallet[v].used
                 /\ wallet[v].exists => wallet'[v].exists
      BY Zenon, <1>1, <2>2, <3>2 DEF Wallet
    <3> QED
      BY Zenon, <3>1, <3>2
  <2>4. \A v \in Wallets \ {session[s].of} : wallet'[v].allowance = wallet[v].allowance
    BY <1>1, <2>2 DEF Wallet
  <2> QED
    BY <1>2, <2>3, <2>4 DEF SameMoney
<1> QED
  BY <1>3, <1>4, <1>5 DEF Set, Adjust

LEMMA OtherStepsMoveNoMoney ==
  ASSUME LockInv, [Next]_vars, \A s \in Sessions : ~Moves(s)
  PROVE  SameMoney /\ \A r \in Reservations : SameSpend(r)
<1>0. Company \in Wallets
  BY CostAssumption
<1>1. ASSUME UNCHANGED << wallet, reservation >>
      PROVE  SameMoney /\ \A r \in Reservations : SameSpend(r)
  BY <1>0, <1>1 DEF SameMoney, SameSpend
<1>2. ASSUME NEW s \in Sessions, Begin(s)
      PROVE  UNCHANGED << wallet, reservation >>
  BY Zenon, <1>2 DEF Begin, BeginReserve, BeginSettle, BeginRelease, BeginClose, BeginSweep, BeginSet,
              BeginAdjust, BeginChange, BeginReset
<1>3. ASSUME NEW s \in Sessions,
             \/ LockNext(s) \/ ExpireNext(s) \/ ReadToReset(s) \/ FirstPeriod(s) \/ NextPeriod(s)
             \/ Abort(s)
      PROVE  UNCHANGED << wallet, reservation >>
  BY Zenon, <1>3 DEF LockNext, ExpireNext, BeginClose, ReadToReset, FirstPeriod, NextPeriod, Abort
<1>4. ASSUME NEW s \in Sessions, Refuse(s) \/ Set(s) \/ Adjust(s) \/ Renew(s)
      PROVE  SameMoney /\ \A r \in Reservations : SameSpend(r)
  <2>1. reservation' = reservation
    BY Zenon, <1>4 DEF Refuse, Set, Adjust, WriteAllowance, Renew
  <2> QED
    BY <1>4, <2>1, AllowancesMoveNoMoney DEF SameSpend
<1>5. CASE OpenCompanyWallet
  <2>1. reservation' = reservation /\ wallet[Company] = NoWallet
    BY <1>0, <1>5 DEF OpenCompanyWallet, LockInv, MissingIsEmpty
  <2>2. \A v \in Wallets \ {Company} : wallet'[v] = wallet[v]
    BY <1>5, LockTypes DEF OpenCompanyWallet, TypeInv, TypeOK
  <2>3. /\ wallet'[Company].reserved = wallet[Company].reserved
        /\ wallet'[Company].used = wallet[Company].used
        /\ ~wallet[Company].exists
    BY <1>0, <1>5, <2>1, LockTypes DEF OpenCompanyWallet, NoWallet, TypeInv, TypeOK
  <2> QED
    BY <1>0, <2>1, <2>2, <2>3 DEF SameMoney, SameSpend
<1>6. ASSUME NEW r \in Reservations, GrowsOld(r)
      PROVE  SameMoney /\ \A q \in Reservations : SameSpend(q)
  <2>1. \A q \in Reservations : reservation[q] \in Reservation
    BY LockTypes DEF TypeInv, TypeOK
  <2>2. \A q \in Reservations : SameSpend(q)
    BY <1>6, <2>1, LockTypes DEF GrowsOld, Reservation, SameSpend, TypeInv, TypeOK
  <2>3. wallet' = wallet
    BY <1>6 DEF GrowsOld
  <2> QED
    BY <1>0, <2>2, <2>3 DEF SameMoney
<1>7. CASE PeriodEnds \/ UNCHANGED vars
  BY <1>1, <1>7 DEF PeriodEnds, vars
<1> QED
  BY <1>1, <1>2, <1>3, <1>4, <1>5, <1>6, <1>7 DEF Next, Proceed, Moves

LEMMA HoldMatches ==
  ASSUME MatchInv, LockInv', NEW s \in Sessions, Hold(s)
  PROVE  MatchInv'
<1> DEFINE r == session[s].res
           e == session[s].amount
           W == Written(s)
<1>1. session[s] \in Session /\ r \in Reservations /\ reservation[r].state = "none"
      /\ \A q \in Reservations : reservation[q] \in Reservation
  BY MatchTypes DEF Hold, Ready, Is, ResInv, ReservesAlone, TypeInv, TypeOK, SessionWellFormed
<1>2. \A w \in Wallets : /\ w \in W => wallet'[w].reserved = wallet[w].reserved + e
                         /\ w \notin W => wallet'[w].reserved = wallet[w].reserved
                         /\ wallet'[w].used = wallet[w].used
  BY MatchTypes DEF Hold, TypeInv, TypeOK, Wallet
<1>3. /\ reservation'[r].state = "Held" /\ reservation'[r].estimate = e /\ reservation'[r].holds = W
      /\ \A q \in Reservations \ {r} : reservation'[q] = reservation[q]
  BY <1>1, MatchTypes DEF Hold, NotReserved, TypeInv, TypeOK
<1> HIDE DEF r, e, W
<1>4. ASSUME NEW w \in Wallets
      PROVE  /\ HeldOn(w)' = IF w \in W THEN HeldOn(w) \union {r} ELSE HeldOn(w)
             /\ ChargedTo(w)' = ChargedTo(w)
             /\ r \notin HeldOn(w) /\ r \notin ChargedTo(w)
             /\ HeldOn(w) \subseteq Reservations /\ ChargedTo(w) \subseteq Reservations
  BY <1>1, <1>3 DEF HeldOn, ChargedTo
<1>5. \A w \in Wallets :
        /\ FollowsSum(HeldOn(w), HeldOn(w)', Estimated, Estimated',
                      wallet[w].reserved, wallet'[w].reserved)
        /\ FollowsSum(ChargedTo(w), ChargedTo(w)', Charged, Charged',
                      wallet[w].used, wallet'[w].used)
  BY <1>1, <1>2, <1>3, <1>4, AmountsOf DEF FollowsSum
<1> QED
  BY <1>5, Recounted

LEMMA CloseMatches ==
  ASSUME MatchInv, LockInv', NEW s \in Sessions, Settle(s) \/ Release(s)
  PROVE  MatchInv'
<1> DEFINE r == session[s].res
           e == reservation[r].estimate
           W == reservation[r].holds
<1>1. session[s] \in Session /\ r \in Reservations /\ reservation[r].state = "Held"
      /\ \A q \in Reservations : reservation[q] \in Reservation
  BY Zenon, MatchTypes DEF Settle, Release, Ready, Is, ResInv, ClosesWhatIsHeld, TypeInv, TypeOK,
                    SessionWellFormed, Closing
<1>2. \A w \in Wallets : /\ w \in W => wallet'[w].reserved = wallet[w].reserved - e
                         /\ w \notin W => wallet'[w].reserved = wallet[w].reserved
                         /\ w \notin W \/ Release(s) => wallet'[w].used = wallet[w].used
                         /\ w \in W /\ Settle(s) =>
                              wallet'[w].used = wallet[w].used + reservation'[r].settled
  <2>1. CASE Settle(s)
    <3>1. reservation'[r].settled = session[s].amount
      BY Zenon, <1>1, <2>1, MatchTypes DEF Settle, TypeInv, TypeOK, Reservation
    <3>2. ~Release(s)
      BY Zenon, <2>1 DEF Settle, Release, Ready, Is
    <3>3. \A w \in Wallets :
            /\ w \in W => /\ wallet'[w].reserved = wallet[w].reserved - e
                          /\ wallet'[w].used = wallet[w].used + session[s].amount
            /\ w \notin W => wallet'[w] = wallet[w]
      BY Zenon, <2>1, MatchTypes DEF Settle, TypeInv, TypeOK, Wallet
    <3> QED
      BY <2>1, <3>1, <3>2, <3>3
  <2>2. CASE Release(s)
    <3>1. ~Settle(s)
      BY Zenon, <2>2 DEF Settle, Release, Ready, Is
    <3> QED
      BY <2>2, <3>1, MatchTypes DEF Release, ReleasedFrom, TypeInv, TypeOK, Wallet
  <2> QED
    BY <2>1, <2>2
<1>3. /\ reservation'[r].state \in Closed
      /\ Settle(s) => reservation'[r].state = "Settled"
      /\ Release(s) => reservation'[r].state # "Settled"
      /\ reservation'[r].estimate = e /\ reservation'[r].holds = W
      /\ \A q \in Reservations \ {r} : reservation'[q] = reservation[q]
  <2>1. CASE Settle(s)
    <3>1. ~Release(s)
      BY Zenon, <2>1 DEF Settle, Release, Ready, Is
    <3> QED
      <4>1. r \in Reservations /\ reservation \in [Reservations -> Reservation]
        BY <1>1, MatchTypes DEF TypeInv, TypeOK
      <4>2. reservation' = [reservation EXCEPT ![r].state = "Settled", ![r].settled = session[s].amount]
        BY Zenon, <2>1 DEF Settle
      <4> QED
        BY <3>1, <4>1, <4>2 DEF Reservation, Closed
  <2>2. CASE Release(s)
    <3>1. ~Settle(s)
      BY Zenon, <2>2 DEF Settle, Release, Ready, Is
    <3> QED
      BY <1>1, <2>2, <3>1, MatchTypes DEF Release, TypeInv, TypeOK, Reservation, Closed
  <2> QED
    BY <2>1, <2>2
<1> HIDE DEF r, e, W
<1>4. ASSUME NEW w \in Wallets
      PROVE  /\ HeldOn(w)' = HeldOn(w) \ {r}
             /\ w \in W <=> r \in HeldOn(w)
             /\ Settle(s) /\ w \in W => ChargedTo(w)' = ChargedTo(w) \union {r}
             /\ Release(s) \/ w \notin W => ChargedTo(w)' = ChargedTo(w)
             /\ r \notin ChargedTo(w)
             /\ HeldOn(w) \subseteq Reservations /\ ChargedTo(w) \subseteq Reservations
  BY <1>1, <1>3 DEF HeldOn, ChargedTo, Closed, W
<1>5. ASSUME NEW w \in Wallets
      PROVE  /\ FollowsSum(HeldOn(w), HeldOn(w)', Estimated, Estimated',
                           wallet[w].reserved, wallet'[w].reserved)
             /\ FollowsSum(ChargedTo(w), ChargedTo(w)', Charged, Charged',
                           wallet[w].used, wallet'[w].used)
  <2>1. CASE w \in W
    <3>1. r \in HeldOn(w) /\ Estimated[r] = e
      BY <1>1, <1>4, <2>1, AmountsOf DEF e
    <3> QED
      BY <1>1, <1>2, <1>3, <1>4, <2>1, <3>1, AmountsOf DEF FollowsSum
  <2>2. CASE w \notin W
    <3>1. /\ HeldOn(w)' = HeldOn(w) /\ ChargedTo(w)' = ChargedTo(w)
          /\ wallet'[w].reserved = wallet[w].reserved /\ wallet'[w].used = wallet[w].used
      BY <1>2, <1>4, <2>2
    <3>2. \A q \in HeldOn(w) \union ChargedTo(w) : q \in Reservations /\ reservation'[q] = reservation[q]
      BY <1>3, <1>4, <2>2
    <3>3. /\ \A q \in HeldOn(w) : Estimated'[q] = Estimated[q]
          /\ \A q \in ChargedTo(w) : Charged'[q] = Charged[q]
      BY <3>2, AmountsOf
    <3> QED
      BY <3>1, <3>3 DEF FollowsSum
  <2> QED
    BY <2>1, <2>2
<1> QED
  BY <1>5, Recounted

LEMMA MatchPreserved == MatchInv /\ [Next]_vars => MatchInv'
<1> SUFFICES ASSUME MatchInv, [Next]_vars PROVE MatchInv'
  OBVIOUS
<1>1. LockInv'
  BY MatchTypes, LockInvPreserved
<1>2. ASSUME NEW s \in Sessions, Moves(s) PROVE MatchInv'
  BY <1>1, <1>2, HoldMatches, CloseMatches DEF Moves
<1>3. CASE \A s \in Sessions : ~Moves(s)
  <2>1. SameMoney /\ \A r \in Reservations : SameSpend(r)
    BY <1>3, MatchTypes, OtherStepsMoveNoMoney
  <2> QED
    BY <1>1, <2>1, MatchKept DEF SameMoney, SameSpend
<1> QED
  BY <1>2, <1>3

LEMMA MatchInitially == Init => MatchInv
<1> SUFFICES ASSUME Init PROVE MatchInv
  OBVIOUS
<1>1. \A w \in Wallets : HeldOn(w) = {} /\ ChargedTo(w) = {}
  BY DEF Init, NotReserved, HeldOn, ChargedTo
<1>2. \A amount : Units({}, amount) = {}
  BY DEF Units
<1>3. \A w \in Wallets : wallet[w].reserved = 0 /\ wallet[w].used = 0
  BY DEF Init, NoWallet
<1> QED
  BY <1>1, <1>2, <1>3, LockInvInitially, FS_EmptySet
  DEF MatchInv, CountedUnits, WalletsMatchReservations

\* Every wallet is what the reservations make of it, at every level and however the sessions
\* interleave and fail: no hold leaks or is given back twice, no run is charged twice.
THEOREM WalletsAlwaysMatch == Spec => []WalletsMatchReservations
<1>1. MatchInv => WalletsMatchReservations
  BY DEF MatchInv
<1> QED
  BY <1>1, MatchInitially, MatchPreserved, PTL DEF Spec

-----------------------------------------------------------------------------
(* Every transaction as one step.                                          *)

\* The company is first in every lock order that is not yet begun.
CompanyFirst(x) ==
  Listed(x.todo, Company) => Head(x.todo) = Company /\ \A w \in x.path : Listed(x.todo, w)

\* What a transaction was asked for.
AsAsked(x) ==
  /\ x.doing = "reserve" => x.path \in Paths /\ x.amount \in Estimates /\ CompanyFirst(x)
  /\ x.doing = "settle" => x.amount \in Actuals

LEMMA OrdersStartAtTheCompany ==
  ASSUME NEW path \in Paths, NEW order \in LockOrders(path)
  PROVE  /\ order # << >> /\ Head(order) = Company
         /\ \A w \in path : Listed(order, w)
<1>1. path \in SUBSET Wallets /\ Company \in path /\ order \in SetToSeqs(path)
  BY CostAssumption DEF LockOrders
<1>2. order \in Seq(Wallets) /\ Len(order) = Cardinality(path)
  BY <1>1, OrdersAreSequences
<1>3. \A w \in path : Listed(order, w)
  BY <1>1, OrdersCover
<1>4. PICK i \in 1..Len(order) : order[i] = Company
  BY <1>1, <1>3 DEF Listed
<1>5. Len(order) \in Nat /\ 1 \in 1..Len(order) /\ order[1] \in path
  BY <1>1, <1>2, <1>4 DEF SetToSeqs
<1>6. i = 1 \/ 1 < i
  BY <1>2, <1>4
<1>7. 1 < i => Level[order[1]] < Level[Company]
  BY <1>2, <1>4, <1>5 DEF LockOrders
<1>8. order[1] = Company \/ Level[order[1]] > Level[Company]
  BY <1>1, <1>5, CostAssumption
<1>9. Level[order[1]] \in Int /\ Level[Company] \in Int
  BY <1>1, <1>5, LevelNat
<1>10. order[1] = Company
  BY <1>4, <1>6, <1>7, <1>8, <1>9
<1> QED
  BY <1>2, <1>3, <1>5, <1>10

\* Once it has a lock, the company's was the first.
LEMMA LocksTheCompanyFirst ==
  ASSUME NEW x, x.todo \in Seq(Wallets), x.todo # << >>, OutermostFirst(x), CompanyFirst(x)
  PROVE  ~Listed(Tail(x.todo), Company)
<1> DEFINE q == x.todo
<1>1. /\ Len(q) \in Nat \ {0} /\ Len(Tail(q)) = Len(q) - 1
      /\ \A i \in 1..Len(Tail(q)) : Tail(q)[i] = q[i + 1]
      /\ Head(q) = q[1]
  BY HeadTailProperties
<1>2. \A i, j \in 1..Len(q) : i < j => Level[q[i]] < Level[q[j]]
  BY DEF OutermostFirst
<1>3. SUFFICES ASSUME NEW i \in 1..Len(Tail(q)), Tail(q)[i] = Company PROVE FALSE
  BY DEF Listed
<1>4. i + 1 \in 1..Len(q) /\ 1 \in 1..Len(q) /\ 1 < i + 1 /\ q[i + 1] = Company
  BY <1>1, <1>3
<1>5. q[1] = Company
  BY <1>1, <1>4 DEF CompanyFirst, Listed
<1>6. Level[Company] \in Int
  BY CostAssumption, LevelNat
<1> QED
  BY <1>2, <1>4, <1>5, <1>6

\* A transaction that has not yet locked the company.
NotYet(x) == x.doing = "reserve" => Listed(x.todo, Company)

LEMMA SessionsAsAsked ==
  ASSUME OrderInv, NEW s \in Sessions, AsAsked(session[s]), Begin(s) \/ Proceed(s) \/ Abort(s)
  PROVE  /\ AsAsked(session'[s]) /\ (LockNext(s) \/ NotYet(session'[s]))
         /\ \A t \in Sessions \ {s} : session'[t] = session[t]
<1> DEFINE x == session'[s]
           Good == /\ AsAsked(x) /\ (LockNext(s) \/ NotYet(x))
                   /\ \A t \in Sessions \ {s} : session'[t] = session[t]
<1> SUFFICES Good
  OBVIOUS
<1>1. ASSUME NEW y, session' = [session EXCEPT ![s] = y], AsAsked(y), NotYet(y)
      PROVE  Good
  <2>1. x = y /\ \A t \in Sessions \ {s} : session'[t] = session[t]
    BY <1>1, SessionIs DEF OrderInv
  <2> QED
    BY <1>1, <2>1
<1> HIDE DEF Good
<1>2. CASE Ends(s)
  <2>1. AsAsked(IdleSession) /\ NotYet(IdleSession)
    BY IdleHoldsNothing DEF AsAsked, NotYet
  <2> QED
    BY <1>1, <1>2, <2>1 DEF Ends
<1>3. ASSUME NEW r, NEW path \in Paths, NEW e \in Estimates, BeginReserve(s, r, path, e)
      PROVE  Good
  <2> DEFINE y(order) == [IdleSession EXCEPT !.doing = "reserve", !.res = r, !.path = path,
                                             !.todo = order, !.amount = e]
  <2>1. PICK order \in LockOrders(path) : session' = [session EXCEPT ![s] = y(order)]
    BY <1>3 DEF BeginReserve
  <2>2. /\ y(order).doing = "reserve" /\ y(order).todo = order /\ y(order).path = path
        /\ y(order).amount = e
    BY DEF IdleSession
  <2> HIDE DEF y
  <2>3. AsAsked(y(order)) /\ NotYet(y(order))
    BY <2>1, <2>2, OrdersStartAtTheCompany, CostAssumption DEF AsAsked, CompanyFirst, NotYet
  <2> QED
    BY <1>1, <2>1, <2>3
<1>4. ASSUME NEW doing \in {"set", "adjust"}, NEW path, NEW w, NEW a, NEW recurs,
             BeginChange(s, doing, path, w, a, recurs)
      PROVE  Good
  <2> DEFINE y(order) == [IdleSession EXCEPT !.doing = doing, !.path = path, !.of = w, !.todo = order,
                                             !.amount = a, !.recurs = recurs]
  <2>1. PICK order : session' = [session EXCEPT ![s] = y(order)]
    BY <1>4 DEF BeginChange
  <2>2. y(order).doing \in {"set", "adjust"}
    BY DEF IdleSession
  <2> HIDE DEF y
  <2> QED
    BY <1>1, <2>1, <2>2 DEF AsAsked, NotYet
<1>5. ASSUME NEW r, NEW how \in Closing, NEW actual, NEW rest, BeginClose(s, r, how, actual, rest),
             how = "settle" => actual \in Actuals
      PROVE  Good
  <2> DEFINE y(order) == [IdleSession EXCEPT !.doing = how, !.res = r, !.path = reservation[r].holds,
                                             !.todo = order, !.amount = actual, !.rest = rest]
  <2>1. PICK order : session' = [session EXCEPT ![s] = y(order)]
    BY <1>5 DEF BeginClose
  <2>2. y(order).doing = how /\ y(order).amount = actual
    BY DEF IdleSession
  <2> HIDE DEF y
  <2> QED
    BY <1>1, <1>5, <2>1, <2>2 DEF AsAsked, NotYet, Closing
<1>6. CASE BeginSweep(s)
  <2> DEFINE y(rest) == [IdleSession EXCEPT !.doing = "sweep", !.rest = rest]
  <2>1. PICK rest : session' = [session EXCEPT ![s] = y(rest)]
    BY Zenon, <1>6 DEF BeginSweep
  <2>2. y(rest).doing = "sweep"
    BY DEF IdleSession
  <2> HIDE DEF y
  <2> QED
    BY <1>1, <2>1, <2>2 DEF AsAsked, NotYet
<1>7. ASSUME NEW w, BeginReset(s, w) PROVE Good
  <2> DEFINE y == [IdleSession EXCEPT !.doing = "dueRead", !.of = w, !.amount = renewal[w].grant,
                     !.left = LeftOver(wallet[w]), !.at = renewal[w].at, !.until = now]
  <2>1. session' = [session EXCEPT ![s] = y]
    BY <1>7 DEF BeginReset
  <2>2. y.doing = "dueRead"
    BY DEF IdleSession
  <2> HIDE DEF y
  <2> QED
    BY <1>1, <2>1, <2>2 DEF AsAsked, NotYet
<1>8. CASE LockNext(s)
  <2> DEFINE y == session[s]
  <2>1. y \in Session /\ \A t \in Sessions \ {s} : session'[t] = session[t]
    BY <1>8 DEF LockNext, OrderInv, TypeInv, TypeOK
  <2>2. /\ x.doing = y.doing /\ x.amount = y.amount /\ x.path = y.path /\ x.todo = Tail(y.todo)
        /\ y.todo \in Seq(Wallets) /\ y.todo # << >>
    BY <1>8, <2>1 DEF LockNext, OrderInv, TypeInv, TypeOK, Session
  <2>3. y.doing = "reserve" => CompanyFirst(x)
    <3> SUFFICES ASSUME y.doing = "reserve" PROVE ~Listed(Tail(y.todo), Company)
      BY <2>2 DEF CompanyFirst
    <3>1. OutermostFirst(y) /\ CompanyFirst(y)
      BY DEF OrderInv, Ordered, AsAsked
    <3> QED
      BY <2>2, <3>1, LocksTheCompanyFirst
  <2> QED
    BY <2>1, <2>2, <1>8, <2>3 DEF AsAsked, Good
<1>9. CASE ReadToReset(s) \/ FirstPeriod(s) \/ NextPeriod(s)
  <2>1. \A t \in Sessions \ {s} : session'[t] = session[t]
    BY <1>9 DEF ReadToReset, FirstPeriod, NextPeriod, OrderInv, TypeInv, TypeOK
  <2>2. session[s] \in Session
    BY DEF OrderInv, TypeInv, TypeOK
  <2>3. CASE ReadToReset(s)
    BY <2>1, <2>2, <2>3 DEF ReadToReset, Session, AsAsked, NotYet, Good, OrderInv, TypeInv, TypeOK
  <2>4. CASE FirstPeriod(s)
    BY Zenon, <2>4, FirstPeriodSession DEF AsAsked, NotYet, Good, OrderInv
  <2>5. CASE NextPeriod(s)
    BY <2>1, <2>2, <2>5 DEF NextPeriod, Is, Session, AsAsked, NotYet, Good, OrderInv, TypeInv, TypeOK
  <2> QED
    BY <1>9, <2>3, <2>4, <2>5
<1>10. CASE Release(s)
  <2> DEFINE y == [IdleSession EXCEPT !.rest = session[s].rest,
                                      !.doing = IF session[s].rest = {} THEN "idle" ELSE "sweep"]
  <2>1. session' = [session EXCEPT ![s] = y]
    BY <1>10 DEF Release
  <2>2. y.doing \in {"idle", "sweep"}
    BY DEF IdleSession
  <2> HIDE DEF y
  <2> QED
    BY <1>1, <2>1, <2>2 DEF AsAsked, NotYet
<1>11. CASE Begin(s)
  <2>1. ASSUME NEW w, NEW a, NEW recurs, BeginSet(s, w, a, recurs) PROVE Good
    BY <1>4, <2>1 DEF BeginSet
  <2>2. ASSUME NEW w, NEW delta, BeginAdjust(s, w, delta) PROVE Good
    BY <1>4, <2>2 DEF BeginAdjust
  <2>3. ASSUME NEW r, NEW actual \in Actuals, BeginSettle(s, r, actual) PROVE Good
    BY <1>5, <2>3 DEF BeginSettle, Closing
  <2>4. ASSUME NEW r, BeginRelease(s, r) PROVE Good
    BY <1>5, <2>4 DEF BeginRelease, Closing
  <2> QED
    BY <1>3, <1>6, <1>7, <1>11, <2>1, <2>2, <2>3, <2>4 DEF Begin
<1>12. CASE Abort(s) \/ Hold(s) \/ Refuse(s) \/ Settle(s) \/ Set(s) \/ Adjust(s) \/ Renew(s)
  BY Zenon, <1>2, <1>12 DEF Abort, Hold, Refuse, Settle, Set, Adjust, WriteAllowance, Renew
<1>13. CASE ExpireNext(s)
  BY <1>2, <1>5, <1>13 DEF ExpireNext, Closing
<1> QED
  BY <1>8, <1>9, <1>10, <1>11, <1>12, <1>13 DEF Proceed

\* A level that a spend passes over, because there was no wallet for it, has nothing
\* committed for as long as the company's wallet stays locked.
PassesOver(x) ==
  (/\ x.doing = "reserve" /\ ~Listed(x.todo, Company)
   /\ x.seen[Company].exists \/ ~wallet[Company].exists)
  => \A w \in x.path \ {Company} :
       (~x.seen[w].exists /\ ~Listed(x.todo, w)) => Committed(wallet[w]) = 0 /\ HeldOn(w) = {}

\* Every spend counts at the company.
HoldsTheCompany ==
  \A r \in Reservations : reservation[r].state = "Held" => Company \in reservation[r].holds

BudgetInv ==
  /\ MatchInv /\ HoldsTheCompany
  /\ \A s \in Sessions : AsAsked(session[s]) /\ PassesOver(session[s])

LEMMA BudgetTypes == BudgetInv => MatchInv /\ LockInv /\ ResInv /\ TypeInv
BY MatchTypes DEF BudgetInv

\* A session that stands by while nothing is taken from its wallets but what was held.
LEMMA StandsBy ==
  ASSUME BudgetInv, NEW t \in Sessions, session'[t] = session[t],
         wallet[Company].exists => wallet'[Company].exists,
         \A w \in Wallets :
           HeldOn(w) = {} => /\ HeldOn(w)' = {}
                             /\ wallet'[w].reserved = wallet[w].reserved
                             /\ wallet'[w].used = wallet[w].used
  PROVE  PassesOver(session[t])'
<1>1. session[t].path \in SUBSET Wallets /\ PassesOver(session[t])
  BY BudgetTypes DEF BudgetInv, TypeInv, TypeOK, Session
<1> QED
  BY <1>1 DEF PassesOver, Committed

LEMMA HoldKeepsBudget ==
  ASSUME BudgetInv, NEW s \in Sessions, Hold(s), NEW t \in Sessions \ {s}, session'[t] = session[t]
  PROVE  PassesOver(session[t])'
<1>1. session[s].doing = "reserve" /\ session[s].path \in Paths /\ ~Clashes(s)
  BY DEF Hold, Ready, Is, BudgetInv, AsAsked
<1>2. Company \in Written(s) /\ Company \in Wallets
  BY <1>1, CostAssumption DEF Written
<1>3. wallet'[Company].exists
  BY <1>2, BudgetTypes DEF Hold, TypeInv, TypeOK, Wallet
<1>4. Company \notin session[t].held
  BY <1>1, <1>2, BudgetTypes, WrittenIsMine DEF Renewing
<1>5. session[t].doing = "reserve" => ~session[t].seen[Company].exists
  <2>1. SessionLocks(session[t])
    BY BudgetTypes DEF LockInv
  <2>2. session[t].doing = "reserve" => Protects(session[t])
    BY <2>1 DEF SessionLocks, Renewing
  <2> QED
    BY <1>2, <1>4, <2>2 DEF Protects, NoWallet
<1> QED
  BY <1>3, <1>5 DEF PassesOver

LEMMA CloseKeepsBudget ==
  ASSUME BudgetInv, NEW s \in Sessions, Settle(s) \/ Release(s),
         NEW t \in Sessions \ {s}, session'[t] = session[t]
  PROVE  PassesOver(session[t])'
<1> DEFINE r == session[s].res
           W == reservation[r].holds
<1>1. r \in Reservations /\ reservation[r].state = "Held"
      /\ \A q \in Reservations : reservation[q] \in Reservation
  BY Zenon, BudgetTypes DEF Settle, Release, Ready, Is, ResInv, ClosesWhatIsHeld, TypeInv, TypeOK,
                     SessionWellFormed, Closing
<1>2. \A w \in Wallets : /\ w \notin W => wallet'[w] = wallet[w]
                         /\ wallet'[w].exists = wallet[w].exists
  <2>1. \A w \in Wallets : wallet[w] \in Wallet
    BY BudgetTypes DEF TypeInv, TypeOK
  <2>2. CASE Settle(s)
    BY Zenon, <2>1, <2>2 DEF Settle, Wallet
  <2>3. CASE Release(s)
    BY <2>1, <2>3 DEF Release, ReleasedFrom, Wallet
  <2> QED
    BY <2>2, <2>3
<1>3. /\ \A q \in Reservations \ {r} : reservation'[q] = reservation[q]
      /\ reservation'[r].state # "Held"
  <2>1. CASE Settle(s)
    BY Zenon, <1>1, <2>1, BudgetTypes DEF Settle, TypeInv, TypeOK, Reservation
  <2>2. CASE Release(s)
    BY <1>1, <2>2, BudgetTypes DEF Release, TypeInv, TypeOK, Reservation
  <2> QED
    BY <2>1, <2>2
<1> HIDE DEF r
<1>4. \A w \in Wallets : HeldOn(w)' \subseteq HeldOn(w) /\ (w \in W => r \in HeldOn(w))
  BY <1>1, <1>3 DEF HeldOn
<1>5. Company \in Wallets
  BY CostAssumption
<1> QED
  BY <1>2, <1>4, <1>5, StandsBy

\* A session's own locks.
LEMMA LockingPassesOver ==
  ASSUME BudgetInv, OrderInv, NEW s \in Sessions, LockNext(s)
  PROVE  PassesOver(session[s])'
<1> DEFINE y == session[s]
           w == Head(y.todo)
           x == session'[s]
<1>1. y \in Session /\ AsAsked(y) /\ PassesOver(y)
  BY BudgetTypes DEF BudgetInv, TypeInv, TypeOK
<1>2. w \in Wallets /\ y.todo \in Seq(Wallets) /\ y.todo # << >> /\ y.path \in SUBSET Wallets
  BY <1>1, TailIsSequence DEF LockNext, Session
<1>3. /\ x.doing = y.doing /\ x.path = y.path /\ x.todo = Tail(y.todo)
      /\ x.seen = [y.seen EXCEPT ![w] = wallet[w]] /\ y.seen \in [Wallets -> Wallet]
      /\ UNCHANGED << wallet, reservation >>
  BY <1>1, BudgetTypes DEF LockNext, TypeInv, TypeOK, Session
<1> HIDE DEF x
<1>4. SUFFICES ASSUME y.doing = "reserve", x.seen[Company].exists \/ ~wallet[Company].exists,
                      NEW v \in y.path \ {Company}, ~x.seen[v].exists, ~Listed(Tail(y.todo), v)
               PROVE  Committed(wallet[v]) = 0 /\ HeldOn(v) = {}
  BY <1>3 DEF PassesOver, Committed, HeldOn, x
<1>5. w # Company
  <2>1. w = Company => Listed(y.todo, Company)
    BY <1>2 DEF Listed
  <2>2. Listed(y.todo, Company) => Listed(y.todo, v)
    BY <1>1, <1>4 DEF AsAsked, CompanyFirst
  <2>3. Listed(y.todo, v) => v = w
    BY <1>2, <1>4, TailLists
  <2> QED
    BY <1>4, <2>1, <2>2, <2>3
<1>6. CASE v = w
  <2>1. ~wallet[v].exists /\ v \in Wallets
    BY <1>2, <1>3, <1>4, <1>6
  <2>2. wallet[v] = NoWallet
    BY <2>1, BudgetTypes DEF LockInv, MissingIsEmpty
  <2>3. HeldOn(v) = {}
    BY <2>1, BudgetTypes DEF LockInv, HoldsExist, HeldOn
  <2> QED
    BY <2>2, <2>3 DEF Committed, NoWallet
<1>7. CASE v # w
  <2>1. ~Listed(y.todo, v)
    BY <1>2, <1>4, <1>7, TailLists
  <2>2. ~Listed(y.todo, Company)
    BY <1>1, <1>4, <1>5 DEF AsAsked, CompanyFirst
  <2>3. x.seen[v] = y.seen[v] /\ x.seen[Company] = y.seen[Company]
    BY <1>2, <1>3, <1>4, <1>5, <1>7, CostAssumption
  <2> QED
    BY <1>1, <1>4, <2>1, <2>2, <2>3 DEF PassesOver
<1> QED
  BY <1>6, <1>7

\* Any other step of a session leaves it without the company's lock.
LEMMA OwnStepPassesOver ==
  ASSUME BudgetInv, OrderInv, NEW s \in Sessions, Begin(s) \/ Proceed(s) \/ Abort(s)
  PROVE  PassesOver(session[s])'
<1>1. LockNext(s) \/ NotYet(session'[s])
  BY SessionsAsAsked DEF BudgetInv
<1>2. CASE LockNext(s)
  BY <1>2, LockingPassesOver
<1>3. CASE NotYet(session'[s])
  BY <1>3 DEF NotYet, PassesOver
<1> QED
  BY <1>1, <1>2, <1>3

LEMMA HoldsAreAtTheCompany ==
  ASSUME BudgetInv, [Next]_vars
  PROVE  HoldsTheCompany'
<1>1. \A r \in Reservations : reservation[r].state = "Held" => Company \in reservation[r].holds
  BY DEF BudgetInv, HoldsTheCompany
<1>2. \A r \in Reservations : reservation[r] \in Reservation
  BY BudgetTypes DEF TypeInv, TypeOK
<1>3. CASE \A s \in Sessions : ~Moves(s)
  BY <1>1, <1>3, BudgetTypes, OtherStepsMoveNoMoney DEF SameSpend, HoldsTheCompany
<1>4. ASSUME NEW s \in Sessions, Hold(s) PROVE HoldsTheCompany'
  <2>1. session[s].path \in Paths /\ session[s].res \in Reservations
    BY <1>4, BudgetTypes DEF Hold, Ready, Is, BudgetInv, AsAsked, TypeInv, SessionWellFormed
  <2>2. Company \in Written(s)
    BY <2>1, CostAssumption DEF Written
  <2>3. /\ reservation'[session[s].res].holds = Written(s)
        /\ \A q \in Reservations \ {session[s].res} : reservation'[q] = reservation[q]
    BY <1>4, <2>1, BudgetTypes DEF Hold, TypeInv, TypeOK, NotReserved
  <2> QED
    BY <1>1, <2>2, <2>3 DEF HoldsTheCompany
<1>5. ASSUME NEW s \in Sessions, Settle(s) PROVE HoldsTheCompany'
  <2>1. \A q \in Reservations : reservation'[q].state = "Held" => reservation'[q] = reservation[q]
    BY Zenon, <1>2, <1>5, BudgetTypes DEF Settle, Reservation, TypeInv, TypeOK
  <2> QED
    BY <1>1, <2>1 DEF HoldsTheCompany
<1>6. ASSUME NEW s \in Sessions, Release(s) PROVE HoldsTheCompany'
  <2>1. \A q \in Reservations : reservation'[q].state = "Held" => reservation'[q] = reservation[q]
    BY <1>2, <1>6, BudgetTypes DEF Release, Reservation, TypeInv, TypeOK
  <2> QED
    BY <1>1, <2>1 DEF HoldsTheCompany
<1> QED
  BY <1>3, <1>4, <1>5, <1>6 DEF Moves

LEMMA BudgetInvPreserved == BudgetInv /\ OrderInv /\ [Next]_vars => BudgetInv'
<1> SUFFICES ASSUME BudgetInv, OrderInv, [Next]_vars PROVE BudgetInv'
  OBVIOUS
<1>1. MatchInv' /\ HoldsTheCompany'
  BY MatchPreserved, HoldsAreAtTheCompany DEF BudgetInv
<1>2. SUFFICES ASSUME NEW t \in Sessions PROVE AsAsked(session[t])' /\ PassesOver(session[t])'
  BY <1>1 DEF BudgetInv
<1>3. AsAsked(session[t])
  BY DEF BudgetInv
<1>4. ASSUME session'[t] = session[t] PROVE AsAsked(session[t])'
  BY <1>3, <1>4 DEF AsAsked, CompanyFirst
<1>5. ASSUME session'[t] = session[t], \A s \in Sessions : ~Moves(s)
      PROVE  PassesOver(session[t])'
  <2>1. SameMoney /\ \A r \in Reservations : SameSpend(r)
    BY <1>5, BudgetTypes, OtherStepsMoveNoMoney
  <2>2. \A w \in Wallets : HeldOn(w)' = HeldOn(w)
    BY <2>1 DEF SameSpend, HeldOn
  <2> QED
    BY <1>5, <2>1, <2>2, StandsBy, CostAssumption DEF SameMoney
<1>6. ASSUME Begin(t) \/ Proceed(t) \/ Abort(t)
      PROVE  AsAsked(session[t])' /\ PassesOver(session[t])'
  <2>1. AsAsked(session'[t])
    BY <1>3, <1>6, SessionsAsAsked
  <2>2. AsAsked(session[t])'
    BY <2>1 DEF AsAsked, CompanyFirst
  <2> QED
    BY <1>6, <2>2, OwnStepPassesOver
<1>7. ASSUME NEW s \in Sessions, Begin(s) \/ Proceed(s) \/ Abort(s)
      PROVE  s # t => session'[t] = session[t]
  BY <1>7, SessionsAsAsked DEF BudgetInv
<1>8. ASSUME NEW s \in Sessions, Moves(s)
      PROVE  AsAsked(session[t])' /\ PassesOver(session[t])'
  <2>1. Proceed(s)
    BY <1>8 DEF Moves, Proceed
  <2>2. CASE s # t
    BY <1>4, <1>7, <1>8, <2>1, <2>2, HoldKeepsBudget, CloseKeepsBudget DEF Moves
  <2> QED
    BY <1>6, <2>1, <2>2
<1>9. CASE \A s \in Sessions : ~Moves(s)
  <2>1. CASE OpenCompanyWallet \/ PeriodEnds \/ UNCHANGED vars \/ \E r \in Reservations : GrowsOld(r)
    <3>1. session' = session
      BY <2>1 DEF OpenCompanyWallet, PeriodEnds, vars, GrowsOld
    <3> QED
      BY <1>4, <1>5, <1>9, <3>1
  <2>2. ASSUME NEW s \in Sessions, Begin(s) \/ Proceed(s) \/ Abort(s)
        PROVE  AsAsked(session[t])' /\ PassesOver(session[t])'
    BY <1>4, <1>5, <1>6, <1>7, <1>9, <2>2
  <2> QED
    BY <2>1, <2>2 DEF Next
<1> QED
  BY <1>8, <1>9

LEMMA BudgetInvInitially == Init => BudgetInv
<1> SUFFICES ASSUME Init PROVE BudgetInv
  OBVIOUS
<1>1. MatchInv
  BY MatchInitially
<1>2. HoldsTheCompany
  BY DEF Init, NotReserved, HoldsTheCompany
<1>3. \A s \in Sessions : AsAsked(session[s]) /\ PassesOver(session[s])
  BY IdleHoldsNothing DEF Init, AsAsked, PassesOver
<1> QED
  BY <1>1, <1>2, <1>3 DEF BudgetInv

LEMMA BudgetInvAlways == Spec => []BudgetInv
BY BudgetInvInitially, BudgetInvPreserved, OrderInvAlways, PTL DEF Spec

\* What the budget stores of reservations and wallets.
Spend == [r \in Reservations |->
  [state |-> reservation[r].state, levels |-> reservation[r].holds,
   estimate |-> reservation[r].estimate, charged |-> reservation[r].settled]]
Allowance == [w \in Wallets |-> wallet[w].allowance]

\* The instance has a Cardinality of its own.
LEMMA SameCardinality == \A S : Promise!Cardinality(S) = Cardinality(S)
BY DEF Promise!Cardinality, Cardinality

\* What is committed on the budget is what the wallet says is.
LEMMA CommittedIsCommitted ==
  ASSUME BudgetInv, NEW w \in Wallets
  PROVE  Promise!Committed(w) = Committed(wallet[w])
<1> DEFINE held == UNION {{r} \X (1..Spend[r].estimate) : r \in Promise!At(w, "Held")}
           charged == UNION {{r} \X (1..Spend[r].charged) : r \in Promise!At(w, "Settled")}
<1>1. Promise!At(w, "Held") = HeldOn(w) /\ Promise!At(w, "Settled") = ChargedTo(w)
  BY DEF Promise!At, HeldOn, ChargedTo
<1>2. HeldOn(w) \subseteq Reservations /\ ChargedTo(w) \subseteq Reservations
  BY DEF HeldOn, ChargedTo
<1>3. \A r \in Reservations : Spend[r].estimate = Estimated[r] /\ Spend[r].charged = Charged[r]
  BY DEF Spend, Estimated, Charged
<1>4. held = Units(HeldOn(w), Estimated)
  BY <1>1, <1>2, <1>3 DEF Units
<1>5. charged = Units(ChargedTo(w), Charged)
  BY <1>1, <1>2, <1>3 DEF Units
<1>6. Promise!Committed(w) = Cardinality(held) + Cardinality(charged)
  BY SameCardinality DEF Promise!Committed, Spend
<1>7. /\ wallet[w].reserved = Cardinality(Units(HeldOn(w), Estimated))
      /\ wallet[w].used = Cardinality(Units(ChargedTo(w), Charged))
  BY DEF BudgetInv, MatchInv, WalletsMatchReservations
<1>8. wallet[w].reserved \in Int /\ wallet[w].used \in Int
  BY BudgetTypes DEF TypeInv, TypeOK, Wallet
<1> HIDE DEF held, charged
<1> QED
  BY <1>4, <1>5, <1>6, <1>7, <1>8 DEF Committed

LEMMA AdmitsAsPromised ==
  ASSUME BudgetInv, TypeInv', NEW s \in Sessions, Hold(s)
  PROVE  \E r \in Reservations, path \in Paths, e \in Estimates :
           \E levels \in SUBSET path : Promise!Admit(r, path, levels, e)
<1>1. /\ session[s].res \in Reservations /\ session[s].path \in Paths
      /\ session[s].amount \in Estimates /\ session[s].amount \in Nat
      /\ session[s].doing = "reserve" /\ reservation[session[s].res].state = "none"
      /\ ~Clashes(s) /\ session[s].todo = << >>
  BY Zenon, BudgetTypes DEF Hold, Ready, Is, BudgetInv, AsAsked, TypeInv, SessionWellFormed,
                     ResInv, ReservesAlone
<1>2. PICK r \in Reservations, path \in Paths, e \in Estimates :
        r = session[s].res /\ path = session[s].path /\ e = session[s].amount
  BY <1>1
<1>3. Written(s) \in SUBSET path
  BY <1>2 DEF Written
<1>4. PICK W \in SUBSET path : W = Written(s)
  BY <1>3
<1>5. Company \in W /\ path \in SUBSET Wallets
  BY <1>2, <1>4, CostAssumption DEF Written
<1>6. \A w \in Wallets : wallet[w] \in Wallet /\ wallet'[w] \in Wallet
  BY BudgetTypes DEF TypeInv, TypeOK
<1>7. ASSUME NEW w \in W
      PROVE  Promise!Committed(w) + e <= Promise!Ceiling(w)
  <2>1. Committed(wallet'[w]) <= Ceiling(wallet'[w].allowance)
    BY <1>4, BudgetTypes, HoldIsAffordable
  <2>2. wallet'[w] = [wallet[w] EXCEPT !.exists = TRUE, !.reserved = @ + e]
    BY <1>2, <1>4, <1>5 DEF Hold
  <2>3. /\ wallet'[w].used = wallet[w].used /\ wallet'[w].allowance = wallet[w].allowance
        /\ wallet'[w].reserved = wallet[w].reserved + e
    BY <1>5, <1>6, <2>2 DEF Wallet
  <2>4. Ceiling(wallet[w].allowance) = Promise!Ceiling(w)
    BY <1>5 DEF Ceiling, Promise!Ceiling
  <2>5. Promise!Committed(w) = Committed(wallet[w])
    BY <1>5, CommittedIsCommitted
  <2>6. wallet[w].used \in Int /\ wallet[w].reserved \in Int
    BY <1>5, <1>6 DEF Wallet
  <2>7. e \in Int
    BY <1>1, <1>2
  <2>8. Committed(wallet'[w]) = Committed(wallet[w]) + e
    BY <2>3, <2>6, <2>7 DEF Committed
  <2> QED
    BY <2>1, <2>3, <2>4, <2>5, <2>8
<1>8. ASSUME NEW w \in path \ W
      PROVE  Promise!Committed(w) = 0
  <2>1. w # Company /\ ~session[s].seen[w].exists /\ w \in Wallets
    BY <1>2, <1>4, <1>5 DEF Written
  <2>2. PassesOver(session[s])
    BY DEF BudgetInv
  <2>3. \A v : ~Listed(session[s].todo, v)
    BY <1>1 DEF Listed
  <2>4. session[s].seen[Company].exists \/ ~wallet[Company].exists
    BY <1>1, <1>5, <1>4, CostAssumption DEF Clashes
  <2>5. Committed(wallet[w]) = 0
    BY <1>1, <1>2, <2>1, <2>2, <2>3, <2>4 DEF PassesOver
  <2> QED
    BY <2>1, <2>5, CommittedIsCommitted
<1>9. reservation' = [reservation EXCEPT ![r] =
        [NotReserved EXCEPT !.state = "Held", !.estimate = e, !.holds = W]]
  BY <1>2, <1>4 DEF Hold
<1>10. /\ reservation'[r].state = "Held" /\ reservation'[r].holds = W
       /\ reservation'[r].estimate = e /\ reservation'[r].settled = 0
       /\ \A q \in Reservations \ {r} : reservation'[q] = reservation[q]
  BY <1>1, <1>9, BudgetTypes DEF NotReserved, TypeInv, TypeOK
<1>11. Allowance' = Allowance
  BY <1>6 DEF Hold, Allowance, Wallet
<1>12. Spend' = [Spend EXCEPT ![r] =
         [Promise!NotAsked EXCEPT !.state = "Held", !.levels = W, !.estimate = e]]
  BY <1>10 DEF Spend, Promise!NotAsked
<1>13. Promise!Admit(r, path, W, e)
  BY <1>1, <1>2, <1>5, <1>7, <1>8, <1>11, <1>12 DEF Promise!Admit, Spend, Allowance
<1> QED
  BY <1>13

LEMMA ClosesAsPromised ==
  ASSUME BudgetInv, TypeInv', NEW s \in Sessions, Settle(s) \/ Release(s)
  PROVE  \E r \in Reservations :
           \/ \E actual \in Actuals : Promise!Charge(r, actual)
           \/ \E how \in {"Released", "Expired"} : Promise!GiveBack(r, how)
<1>1. session[s].res \in Reservations
  BY Zenon, BudgetTypes DEF Settle, Release, Ready, Is, TypeInv, SessionWellFormed, Closing
<1>2. PICK r \in Reservations : r = session[s].res
  BY <1>1
<1>3. /\ reservation[r].state = "Held"
      /\ \A q \in Reservations : reservation[q] \in Reservation
      /\ \A w \in Wallets : wallet[w] \in Wallet
  BY Zenon, <1>2, BudgetTypes DEF Settle, Release, Ready, Is, ResInv, ClosesWhatIsHeld, TypeInv, TypeOK,
                     SessionWellFormed, Closing
<1>4. Allowance' = Allowance
  <2>1. CASE Settle(s)
    BY Zenon, <1>3, <2>1 DEF Settle, Allowance, Wallet
  <2>2. CASE Release(s)
    BY <1>3, <2>2 DEF Release, Allowance, Wallet
  <2> QED
    BY <2>1, <2>2
<1>5. CASE Settle(s)
  <2>1. PICK actual \in Actuals : actual = session[s].amount
    BY Zenon, <1>5 DEF Settle, Ready, Is, BudgetInv, AsAsked
  <2>2. /\ reservation'[r].state = "Settled" /\ reservation'[r].holds = reservation[r].holds
        /\ reservation'[r].estimate = reservation[r].estimate /\ reservation'[r].settled = actual
        /\ \A q \in Reservations \ {r} : reservation'[q] = reservation[q]
    BY Zenon, <1>2, <1>3, <1>5, <2>1, BudgetTypes DEF Settle, Reservation, TypeInv, TypeOK
  <2>3. Spend' = [Spend EXCEPT ![r].state = "Settled", ![r].charged = actual]
    BY <1>3, <2>2 DEF Spend
  <2>4. Promise!Charge(r, actual)
    BY <1>3, <1>4, <2>3 DEF Promise!Charge, Spend, Allowance
  <2> QED
    BY <2>4
<1>6. CASE Release(s)
  <2>1. PICK how \in {"Released", "Expired"} :
          how = IF Is(s, "expire") THEN "Expired" ELSE "Released"
    OBVIOUS
  <2>2. /\ reservation'[r].state = how /\ reservation'[r].holds = reservation[r].holds
        /\ reservation'[r].estimate = reservation[r].estimate
        /\ reservation'[r].settled = reservation[r].settled
        /\ \A q \in Reservations \ {r} : reservation'[q] = reservation[q]
    BY Zenon, <1>2, <1>3, <1>6, <2>1, BudgetTypes DEF Release, Reservation, TypeInv, TypeOK
  <2>3. Spend' = [Spend EXCEPT ![r].state = how]
    BY <1>3, <2>2 DEF Spend
  <2>4. Promise!GiveBack(r, how)
    BY <1>3, <1>4, <2>3 DEF Promise!GiveBack, Spend, Allowance
  <2> QED
    BY <2>4
<1> QED
  BY <1>5, <1>6

LEMMA AllowsAsPromised ==
  ASSUME BudgetInv, TypeInv', SameMoney, \A r \in Reservations : SameSpend(r)
  PROVE  \E w \in Wallets : Promise!Allow(w)
<1>1. PICK w \in Wallets : \A v \in Wallets \ {w} : wallet'[v].allowance = wallet[v].allowance
  BY DEF SameMoney
<1>2. Spend' = Spend
  BY DEF Spend, SameSpend
<1>3. Allowance' = [Allowance EXCEPT ![w] = Allowance'[w]]
  BY <1>1 DEF Allowance
<1>4. Allowance'[w] \in Nat
  BY DEF Allowance, TypeInv, TypeOK, Wallet
<1>5. Promise!Allow(w)
  BY <1>2, <1>3, <1>4 DEF Promise!Allow, Spend, Allowance
<1> QED
  BY <1>5

LEMMA StepsAsPromised == BudgetInv /\ TypeInv' /\ [Next]_vars => Promise!Next
<1> SUFFICES ASSUME BudgetInv, TypeInv', [Next]_vars PROVE Promise!Next
  OBVIOUS
<1>1. ASSUME NEW s \in Sessions, Moves(s) PROVE Promise!Next
  <2>1. CASE Hold(s)
    BY <2>1, AdmitsAsPromised DEF Promise!Next
  <2>2. CASE Settle(s) \/ Release(s)
    BY <2>2, ClosesAsPromised DEF Promise!Next
  <2> QED
    BY <1>1, <2>1, <2>2 DEF Moves
<1>2. CASE \A s \in Sessions : ~Moves(s)
  <2>1. SameMoney /\ \A r \in Reservations : SameSpend(r)
    BY <1>2, BudgetTypes, OtherStepsMoveNoMoney
  <2> QED
    BY <2>1, AllowsAsPromised DEF Promise!Next
<1> QED
  BY <1>1, <1>2

\* The cost engine keeps its promise: however many transactions reserve, settle, release,
\* sweep, set, adjust and renew at once, waiting for one another's locks, finding levels
\* missing, crashing and trying again, the money moves as if they had come one at a time.
THEOREM BudgetIsKept == Spec => ImplementsBudget
<1>1. Init => Promise!Init
  <2> SUFFICES ASSUME Init PROVE Promise!Init
    OBVIOUS
  <2>1. Allowance = [w \in Wallets |-> 0] /\ Spend = [r \in Reservations |-> Promise!NotAsked]
    BY DEF Init, Allowance, Spend, NoWallet, NotReserved, Promise!NotAsked
  <2> QED
    BY <2>1 DEF Promise!Init, Allowance, Spend
<1>2. BudgetInv /\ BudgetInv' /\ [Next]_vars => Promise!Next
  <2>1. BudgetInv' => TypeInv'
    BY DEF BudgetInv, MatchInv, LockInv, ResInv
  <2> QED
    BY <2>1, StepsAsPromised
<1> QED
  BY <1>1, <1>2, BudgetInvAlways, PTL DEF Spec, ImplementsBudget, Promise!Spec

-----------------------------------------------------------------------------
(* What lapses.                                                            *)

\* No commit touches a row that somebody else has locked.
LEMMA LockedIsLeftAlone ==
  ASSUME LockInv, NEW s \in Sessions, NEW t \in Sessions \ {s}, NEW w \in session[t].held,
         Hold(s) \/ Refuse(s) \/ Settle(s) \/ Release(s) \/ Set(s) \/ Adjust(s) \/ Renew(s)
  PROVE  wallet'[w] = wallet[w] /\ renewal'[w] = renewal[w]
<1>1. /\ session[t].held \in SUBSET Wallets /\ session[s] \in Session /\ SessionLocks(session[s])
      /\ session[s].of \in Wallets
  BY LockTypes DEF LockInv, TypeInv, TypeOK, Session
<1>2. w \in Wallets /\ wallet[w].exists /\ wallet[w] \in Wallet
  <2>1. w \in Wallets
    BY <1>1
  <2> QED
    BY <2>1, MissingIsFree, LockTypes DEF TypeInv, TypeOK
<1>3. CASE Hold(s)
  <2>1. session[s].doing \notin Renewing /\ ~Clashes(s)
    BY <1>3 DEF Hold, Ready, Is, Renewing
  <2>2. w \notin Written(s)
    BY <2>1, WrittenIsMine
  <2> QED
    BY <1>2, <1>3, <2>2 DEF Hold
<1>4. CASE Refuse(s)
  BY <1>2, <1>4, LockTypes DEF Refuse, TypeInv, TypeOK, Wallet
<1>5. CASE Settle(s) \/ Release(s)
  <2>1. session[s].doing \in Closing /\ session[s].todo = << >>
    BY Zenon, <1>5 DEF Settle, Release, Ready, Is, Closing
  <2>2. w \notin reservation[session[s].res].holds
    BY <2>1, ClosingHasAll DEF LockInv, LocksExclude
  <2>3. CASE Settle(s)
    BY Zenon, <1>2, <2>2, <2>3 DEF Settle
  <2>4. CASE Release(s)
    BY Zenon, <1>2, <2>2, <2>4 DEF Release, ReleasedFrom
  <2> QED
    BY <1>5, <2>3, <2>4
<1>6. CASE Set(s) \/ Adjust(s)
  <2>1. session[s].doing \in {"set", "adjust"} /\ session[s].doing \notin Renewing /\ ~Clashes(s)
    BY Zenon, <1>6 DEF Set, Adjust, Ready, Is, Renewing, WriteAllowance
  <2>2. w \notin Written(s) /\ session[s].of \in Written(s)
    BY <1>1, <2>1, WrittenIsMine DEF SessionLocks, Written
  <2>3. PICK a : WriteAllowance(s, a)
    BY <1>6 DEF Set, Adjust
  <2>4. wallet'[w] = [wallet[w] EXCEPT !.exists = @ \/ w \in Written(s)]
    BY Zenon, <1>2, <2>2, <2>3 DEF WriteAllowance
  <2>5. wallet'[w] = wallet[w]
    BY <1>2, <2>4 DEF Wallet
  <2>6. renewal'[w] = renewal[w]
    BY <1>2, <1>6, <2>2, LockTypes DEF Set, Adjust, TypeInv, TypeOK
  <2> QED
    BY <2>5, <2>6
<1>7. CASE Renew(s)
  <2>1. session[s].held = {session[s].of}
    BY <1>1, <1>7 DEF Renew, Is, SessionLocks, LocksOne, Renewing
  <2>2. w # session[s].of
    BY <2>1 DEF LockInv, LocksExclude
  <2> QED
    BY <1>2, <1>7, <2>2, LockTypes DEF Renew, TypeInv, TypeOK
<1> QED
  BY <1>3, <1>4, <1>5, <1>6, <1>7

\* While a reset that is still due has worked out what is left of a wallet, and has no lock
\* yet, nothing of the wallet is freed: its allowance is not raised but by an allowance that
\* takes its boundary along, and no commitment is given back.
NothingIsFreed ==
  \A s \in Sessions :
    LET w == session[s].of
    IN  session[s].doing \in {"dueRead", "dueReread"} /\ StillDue(s) /\ renewal'[w] = renewal[w] =>
          /\ wallet'[w].allowance <= wallet[w].allowance
          /\ Committed(wallet'[w]) >= Committed(wallet[w])

\* The period that a reset read as due: whoever moves a boundary moves it on.
ReadADuePeriod(x) ==
  /\ x.at >= 1 /\ x.at <= now
  /\ renewal[x.of].at = 0 \/ renewal[x.of].at >= x.at

\* As long as the boundary is the one that was read, no more is left than was worked out.
LeavesNoMore(x) ==
  renewal[x.of].at = x.at =>
    /\ renewal[x.of].grant = x.amount
    /\ x.doing = "dueRead" => Remaining(wallet[x.of]) <= x.left
    /\ x.doing = "dueReread" => x.seen[x.of].allowance - Committed(wallet[x.of]) <= x.left

\* Under the lock, what is to be written leaves one period's grant at most.
LeavesOneGrant(x) ==
  /\ renewal[x.of].at >= 1 /\ renewal[x.of].at < x.at /\ renewal[x.of].grant = x.amount
  /\ x.seen[x.of].used = wallet[x.of].used /\ x.seen[x.of].reserved = wallet[x.of].reserved
  /\ Remaining(x.seen[x.of]) <= x.amount

SessionLapses(x) ==
  /\ x.doing \in {"dueRead", "dueReread"} => ReadADuePeriod(x) /\ LeavesNoMore(x)
  /\ x.doing = "renewing" => LeavesOneGrant(x)

LapseInv ==
  /\ LockInv /\ GrantsHaveAnEnd
  /\ \A s \in Sessions : SessionLapses(session[s])

LEMMA LapseTypes == LapseInv => LockInv /\ TypeInv
BY LockTypes DEF LapseInv

\* A session whose wallet was at most spent from, or whose boundary has moved on.
LEMMA OthersLapse ==
  ASSUME LapseInv, TypeInv', NothingIsFreed, now' >= now,
         NEW t \in Sessions, session'[t] = session[t],
         \/ renewal'[session[t].of] = renewal[session[t].of]
         \/ /\ session[t].doing # "renewing"
            /\ \/ renewal'[session[t].of].at = 0
               \/ session[t].doing \in Renewing => renewal'[session[t].of].at > session[t].at,
         session[t].doing = "renewing" =>
           /\ wallet'[session[t].of].used = wallet[session[t].of].used
           /\ wallet'[session[t].of].reserved = wallet[session[t].of].reserved
  PROVE  SessionLapses(session[t])'
<1> DEFINE y == session[t]
           w == y.of
<1>1. /\ y \in Session /\ w \in Wallets /\ y.at \in Nat /\ y.left \in Nat
      /\ y.seen[w] \in Wallet /\ SessionLapses(y)
  BY LapseTypes DEF LapseInv, TypeInv, TypeOK, Session
<1>2. /\ wallet[w] \in Wallet /\ wallet'[w] \in Wallet
      /\ renewal[w] \in Renewal /\ renewal'[w] \in Renewal
      /\ now \in Nat /\ now' \in Nat
  BY <1>1, LapseTypes, CostAssumption DEF TypeInv, TypeOK
<1>3. CASE y.doing \in {"dueRead", "dueReread"}
  <2>1. ReadADuePeriod(y) /\ LeavesNoMore(y) /\ y.doing \in Renewing
    BY <1>1, <1>3 DEF SessionLapses, Renewing
  <2>2. CASE renewal'[w] = renewal[w]
    <3>1. ReadADuePeriod(session[t])'
      BY <1>1, <1>2, <2>1, <2>2 DEF ReadADuePeriod
    <3>2. CASE renewal[w].at # y.at
      BY <1>3, <2>2, <3>1, <3>2 DEF SessionLapses, LeavesNoMore
    <3>3. CASE renewal[w].at = y.at
      <4>1. /\ wallet'[w].allowance <= wallet[w].allowance
            /\ Committed(wallet'[w]) >= Committed(wallet[w])
        BY <1>3, <2>2, <3>3 DEF NothingIsFreed, StillDue
      <4>2. Committed(wallet'[w]) \in Nat /\ Committed(wallet[w]) \in Nat
        BY <1>2, WalletFields DEF Committed
      <4>3. Remaining(wallet'[w]) <= Remaining(wallet[w])
        BY <1>2, <4>1, <4>2, WalletFields DEF Remaining
      <4>4. y.seen[w].allowance - Committed(wallet'[w]) <= y.seen[w].allowance - Committed(wallet[w])
        BY <1>1, <4>1, <4>2, WalletFields
      <4>5. Remaining(wallet'[w]) \in Int /\ Remaining(wallet[w]) \in Int
            /\ y.seen[w].allowance - Committed(wallet'[w]) \in Int
            /\ y.seen[w].allowance - Committed(wallet[w]) \in Int
        BY <1>1, <1>2, <4>2, WalletFields DEF Remaining
      <4> DEFINE r0 == Remaining(wallet[w])
                 r1 == Remaining(wallet'[w])
                 d0 == y.seen[w].allowance - Committed(wallet[w])
                 d1 == y.seen[w].allowance - Committed(wallet'[w])
      <4>6. /\ r1 <= r0 /\ d1 <= d0 /\ r0 \in Int /\ r1 \in Int /\ d0 \in Int /\ d1 \in Int
            /\ renewal[w].at = y.at => /\ renewal[w].grant = y.amount
                                       /\ y.doing = "dueRead" => r0 <= y.left
                                       /\ y.doing = "dueReread" => d0 <= y.left
        BY <2>1, <4>3, <4>4, <4>5 DEF LeavesNoMore
      <4> HIDE DEF r0, r1, d0, d1
      <4>7. renewal'[w].at = y.at => /\ renewal'[w].grant = y.amount
                                     /\ y.doing = "dueRead" => r1 <= y.left
                                     /\ y.doing = "dueReread" => d1 <= y.left
        BY <1>1, <2>2, <4>6
      <4>8. LeavesNoMore(session[t])'
        BY <4>7 DEF LeavesNoMore, r1, d1, Remaining, Committed
      <4> QED
        BY <1>3, <3>1, <4>8 DEF SessionLapses
    <3> QED
      BY <3>2, <3>3
  <2>3. CASE renewal'[w] # renewal[w]
    <3>1. renewal'[w].at = 0 \/ renewal'[w].at > y.at
      BY <2>1, <2>3
    <3>2. y.at >= 1 /\ y.at <= now /\ renewal'[w].at \in Nat
      BY <1>2, <2>1 DEF ReadADuePeriod, Renewal
    <3>3. /\ renewal'[w].at # y.at /\ y.at <= now'
          /\ renewal'[w].at = 0 \/ renewal'[w].at >= y.at
      BY <1>1, <1>2, <3>1, <3>2
    <3>4. ReadADuePeriod(session[t])' /\ LeavesNoMore(session[t])'
      BY <3>2, <3>3 DEF ReadADuePeriod, LeavesNoMore
    <3> QED
      BY <1>3, <3>4 DEF SessionLapses
  <2> QED
    BY <2>2, <2>3
<1>4. CASE y.doing = "renewing"
  <2>1. renewal'[w] = renewal[w] /\ LeavesOneGrant(y)
    BY <1>1, <1>4 DEF SessionLapses
  <2>2. LeavesOneGrant(session[t])'
    BY <1>4, <2>1 DEF LeavesOneGrant, Remaining, Committed
  <2> QED
    BY <1>4, <2>2 DEF SessionLapses
<1>5. CASE y.doing \notin Renewing
  BY <1>5 DEF SessionLapses, Renewing
<1> QED
  BY <1>3, <1>4, <1>5 DEF Renewing

\* A step that moves no boundary, after which one session is another.
LEMMA LapsesAlone ==
  ASSUME LapseInv, LockInv', NothingIsFreed, NEW s \in Sessions,
         renewal' = renewal, now' = now, \A t \in Sessions \ {s} : session'[t] = session[t],
         \A t \in Sessions \ {s} : session[t].doing = "renewing" =>
           /\ wallet'[session[t].of].used = wallet[session[t].of].used
           /\ wallet'[session[t].of].reserved = wallet[session[t].of].reserved,
         SessionLapses(session[s])'
  PROVE  LapseInv'
<1>1. GrantsHaveAnEnd'
  BY DEF LapseInv, GrantsHaveAnEnd
<1>2. TypeInv' /\ now' >= now
  <2>1. now \in Nat
    BY LapseTypes, CostAssumption DEF TypeInv, TypeOK
  <2> QED
    BY <2>1 DEF LockInv, ResInv
<1>3. ASSUME NEW t \in Sessions \ {s} PROVE SessionLapses(session[t])'
  BY <1>2, OthersLapse
<1> QED
  BY <1>1, <1>3 DEF LapseInv

\* A wallet that somebody renews is locked by them.
LEMMA RenewingIsLocked ==
  ASSUME LockInv, NEW t \in Sessions, session[t].doing = "renewing"
  PROVE  session[t].of \in session[t].held
BY DEF LockInv, SessionLocks, LocksOne, Renewing

\* A session that renews nothing.
LEMMA NothingLapses ==
  ASSUME NEW s \in Sessions, session'[s].doing \notin Renewing
  PROVE  SessionLapses(session[s])'
BY DEF SessionLapses, Renewing

\* The steps that write no wallet and have nothing to do with a renewal.
LEMMA QuietSessions ==
  ASSUME LockInv, NEW s \in Sessions,
         \/ \E r, path, e : BeginReserve(s, r, path, e)
         \/ \E how \in Closing : \E r, actual, rest : BeginClose(s, r, how, actual, rest)
         \/ BeginSweep(s)
         \/ \E w, a, recurs : BeginSet(s, w, a, recurs)
         \/ \E w, delta : BeginAdjust(s, w, delta)
         \/ LockNext(s)
         \/ Ends(s) /\ UNCHANGED << wallet, renewal, now >>
  PROVE  /\ UNCHANGED << wallet, renewal, now >> /\ session'[s].doing \notin Renewing
         /\ \A t \in Sessions \ {s} : session'[t] = session[t]
<1> DEFINE Quiet == /\ UNCHANGED << wallet, renewal, now >> /\ session'[s].doing \notin Renewing
                    /\ \A t \in Sessions \ {s} : session'[t] = session[t]
<1> SUFFICES Quiet
  OBVIOUS
<1>1. ASSUME NEW x, session' = [session EXCEPT ![s] = x], x.doing \notin Renewing,
             UNCHANGED << wallet, renewal, now >>
      PROVE  Quiet
  <2>1. session'[s] = x /\ \A t \in Sessions \ {s} : session'[t] = session[t]
    BY <1>1, SessionIs, LockTypes
  <2> QED
    BY <1>1, <2>1
<1> HIDE DEF Quiet
<1>2. ASSUME NEW r, NEW path, NEW e, BeginReserve(s, r, path, e) PROVE Quiet
  <2> DEFINE x(order) == [IdleSession EXCEPT !.doing = "reserve", !.res = r, !.path = path,
                                             !.todo = order, !.amount = e]
  <2>1. PICK order : session' = [session EXCEPT ![s] = x(order)]
    BY <1>2 DEF BeginReserve
  <2>2. x(order).doing = "reserve"
    BY DEF IdleSession
  <2> HIDE DEF x
  <2> QED
    BY <1>1, <1>2, <2>1, <2>2 DEF BeginReserve, Renewing
<1>3. ASSUME NEW r, NEW how \in Closing, NEW actual, NEW rest, BeginClose(s, r, how, actual, rest)
      PROVE  Quiet
  <2> DEFINE x(order) == [IdleSession EXCEPT !.doing = how, !.res = r, !.path = reservation[r].holds,
                                             !.todo = order, !.amount = actual, !.rest = rest]
  <2>1. PICK order : session' = [session EXCEPT ![s] = x(order)]
    BY <1>3 DEF BeginClose
  <2>2. x(order).doing = how
    BY DEF IdleSession
  <2> HIDE DEF x
  <2> QED
    BY <1>1, <1>3, <2>1, <2>2 DEF BeginClose, Renewing, Closing
<1>4. CASE BeginSweep(s)
  <2> DEFINE x(rest) == [IdleSession EXCEPT !.doing = "sweep", !.rest = rest]
  <2>1. PICK rest : session' = [session EXCEPT ![s] = x(rest)]
    BY Zenon, <1>4 DEF BeginSweep
  <2>2. x(rest).doing = "sweep"
    BY DEF IdleSession
  <2> HIDE DEF x
  <2> QED
    BY Zenon, <1>1, <1>4, <2>1, <2>2 DEF BeginSweep, Renewing
<1>5. ASSUME NEW doing \in {"set", "adjust"}, NEW path, NEW w, NEW a, NEW recurs,
             BeginChange(s, doing, path, w, a, recurs)
      PROVE  Quiet
  <2> DEFINE x(order) == [IdleSession EXCEPT !.doing = doing, !.path = path, !.of = w, !.todo = order,
                                             !.amount = a, !.recurs = recurs]
  <2>1. PICK order : session' = [session EXCEPT ![s] = x(order)]
    BY <1>5 DEF BeginChange
  <2>2. x(order).doing = doing
    BY DEF IdleSession
  <2> HIDE DEF x
  <2> QED
    BY <1>1, <1>5, <2>1, <2>2 DEF BeginChange, Renewing
<1>6. ASSUME NEW w, NEW a, NEW recurs, BeginSet(s, w, a, recurs) PROVE Quiet
  BY <1>5, <1>6 DEF BeginSet
<1>7. ASSUME NEW w, NEW delta, BeginAdjust(s, w, delta) PROVE Quiet
  BY <1>5, <1>7 DEF BeginAdjust
<1>8. CASE LockNext(s)
  <2>1. session[s] \in Session /\ SessionLocks(session[s])
    BY LockTypes DEF LockInv, TypeInv, TypeOK
  <2>2. session[s].doing \notin Renewing
    BY <1>8, <2>1 DEF LockNext, SessionLocks, LocksOne
  <2>3. session'[s].doing = session[s].doing /\ \A t \in Sessions \ {s} : session'[t] = session[t]
    BY <1>8, <2>1, LockTypes DEF LockNext, Session, TypeInv, TypeOK
  <2> QED
    BY <1>8, <2>1, <2>2, <2>3 DEF LockNext, Quiet
<1>9. CASE Ends(s) /\ UNCHANGED << wallet, renewal, now >>
  BY <1>1, <1>9, IdleHoldsNothing DEF Ends
<1> QED
  BY <1>2, <1>3, <1>4, <1>6, <1>7, <1>8, <1>9

LEMMA QuietLapses ==
  ASSUME LapseInv, LockInv', NothingIsFreed, NEW s \in Sessions,
         /\ UNCHANGED << wallet, renewal, now >> /\ session'[s].doing \notin Renewing
         /\ \A t \in Sessions \ {s} : session'[t] = session[t]
  PROVE  LapseInv'
<1>1. SessionLapses(session[s])'
  BY NothingLapses
<1> QED
  BY <1>1, LapsesAlone

LEMMA SpendingLapses ==
  ASSUME LapseInv, LockInv', NothingIsFreed, NEW s \in Sessions,
         Hold(s) \/ Refuse(s) \/ Settle(s) \/ Release(s) \/ Adjust(s)
  PROVE  LapseInv'
<1>1. session'[s].doing \notin Renewing /\ \A t \in Sessions \ {s} : session'[t] = session[t]
  <2>1. CASE Release(s)
    <3> DEFINE x == [IdleSession EXCEPT !.rest = session[s].rest,
                                        !.doing = IF session[s].rest = {} THEN "idle" ELSE "sweep"]
    <3>1. session' = [session EXCEPT ![s] = x]
      BY <2>1 DEF Release
    <3>2. x.doing \in {"idle", "sweep"}
      BY DEF IdleSession
    <3> HIDE DEF x
    <3>3. session'[s] = x /\ \A t \in Sessions \ {s} : session'[t] = session[t]
      BY <3>1, SessionIs, LapseTypes
    <3> QED
      BY <3>2, <3>3 DEF Renewing
  <2>2. CASE Ends(s)
    BY <2>2, SessionIs, LapseTypes, IdleHoldsNothing DEF Ends, Renewing
  <2> QED
    BY Zenon, <2>1, <2>2 DEF Hold, Refuse, Settle, Adjust, WriteAllowance
<1>2. SessionLapses(session[s])'
  BY <1>1, NothingLapses
<1>3. renewal' = renewal /\ now' = now
  BY Zenon DEF Hold, Refuse, Settle, Release, Adjust, WriteAllowance
<1>4. \A t \in Sessions \ {s} : session[t].doing = "renewing" => wallet'[session[t].of] = wallet[session[t].of]
  BY LapseTypes, RenewingIsLocked, LockedIsLeftAlone
<1> QED
  BY <1>1, <1>2, <1>3, <1>4, LapsesAlone

LEMMA BeginResetLapses ==
  ASSUME LapseInv, LockInv', NothingIsFreed, NEW s \in Sessions, NEW w \in Wallets, BeginReset(s, w)
  PROVE  LapseInv'
<1> DEFINE x == [IdleSession EXCEPT !.doing = "dueRead", !.of = w, !.amount = renewal[w].grant,
                   !.left = LeftOver(wallet[w]), !.at = renewal[w].at, !.until = now]
<1>1. session' = [session EXCEPT ![s] = x]
  BY DEF BeginReset
<1>2. /\ x.doing = "dueRead" /\ x.of = w /\ x.left = LeftOver(wallet[w]) /\ x.at = renewal[w].at
      /\ x.amount = renewal[w].grant
  BY DEF IdleSession
<1> HIDE DEF x
<1>3. session'[s] = x /\ \A t \in Sessions \ {s} : session'[t] = session[t]
  BY <1>1, SessionIs, LapseTypes
<1>4. /\ UNCHANGED << wallet, renewal, now >> /\ renewal[w].at >= 1 /\ renewal[w].at <= now
      /\ wallet[w] \in Wallet /\ renewal[w].at \in Nat
  BY LapseTypes DEF BeginReset, LapseInv, GrantsHaveAnEnd, TypeInv, TypeOK, Renewal
<1>5. Remaining(wallet[w]) <= LeftOver(wallet[w])
  BY <1>4, WalletFields DEF LeftOver, Remaining, Committed
<1>6. SessionLapses(session[s])'
  <2>1. ReadADuePeriod(session[s])'
    BY <1>2, <1>3, <1>4 DEF ReadADuePeriod
  <2>2. LeavesNoMore(session[s])'
    BY <1>2, <1>3, <1>4, <1>5 DEF LeavesNoMore, Remaining, Committed
  <2> QED
    BY <1>2, <1>3, <2>1, <2>2 DEF SessionLapses
<1> QED
  BY <1>3, <1>4, <1>6, LapsesAlone

LEMMA ReadToResetLapses ==
  ASSUME LapseInv, LockInv', NothingIsFreed, NEW s \in Sessions, ReadToReset(s)
  PROVE  LapseInv'
<1> DEFINE y == session[s]
           w == y.of
           x == session'[s]
<1>1. y \in Session /\ y.doing = "dueRead" /\ w \in Wallets /\ ReadADuePeriod(y) /\ LeavesNoMore(y)
  BY LapseTypes DEF ReadToReset, Is, LapseInv, SessionLapses, TypeInv, TypeOK, Session
<1>2. /\ x.doing = "dueReread" /\ x.of = w /\ x.at = y.at /\ x.left = y.left /\ x.amount = y.amount
      /\ x.seen[w] = wallet[w]
      /\ \A t \in Sessions \ {s} : session'[t] = session[t]
      /\ UNCHANGED << wallet, renewal, now >>
  BY <1>1, LapseTypes DEF ReadToReset, TypeInv, TypeOK, Session
<1>3. ReadADuePeriod(session[s])'
  BY <1>1, <1>2 DEF ReadADuePeriod
<1>4. LeavesNoMore(session[s])'
  BY <1>1, <1>2 DEF LeavesNoMore, Remaining, Committed
<1>5. SessionLapses(session[s])'
  BY <1>2, <1>3, <1>4 DEF SessionLapses
<1> QED
  BY <1>2, <1>5, LapsesAlone

LEMMA RemainingIs ==
  ASSUME NEW v, NEW a, NEW u, NEW r, v.allowance = a, v.used = u, v.reserved = r
  PROVE  Remaining(v) = a - (u + r)
BY DEF Remaining, Committed

LEMMA GrantPlusNothing ==
  ASSUME NEW a \in Nat, NEW l \in Nat, NEW u \in Nat, NEW r \in Nat, NEW g \in Nat,
         a - (u + r) <= l
  PROVE  (Lapsed(a, l) + g) - (u + r) <= g
BY DEF Lapsed

LEMMA FirstPeriodLapses ==
  ASSUME LapseInv, LockInv', NothingIsFreed, NEW s \in Sessions, FirstPeriod(s)
  PROVE  LapseInv'
<1> DEFINE y == session[s]
           w == y.of
           x == session'[s]
<1>1. /\ y \in Session /\ y.doing = "dueReread" /\ w \in Wallets /\ SessionLapses(y)
      /\ y.seen[w] \in Wallet /\ wallet[w] \in Wallet
      /\ y.amount \in Nat /\ y.left \in Nat /\ y.at \in Nat
  BY LapseTypes, RenewingFields DEF FirstPeriod, Is, LapseInv, TypeInv, TypeOK, Renewing
<1>2. ReadADuePeriod(y) /\ LeavesNoMore(y) /\ renewal[w].at = y.at
  BY <1>1 DEF SessionLapses, FirstPeriod, StillDue
<1>3. /\ renewal[w].grant = y.amount /\ y.at >= 1
      /\ y.seen[w].allowance - Committed(wallet[w]) <= y.left
  BY <1>1, <1>2 DEF LeavesNoMore, ReadADuePeriod
<1>4. /\ x.doing = "renewing" /\ x.of = w /\ x.at = y.at + 1 /\ x.amount = y.amount
      /\ x.seen[w] = [wallet[w] EXCEPT !.allowance = Lapsed(y.seen[w].allowance, y.left) + y.amount]
      /\ \A t \in Sessions \ {s} : session'[t] = session[t]
      /\ UNCHANGED << wallet, renewal, now >>
  BY Zenon, LapseTypes, FirstPeriodSession DEF FirstPeriod
<1>5. /\ x.seen[w].allowance = Lapsed(y.seen[w].allowance, y.left) + y.amount
      /\ x.seen[w].used = wallet[w].used /\ x.seen[w].reserved = wallet[w].reserved
  BY <1>1, <1>4 DEF Wallet
<1>6. (Lapsed(y.seen[w].allowance, y.left) + y.amount) - (wallet[w].used + wallet[w].reserved)
        <= y.amount
  <2>1. y.seen[w].allowance \in Nat /\ wallet[w].used \in Nat /\ wallet[w].reserved \in Nat
    BY <1>1, WalletFields
  <2>2. y.seen[w].allowance - (wallet[w].used + wallet[w].reserved) <= y.left
    BY <1>3 DEF Committed
  <2> QED
    BY <1>1, <2>1, <2>2, GrantPlusNothing
<1>7. Remaining(x.seen[w]) <= x.amount
  <2> DEFINE l == Lapsed(y.seen[w].allowance, y.left)
  <2>1. Remaining(x.seen[w]) = (l + y.amount) - (wallet[w].used + wallet[w].reserved)
    BY <1>5, RemainingIs
  <2>2. (l + y.amount) - (wallet[w].used + wallet[w].reserved) <= y.amount
    BY <1>6
  <2>3. l \in Int /\ wallet[w].used \in Int /\ wallet[w].reserved \in Int /\ y.amount \in Int
    <3>1. l \in Int
      BY <1>1, WalletFields DEF Lapsed
    <3> QED
      BY <1>1, <3>1, WalletFields
  <2> HIDE DEF l
  <2>4. Remaining(x.seen[w]) <= y.amount
    BY <2>1, <2>2, <2>3
  <2>5. x.amount = y.amount
    BY <1>4
  <2> QED
    BY <2>4, <2>5
<1>8. LeavesOneGrant(session[s])'
  BY <1>1, <1>2, <1>3, <1>4, <1>5, <1>7 DEF LeavesOneGrant, Remaining, Committed
<1>9. SessionLapses(session[s])'
  BY <1>4, <1>8 DEF SessionLapses
<1> QED
  BY <1>4, <1>9, LapsesAlone

LEMMA NextPeriodLapses ==
  ASSUME LapseInv, LockInv', NothingIsFreed, NEW s \in Sessions, NextPeriod(s)
  PROVE  LapseInv'
<1> DEFINE y == session[s]
           w == y.of
           x == session'[s]
           moved == y.amount - LeftOver(y.seen[w])
<1>1. /\ y \in Session /\ y.doing = "renewing" /\ w \in Wallets /\ SessionLapses(y)
      /\ y.seen[w] \in Wallet /\ wallet[w] \in Wallet /\ renewal[w].at \in Nat
      /\ y.amount \in Nat /\ y.at \in Nat
  BY LapseTypes, RenewingFields DEF NextPeriod, Is, LapseInv, TypeInv, TypeOK, Renewal, Renewing
<1>2. LeavesOneGrant(y)
  BY <1>1 DEF SessionLapses
<1>3. /\ x.doing = "renewing" /\ x.of = w /\ x.at = y.at + 1 /\ x.amount = y.amount
      /\ x.seen[w] = [y.seen[w] EXCEPT !.allowance = @ + moved]
      /\ \A t \in Sessions \ {s} : session'[t] = session[t]
      /\ UNCHANGED << wallet, renewal, now >>
  BY <1>1, LapseTypes DEF NextPeriod, TypeInv, TypeOK, Session
<1>4. moved \in Int /\ Remaining(y.seen[w]) + moved <= y.amount /\ Remaining(y.seen[w]) \in Int
  BY <1>1, WalletFields DEF LeftOver, Remaining, Committed
<1> HIDE DEF moved
<1>5. /\ x.seen[w].allowance = y.seen[w].allowance + moved
      /\ x.seen[w].used = y.seen[w].used /\ x.seen[w].reserved = y.seen[w].reserved
  BY <1>1, <1>3 DEF Wallet
<1>6. Remaining(x.seen[w]) = Remaining(y.seen[w]) + moved
  BY <1>1, <1>4, <1>5, WalletFields DEF Remaining, Committed
<1>7. LeavesOneGrant(session[s])'
  BY <1>1, <1>2, <1>3, <1>4, <1>5, <1>6 DEF LeavesOneGrant, Remaining, Committed
<1>8. SessionLapses(session[s])'
  BY <1>3, <1>7 DEF SessionLapses
<1> QED
  BY <1>3, <1>8, LapsesAlone

LEMMA RenewLapses ==
  ASSUME LapseInv, LockInv', NothingIsFreed, NEW s \in Sessions, Renew(s)
  PROVE  LapseInv'
<1> DEFINE y == session[s]
           w == y.of
<1>1. /\ y \in Session /\ y.doing = "renewing" /\ w \in Wallets /\ LeavesOneGrant(y)
      /\ renewal[w] \in Renewal /\ y.at \in Nat /\ SessionLocks(y)
  BY LapseTypes, RenewingFields
  DEF Renew, Is, LapseInv, SessionLapses, LockInv, TypeInv, TypeOK, Renewing
<1>2. y.held = {w}
  BY <1>1 DEF SessionLocks, LocksOne, Renewing
<1>3. /\ renewal'[w] = [renewal[w] EXCEPT !.at = y.at] /\ now' = now
      /\ \A v \in Wallets \ {w} : wallet'[v] = wallet[v] /\ renewal'[v] = renewal[v]
  BY <1>1, LapseTypes DEF Renew, TypeInv, TypeOK
<1>4. /\ renewal'[w].at = y.at /\ renewal[w].at \in Nat /\ y.at > renewal[w].at
      /\ renewal[w].at >= 1 /\ y.at >= 1
  BY <1>1, <1>3 DEF Renewal, LeavesOneGrant
<1>5. GrantsHaveAnEnd'
  BY <1>3, <1>4 DEF LapseInv, GrantsHaveAnEnd
<1>6. session'[s] = IdleSession /\ \A t \in Sessions \ {s} : session'[t] = session[t]
  BY SessionIs, LapseTypes DEF Renew, Ends
<1>7. SessionLapses(session[s])'
  BY <1>6, IdleHoldsNothing, NothingLapses DEF Renewing
<1>8. TypeInv' /\ now' >= now
  BY <1>3, LapseTypes, CostAssumption DEF TypeInv, TypeOK, LockInv, ResInv
<1>9. ASSUME NEW t \in Sessions \ {s} PROVE SessionLapses(session[t])'
  <2>1. session[t] \in Session /\ SessionLapses(session[t])
    BY LapseTypes DEF LapseInv, TypeInv, TypeOK
  <2>2. session[t].of \in Wallets /\ session[t].at \in Nat
    BY <2>1 DEF Session
  <2>3. CASE session[t].of # w
    BY <1>3, <1>6, <1>8, <2>2, <2>3, OthersLapse
  <2>4. CASE session[t].of = w
    <3>1. session[t].doing # "renewing"
      BY <1>2, <2>4, RenewingIsLocked, LapseTypes DEF LockInv, LocksExclude
    <3>2. session[t].doing \in Renewing => renewal[w].at >= session[t].at
      BY <1>4, <2>1, <2>4, <3>1 DEF SessionLapses, ReadADuePeriod, Renewing
    <3>3. session[t].doing \in Renewing => renewal'[w].at > session[t].at
      BY <1>1, <1>4, <2>2, <3>2
    <3> QED
      BY <1>6, <1>8, <2>4, <3>1, <3>3, OthersLapse
  <2> QED
    BY <2>3, <2>4
<1> QED
  BY <1>5, <1>7, <1>9 DEF LapseInv

LEMMA SetLapses ==
  ASSUME LapseInv, LockInv', NothingIsFreed, NEW s \in Sessions, Set(s)
  PROVE  LapseInv'
<1> DEFINE w == session[s].of
<1>1. w \in Wallets /\ now \in Nat
  BY LapseTypes, CostAssumption DEF TypeInv, TypeOK, Session
<1>2. /\ \A v \in Wallets \ {w} : renewal'[v] = renewal[v]
      /\ now' = now
      /\ (renewal'[w].at = 0 /\ renewal'[w].grant = 0) \/ renewal'[w].at = now + 1
  BY <1>1, LapseTypes DEF Set, WriteAllowance, TypeInv, TypeOK, NoRenewal
<1>3. GrantsHaveAnEnd'
  BY <1>1, <1>2 DEF LapseInv, GrantsHaveAnEnd
<1>4. session'[s] = IdleSession /\ \A t \in Sessions \ {s} : session'[t] = session[t]
  BY Zenon, SessionIs, LapseTypes DEF Set, WriteAllowance, Ends
<1>5. SessionLapses(session[s])'
  BY <1>4, IdleHoldsNothing, NothingLapses DEF Renewing
<1>6. TypeInv' /\ now' >= now
  BY <1>1, <1>2 DEF LockInv, ResInv
<1>7. ASSUME NEW t \in Sessions \ {s} PROVE SessionLapses(session[t])'
  <2>1. session[t] \in Session /\ SessionLapses(session[t])
    BY LapseTypes DEF LapseInv, TypeInv, TypeOK
  <2>2. session[t].of \in Wallets /\ session[t].at \in Nat
    BY <2>1 DEF Session
  <2>3. CASE session[t].doing = "renewing"
    <3>1. /\ wallet'[session[t].of] = wallet[session[t].of]
          /\ renewal'[session[t].of] = renewal[session[t].of]
      BY <2>3, LapseTypes, RenewingIsLocked, LockedIsLeftAlone
    <3> QED
      BY <1>4, <1>6, <3>1, OthersLapse
  <2>4. CASE session[t].doing # "renewing" /\ session[t].of # w
    BY <1>2, <1>4, <1>6, <2>2, <2>4, OthersLapse
  <2>5. CASE session[t].doing # "renewing" /\ session[t].of = w
    <3>1. session[t].doing \in Renewing => session[t].at <= now
      BY <2>1, <2>5 DEF SessionLapses, ReadADuePeriod, Renewing
    <3>2. renewal'[w].at = 0 \/ (session[t].doing \in Renewing => renewal'[w].at > session[t].at)
      BY <1>1, <1>2, <2>2, <3>1
    <3> QED
      BY <1>4, <1>6, <2>5, <3>2, OthersLapse
  <2> QED
    BY <2>3, <2>4, <2>5
<1> QED
  BY <1>3, <1>5, <1>7 DEF LapseInv

LEMMA LapseInvPreserved == LapseInv /\ [Next]_vars /\ NothingIsFreed => LapseInv'
<1> SUFFICES ASSUME LapseInv, [Next]_vars, NothingIsFreed PROVE LapseInv'
  OBVIOUS
<1>1. LockInv' /\ TypeInv' /\ LockInv /\ TypeInv
  BY LockInvPreserved, LapseTypes DEF LockInv, ResInv
<1>2. ASSUME NEW s \in Sessions, NEW r, NEW how \in Closing, NEW actual, NEW rest,
             BeginClose(s, r, how, actual, rest)
      PROVE  LapseInv'
  BY <1>1, <1>2, QuietSessions, QuietLapses
<1>3. ASSUME NEW s \in Sessions, Begin(s) PROVE LapseInv'
  <2>1. ASSUME NEW r, NEW actual, BeginSettle(s, r, actual) \/ BeginRelease(s, r) PROVE LapseInv'
    BY <1>2, <2>1 DEF BeginSettle, BeginRelease, Closing
  <2>2. ASSUME NEW r, NEW path, NEW e, BeginReserve(s, r, path, e) PROVE LapseInv'
    BY <1>1, <2>2, QuietSessions, QuietLapses
  <2>3. ASSUME NEW w, NEW a, NEW recurs, BeginSet(s, w, a, recurs) PROVE LapseInv'
    BY <1>1, <2>3, QuietSessions, QuietLapses
  <2>4. ASSUME NEW w, NEW delta, BeginAdjust(s, w, delta) PROVE LapseInv'
    BY <1>1, <2>4, QuietSessions, QuietLapses
  <2>5. CASE BeginSweep(s)
    BY <1>1, <2>5, QuietSessions, QuietLapses
  <2> QED
    BY <1>1, <1>3, <2>1, <2>2, <2>3, <2>4, <2>5, BeginResetLapses DEF Begin
<1>4. ASSUME NEW s \in Sessions, Ends(s), UNCHANGED << wallet, renewal, now >> PROVE LapseInv'
  BY <1>1, <1>4, QuietSessions, QuietLapses
<1>5. ASSUME NEW s \in Sessions, Proceed(s) PROVE LapseInv'
  <2>1. CASE ExpireNext(s)
    BY <1>2, <1>4, <2>1 DEF ExpireNext, Closing
  <2>2. CASE LockNext(s)
    BY <1>1, <2>2, QuietSessions, QuietLapses
  <2> QED
    BY <1>1, <1>5, <2>1, <2>2, SpendingLapses, SetLapses, ReadToResetLapses, FirstPeriodLapses,
       NextPeriodLapses, RenewLapses DEF Proceed
<1>6. ASSUME NEW s \in Sessions, Abort(s) PROVE LapseInv'
  BY <1>4, <1>6 DEF Abort
<1>7. CASE OpenCompanyWallet \/ PeriodEnds \/ UNCHANGED vars \/ \E r \in Reservations : GrowsOld(r)
  <2>1. session' = session /\ renewal' = renewal /\ now' >= now
    <3>1. now \in Int
      BY <1>1, CostAssumption DEF TypeInv, TypeOK
    <3> QED
      BY <1>7, <3>1 DEF OpenCompanyWallet, PeriodEnds, vars, GrowsOld
  <2>2. GrantsHaveAnEnd'
    BY <2>1 DEF LapseInv, GrantsHaveAnEnd
  <2>3. \A w \in Wallets : wallet[w].exists => wallet'[w] = wallet[w]
    BY <1>1, <1>7 DEF OpenCompanyWallet, PeriodEnds, vars, GrowsOld, TypeInv, TypeOK
  <2>4. ASSUME NEW t \in Sessions PROVE SessionLapses(session[t])'
    <3>1. session[t].of \in Wallets /\ SessionLocks(session[t])
      BY <1>1 DEF LockInv, TypeInv, TypeOK, Session
    <3>2. session[t].doing = "renewing" => wallet'[session[t].of] = wallet[session[t].of]
      BY <2>3, <3>1 DEF SessionLocks, LocksOne, Renewing
    <3> QED
      BY <1>1, <2>1, <3>2, OthersLapse
  <2> QED
    BY <1>1, <2>2, <2>4 DEF LapseInv
<1> QED
  BY <1>3, <1>5, <1>6, <1>7 DEF Next

LEMMA LapseInvInitially == Init => LapseInv
<1> SUFFICES ASSUME Init PROVE LapseInv
  OBVIOUS
<1>1. GrantsHaveAnEnd
  BY DEF Init, GrantsHaveAnEnd, NoRenewal
<1>2. \A s \in Sessions : SessionLapses(session[s])
  BY IdleHoldsNothing DEF Init, SessionLapses, Renewing
<1> QED
  BY <1>1, <1>2, LockInvInitially DEF LapseInv

\* What a step that moves a boundary on leaves.
LEMMA LapseStep ==
  ASSUME LapseInv, [Next]_vars, NEW w \in Wallets,
         renewal'[w].at > renewal[w].at, renewal'[w].grant = renewal[w].grant
  PROVE  Remaining(wallet'[w]) <= renewal'[w].grant
<1>1. TypeInv /\ LockInv /\ renewal[w].at \in Nat /\ wallet[w] \in Wallet /\ renewal \in [Wallets -> Renewal]
  BY LapseTypes DEF TypeInv, TypeOK, Renewal
<1>2. renewal' # renewal
  BY <1>1
<1>3. \E s \in Sessions : Set(s) \/ Renew(s)
  <2>1. ASSUME NEW s \in Sessions, Begin(s) PROVE renewal' = renewal
    BY Zenon, <2>1 DEF Begin, BeginReserve, BeginSettle, BeginRelease, BeginClose, BeginSweep, BeginSet,
                BeginAdjust, BeginChange, BeginReset
  <2>2. ASSUME NEW s \in Sessions, Proceed(s), ~Set(s), ~Renew(s) PROVE renewal' = renewal
    BY Zenon, <2>2 DEF Proceed, LockNext, Hold, Refuse, Settle, Release, ExpireNext, BeginClose, Adjust,
                WriteAllowance, ReadToReset, FirstPeriod, NextPeriod
  <2> QED
    BY <1>2, <2>1, <2>2 DEF Next, vars, Abort, OpenCompanyWallet, PeriodEnds, GrowsOld
<1>4. PICK s \in Sessions : Set(s) \/ Renew(s)
  BY <1>3
<1> DEFINE y == session[s]
<1>5. CASE Set(s)
  <2>1. y \in Session /\ y.doing = "set" /\ y.amount \in Nat
    BY <1>1, <1>5 DEF Set, Ready, Is, TypeInv, TypeOK, SessionWellFormed
  <2>2. y.of = w
    BY <1>1, <1>5 DEF Set
  <2>3. y.recurs
    BY <1>1, <1>5, <2>2 DEF Set, NoRenewal
  <2>4. renewal'[w].grant = y.amount
    BY <1>1, <1>5, <2>2, <2>3 DEF Set
  <2>5. wallet'[w] = [wallet[w] EXCEPT !.exists = TRUE, !.allowance = y.amount]
    BY Zenon, <1>5, <2>2 DEF Set, WriteAllowance
  <2>6. /\ wallet'[w].allowance = y.amount /\ wallet'[w].used = wallet[w].used
        /\ wallet'[w].reserved = wallet[w].reserved
    BY <1>1, <2>5 DEF Wallet
  <2> QED
    BY <1>1, <2>1, <2>4, <2>6, WalletFields DEF Remaining, Committed
<1>6. CASE Renew(s)
  <2>1. y.of = w
    BY <1>1, <1>6 DEF Renew
  <2>2. LeavesOneGrant(y)
    BY <1>6 DEF Renew, Is, LapseInv, SessionLapses
  <2>3. wallet'[w] = [wallet[w] EXCEPT !.allowance = y.seen[w].allowance]
    BY <1>1, <1>6, <2>1 DEF Renew, TypeInv, TypeOK
  <2>4. /\ wallet'[w].allowance = y.seen[w].allowance /\ wallet'[w].used = wallet[w].used
        /\ wallet'[w].reserved = wallet[w].reserved
    BY <1>1, <2>3 DEF Wallet
  <2> QED
    BY <2>1, <2>2, <2>4 DEF LeavesOneGrant, Remaining, Committed
<1> QED
  BY <1>4, <1>5, <1>6

\* Right after a reset nobody has more to spend than one period's grant, as long as nothing
\* of the wallet is freed between the read of what is left over and the lock.
THEOREM UnusedAllowanceLapses == Spec /\ [][NothingIsFreed]_vars => LapsesWhatWasLeft
<1>1. LapseInv /\ [Next]_vars /\ [NothingIsFreed]_vars => LapseInv'
  <2>1. UNCHANGED vars /\ LapseInv => NothingIsFreed
    <3> SUFFICES ASSUME UNCHANGED vars, LapseInv PROVE NothingIsFreed
      OBVIOUS
    <3>1. \A s \in Sessions : wallet[session[s].of] \in Wallet
      BY LapseTypes DEF TypeInv, TypeOK, Session
    <3> QED
      BY <3>1, WalletFields DEF vars, NothingIsFreed, Committed
  <2> QED
    BY <2>1, LapseInvPreserved
<1>2. LapseInv /\ [Next]_vars =>
        [\A w \in Wallets : (renewal'[w].at > renewal[w].at /\ renewal'[w].grant = renewal[w].grant)
                              => Remaining(wallet'[w]) <= renewal'[w].grant]_vars
  BY LapseStep
<1> QED
  BY <1>1, <1>2, LapseInvInitially, PTL DEF Spec, LapsesWhatWasLeft

=============================================================================
