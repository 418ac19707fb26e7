----------------------------- MODULE AccessProofs -----------------------------
(***************************************************************************)
(* Machine-checked proofs about Access, for any handlers, people, seats    *)
(* and seat-counting rule, and any number of invitations.                  *)
(***************************************************************************)
EXTENDS AccessProperties, WellFoundedInduction, FiniteSetTheorems, SequenceTheorems, TLAPS

(* Whose transaction writes the account over without reading it again.     *)
Overwrites(row) == row.op \in {"suspend", "reinstate"} \/ (row.op = "invite" /\ row.at = "looked")

(* Who holds the seat lock.                                                *)
Returns(row) == row.op = "reinstate" /\ row.at = "claimed"

(* Whose claim still stands: an invitation's until a claimed seat is       *)
(* taken, a reinstatement's until it is used, as it holds the lock.        *)
ClaimOf(row) ==
    \/ /\ row.op = "invite" /\ row.at \in {"claimed", "looked"}
       /\ ~row.unbacked /\ "InvitePending" \in Counted
    \/ Returns(row) /\ ~row.alreadyCounted /\ "Active" \in Counted

Rows == links \in Seq(Link) /\ \A h \in Handlers : tx[h].op # "none" => tx[h].who \in People

(* An activation follows a link of the person it is about; the one that    *)
(* has accepted it finds it as it accepted it.                             *)
LinksHeld ==
    /\ \A h \in Handlers : tx[h].op = "activate" =>
          tx[h].link \in DOMAIN links /\ links[tx[h].link].of = tx[h].who
    /\ \A h \in Handlers : tx[h].at = "locked" =>
          tx[h].op = "activate" /\ links[tx[h].link].state = "live"
    /\ \A g, h \in Handlers :
          tx[g].at = "locked" /\ tx[h].at = "locked" /\ tx[g].link = tx[h].link => g = h

UsedOnce ==
    /\ LinkIsUsedOnce
    /\ \A i \in 1 .. MaxLinks : i \notin DOMAIN links => activations[i] = 0

(* Whoever would write over somebody who has left is known to be late.     *)
LateAreKnown ==
    \A h \in Handlers : Overwrites(tx[h]) /\ account[tx[h].who] = "Offboarded" => tx[h].late

(* Whoever was dismissed has no link that works.                           *)
DismissedAreOut ==
    \A p \in dismissed :
        account[p] = "Offboarded" /\ \A i \in DOMAIN links : links[i].of = p => links[i].state # "live"

Seated == {p \in People : account[p] \in Counted}

(* A seat is free beside those taken without a claim.                      *)
SeatFree == Used < Ceiling + Cardinality(excused)

(* A claim that stands has its seat, and one reinstatement has the lock.   *)
ClaimsStand ==
    /\ \A h \in Handlers : ClaimOf(tx[h]) => SeatFree
    /\ \A g, h \in Handlers : Returns(tx[g]) /\ Returns(tx[h]) => g = h

Inv ==
    /\ TypeOK /\ Rows /\ LinksHeld /\ UsedOnce /\ LateAreKnown /\ DismissedAreOut
    /\ excused \subseteq Seated /\ SeatsWithinCeiling /\ ClaimsStand

LEMMA Sizes ==
    ASSUME NEW S, S \subseteq People
    PROVE  IsFiniteSet(S) /\ Cardinality(S) \in Nat
BY AccessAssumption, FS_Subset, FS_CardinalityType

(* Taking a person out of a set, and putting one in.                       *)
LEMMA OneLess ==
    ASSUME NEW S, S \subseteq People, NEW p
    PROVE  /\ p \in S => Cardinality(S \ {p}) = Cardinality(S) - 1
           /\ p \notin S => Cardinality(S \ {p}) = Cardinality(S)
           /\ Cardinality(S) \in Nat /\ Cardinality(S \ {p}) \in Nat
<1>1. IsFiniteSet(S) /\ Cardinality(S) \in Nat /\ Cardinality(S \ {p}) \in Nat
  BY Sizes
<1>2. p \in S => Cardinality(S \ {p}) = Cardinality(S) - 1
  BY <1>1, FS_RemoveElement
<1>3. p \notin S => S \ {p} = S
  OBVIOUS
<1> QED
  BY <1>1, <1>2, <1>3

LEMMA OneMore ==
    ASSUME NEW S, S \subseteq People, NEW p \in People, p \notin S
    PROVE  Cardinality(S \cup {p}) = Cardinality(S) + 1 /\ Cardinality(S) \in Nat
BY Sizes, FS_AddElement

LEMMA Rule ==
    /\ "NotInvited" \notin Counted /\ "Offboarded" \notin Counted
    /\ Ceiling \in Nat /\ MaxLinks \in Nat /\ NoOne \notin People
BY AccessAssumption DEF SeatCountingRules

LEMMA InitInv == Init => Inv
<1> SUFFICES ASSUME Init PROVE Inv
  OBVIOUS
<1> USE AccessAssumption DEF Init
<1>1. Idle \in Tx /\ Idle.op = "none" /\ Idle.at = "idle"
  BY DEF Idle, Tx
<1>2. TypeOK
  BY <1>1 DEF TypeOK, AccountStates
<1>3. Rows /\ LinksHeld /\ LateAreKnown /\ DismissedAreOut
  BY <1>1 DEF Rows, LinksHeld, LateAreKnown, DismissedAreOut, Overwrites
<1>4. UsedOnce
  BY DEF UsedOnce, LinkIsUsedOnce
<1>5. Used = 0 /\ excused \subseteq Seated
  <2>1. {p \in People : account[p] \in Counted} = {}
    BY Rule
  <2> QED
    BY <2>1, FS_EmptySet DEF Used
<1>6. SeatsWithinCeiling
  BY <1>5, Rule, FS_EmptySet DEF SeatsWithinCeiling
<1>7. ClaimsStand
  BY <1>1 DEF ClaimsStand, ClaimOf, Returns
<1> QED
  BY <1>2, <1>3, <1>4, <1>5, <1>6, <1>7 DEF Inv

(***************************************************************************)
(* A handler goes on, and no account and no link changes.                  *)
(***************************************************************************)
LEMMA HandlerGoes ==
    ASSUME Inv, NEW h \in Handlers, NEW row \in Tx, tx' = [tx EXCEPT ![h] = row],
           UNCHANGED <<account, links, activations, excused, dismissed>>,
           roles' \in [People -> {"none", "open", "untilLastDay"}],
           notice' \in [People -> {"none", "serving", "over"}],
           row.op # "none" => row.who \in People,
           row.op = "activate" => row.link \in DOMAIN links /\ links[row.link].of = row.who,
           row.at = "locked" => /\ row.op = "activate" /\ links[row.link].state = "live"
                                /\ LinkIsFree(row.link),
           Overwrites(row) /\ account[row.who] = "Offboarded" => row.late,
           ClaimOf(row) => SeatFree, Returns(row) => SeatLockIsFree
    PROVE  Inv'
<1>1. /\ \A g \in Handlers : tx'[g] = IF g = h THEN row ELSE tx[g]
      /\ tx' \in [Handlers -> Tx]
  BY DEF Inv, TypeOK
<1>2. TypeOK'
  BY <1>1 DEF Inv, TypeOK
<1>3. Rows'
  BY <1>1 DEF Inv, Rows
<1>4. LinksHeld'
  BY <1>1 DEF Inv, LinksHeld, LinkIsFree
<1>5. UsedOnce' /\ DismissedAreOut' /\ (excused \subseteq Seated)' /\ SeatsWithinCeiling'
  BY DEF Inv, UsedOnce, LinkIsUsedOnce, DismissedAreOut, Seated, SeatsWithinCeiling, Used
<1>6. LateAreKnown'
  BY <1>1 DEF Inv, LateAreKnown
<1>7. ClaimsStand'
  <2>1. SeatFree' <=> SeatFree
    BY DEF SeatFree, Used
  <2>2. \A g \in Handlers : ClaimOf(tx'[g]) => SeatFree
    BY <1>1 DEF Inv, ClaimsStand
  <2>3. \A g, f \in Handlers : Returns(tx'[g]) /\ Returns(tx'[f]) => g = f
    BY <1>1 DEF Inv, ClaimsStand, Returns, SeatLockIsFree
  <2> QED
    BY <2>1, <2>2, <2>3 DEF ClaimsStand, ClaimOf, Returns
<1> QED
  BY <1>2, <1>3, <1>4, <1>5, <1>6, <1>7 DEF Inv

(* A bounded set of numbers has a greatest.                                *)
LEMMA MaxIsIn ==
    ASSUME NEW n \in Nat, NEW S, S \subseteq 0 .. n, S # {}
    PROVE  Max(S) \in S
<1> DEFINE T == {n - x : x \in S}
           R == OpToRel(<, Nat)
<1>1. T \subseteq Nat /\ T # {}
  <2>1. \A x \in S : n - x \in Nat
    OBVIOUS
  <2>2. PICK x \in S : TRUE
    OBVIOUS
  <2>3. n - x \in T
    BY <2>2
  <2> QED
    BY <2>1, <2>3
<1>2. IsWellFoundedOn(R, Nat)
  BY NatLessThanWellFounded
<1> HIDE DEF T, R
<1>3. PICK m \in T : \A y \in T : <<y, m>> \notin R
  BY <1>1, <1>2, WFMin
<1>4. PICK x \in S : m = n - x
  BY DEF T
<1>5. \A y \in S : x >= y
  <2> SUFFICES ASSUME NEW y \in S, y > x PROVE FALSE
    OBVIOUS
  <2>1. n - y \in T /\ n - y \in Nat /\ m \in Nat /\ n - y < m
    BY <1>1, <1>4 DEF T
  <2>2. <<n - y, m>> \in R
    BY <2>1 DEF R, OpToRel
  <2> QED
    BY <1>3, <2>1, <2>2
<1> QED
  BY <1>5 DEF Max

LEMMA OutstandingTyped ==
    ASSUME Inv, NEW p
    PROVE  findOutstanding(p) \in 0 .. MaxLinks
<1>1. Len(links) \in Nat /\ DOMAIN links = 1 .. Len(links) /\ Len(links) <= MaxLinks
  BY LenProperties DEF Inv, Rows, TypeOK
<1>2. OutstandingOf(p) \subseteq 0 .. MaxLinks
  BY <1>1, Rule DEF OutstandingOf
<1>3. OutstandingOf(p) # {} => Max(OutstandingOf(p)) \in OutstandingOf(p)
  BY <1>2, Rule, MaxIsIn
<1> QED
  BY <1>2, <1>3, Rule DEF findOutstanding

LEMMA BeginInv ==
    ASSUME Inv, NEW h \in Handlers, NEW p \in People, NEW op \in {"invite", "suspend", "reinstate", "offboard", "assign"},
           Begin(h, p, op), UnchangedRows,
           op \in {"suspend", "reinstate"} => account[p] # "Offboarded"
    PROVE  Inv'
<1> DEFINE counted == NeedsSeat(op) /\ account[p] \in Counted
           row == [Idle EXCEPT !.op = op, !.at = "read", !.who = p, !.alreadyCounted = counted]
<1>0. counted \in BOOLEAN
  OBVIOUS
<1>1. /\ row \in Tx /\ row.op = op /\ row.at = "read" /\ row.who = p
  <2> HIDE DEF counted
  <2> DEFINE named == [Idle EXCEPT !.op = op, !.at = "read", !.who = p]
  <2>1. Idle \in Tx
    BY Rule DEF Idle, Tx
  <2>2. named \in Tx /\ named.op = op /\ named.at = "read" /\ named.who = p
    BY <2>1 DEF Tx
  <2>3. row = [named EXCEPT !.alreadyCounted = counted]
    OBVIOUS
  <2> HIDE DEF named, row
  <2> QED
    BY <1>0, <2>2, <2>3 DEF Tx
<1>2. tx' = [tx EXCEPT ![h] = row] /\ UNCHANGED <<account, roles, notice, links, activations, excused, dismissed>>
  BY DEF Begin, UnchangedRows
<1>3. /\ roles' \in [People -> {"none", "open", "untilLastDay"}]
      /\ notice' \in [People -> {"none", "serving", "over"}]
  BY <1>2 DEF Inv, TypeOK
<1> HIDE DEF row
<1> QED
  BY <1>1, <1>2, <1>3, HandlerGoes DEF ClaimOf, Returns, Overwrites

LEMMA EndsInv ==
    ASSUME Inv, NEW h \in Handlers, Ends(h), UNCHANGED <<account, links, activations, excused, dismissed>>,
           roles' \in [People -> {"none", "open", "untilLastDay"}],
           notice' \in [People -> {"none", "serving", "over"}]
    PROVE  Inv'
<1>1. Idle \in Tx /\ Idle.op = "none" /\ Idle.at = "idle"
  BY Rule DEF Idle, Tx
<1>2. tx' = [tx EXCEPT ![h] = Idle]
  BY DEF Ends
<1> HIDE DEF Idle
<1> QED
  BY <1>1, <1>2, HandlerGoes DEF Overwrites, ClaimOf, Returns

(* The platform's invitation starts where a claim has been made, without.  *)
LEMMA PlatformInvitesInv ==
    ASSUME Inv, NEW h \in Handlers, NEW p \in People, PlatformInvites(h, p)
    PROVE  Inv'
<1> DEFINE n == findOutstanding(p)
           row == [Idle EXCEPT !.op = "invite", !.at = "looked", !.who = p, !.link = n, !.unbacked = TRUE]
<1>1. n \in 0 .. MaxLinks
  BY OutstandingTyped
<1>2. tx' = [tx EXCEPT ![h] = row] /\ UNCHANGED <<account, roles, notice, links, activations, excused, dismissed>>
      /\ account[p] # "Offboarded"
  BY DEF PlatformInvites, UnchangedRows
<1> HIDE DEF n
<1>3. row \in Tx /\ row.op = "invite" /\ row.at = "looked" /\ row.who = p /\ row.unbacked
  BY <1>1 DEF Tx, Idle
<1>4. /\ roles' \in [People -> {"none", "open", "untilLastDay"}]
      /\ notice' \in [People -> {"none", "serving", "over"}]
  BY <1>2 DEF Inv, TypeOK
<1> HIDE DEF row
<1> QED
  BY <1>2, <1>3, <1>4, HandlerGoes DEF ClaimOf, Returns

(* The handler goes from one step of its operation to the next.            *)
LEMMA StepsInv ==
    ASSUME Inv, NEW h \in Handlers,
           \/ InviteClaims(h) \/ InviteLooks(h) \/ Accept(h) \/ ReinstateClaims(h) \/ OffboardReads(h)
    PROVE  Inv'
<1>0. tx[h] \in Tx /\ Len(links) \in Nat
  BY LenProperties DEF Inv, TypeOK, Rows
<1>u. UNCHANGED <<account, roles, notice, links, activations, excused, dismissed>>
  BY DEF InviteClaims, InviteLooks, Accept, ReinstateClaims, OffboardReads, UnchangedRows
<1>r. /\ roles' \in [People -> {"none", "open", "untilLastDay"}]
      /\ notice' \in [People -> {"none", "serving", "over"}]
  BY <1>u DEF Inv, TypeOK
<1>o. /\ tx[h].op # "none" => tx[h].who \in People
      /\ tx[h].op = "activate" => tx[h].link \in DOMAIN links /\ links[tx[h].link].of = tx[h].who
      /\ Overwrites(tx[h]) /\ account[tx[h].who] = "Offboarded" => tx[h].late
  BY DEF Inv, Rows, LinksHeld, LateAreKnown
<1>f. Used < Ceiling => SeatFree
  BY Sizes, Rule DEF Inv, TypeOK, SeatFree, Used
<1>1. CASE InviteClaims(h)
  <2> DEFINE row == [tx[h] EXCEPT !.at = "claimed", !.alreadyCounted = FALSE, !.unbacked = tx[h].alreadyCounted]
  <2>1. tx' = [tx EXCEPT ![h] = row] /\ tx[h].op = "invite"
    BY <1>1 DEF InviteClaims, At
  <2>2. /\ row \in Tx /\ row.op = "invite" /\ row.at = "claimed" /\ row.who = tx[h].who
        /\ row.unbacked = tx[h].alreadyCounted
    BY <1>0, <2>1 DEF Tx
  <2>3. "InvitePending" \in Counted /\ ~tx[h].alreadyCounted => Used < Ceiling
    BY <1>1 DEF InviteClaims, MayClaim
  <2> HIDE DEF row
  <2>4. ~Overwrites(row) /\ ~Returns(row) /\ (ClaimOf(row) => SeatFree)
    BY <1>f, <2>2, <2>3 DEF Overwrites, Returns, ClaimOf
  <2> QED
    BY <1>u, <1>r, <1>o, <2>1, <2>2, <2>4, HandlerGoes
<1>5. CASE ReinstateClaims(h)
  <2> DEFINE row == [tx[h] EXCEPT !.at = "claimed"]
  <2>1. tx' = [tx EXCEPT ![h] = row] /\ tx[h].op = "reinstate" /\ SeatLockIsFree
    BY <1>5 DEF ReinstateClaims, To, At
  <2>2. /\ row \in Tx /\ row.op = "reinstate" /\ row.at = "claimed" /\ row.who = tx[h].who
        /\ row.late = tx[h].late /\ row.alreadyCounted = tx[h].alreadyCounted
    BY <1>0, <2>1 DEF Tx
  <2>3. "Active" \in Counted /\ ~tx[h].alreadyCounted => Used < Ceiling
    BY <1>5 DEF ReinstateClaims, MayClaim
  <2> HIDE DEF row
  <2>4. (Overwrites(row) /\ account[row.who] = "Offboarded" => row.late) /\ (ClaimOf(row) => SeatFree)
    BY <1>f, <1>o, <2>1, <2>2, <2>3 DEF Overwrites, Returns, ClaimOf
  <2> QED
    BY <1>u, <1>r, <1>o, <2>1, <2>2, <2>4, HandlerGoes
<1>2. CASE InviteLooks(h)
  <2> DEFINE row == [tx[h] EXCEPT !.at = "looked", !.link = findOutstanding(tx[h].who)]
  <2>1. /\ tx' = [tx EXCEPT ![h] = row] /\ tx[h].op = "invite" /\ tx[h].at = "claimed"
        /\ account[tx[h].who] # "Offboarded"
    BY <1>2 DEF InviteLooks, At
  <2>2. /\ row \in Tx /\ row.op = "invite" /\ row.at = "looked" /\ row.who = tx[h].who
        /\ row.unbacked = tx[h].unbacked
    BY <1>0, <2>1, OutstandingTyped DEF Tx
  <2>3. ~tx[h].unbacked /\ "InvitePending" \in Counted => SeatFree
    BY <2>1 DEF Inv, ClaimsStand, ClaimOf
  <2> HIDE DEF row
  <2>4. ~Returns(row) /\ (ClaimOf(row) => SeatFree)
    BY <2>2, <2>3 DEF Returns, ClaimOf
  <2> QED
    BY <1>u, <1>r, <1>o, <2>1, <2>2, <2>4, HandlerGoes
<1>3. CASE Accept(h)
  <2> DEFINE row == [tx[h] EXCEPT !.at = "locked"]
  <2>1. /\ tx' = [tx EXCEPT ![h] = row] /\ tx[h].op = "activate" /\ LinkIsFree(tx[h].link)
        /\ links[tx[h].link].state = "live"
    BY <1>3 DEF Accept, To, At, Acceptable, IsOutstanding
  <2>2. row \in Tx /\ row.op = tx[h].op /\ row.at = "locked" /\ row.who = tx[h].who /\ row.link = tx[h].link
    BY <1>0 DEF Tx
  <2> HIDE DEF row
  <2> QED
    BY <1>u, <1>r, <1>o, <2>1, <2>2, HandlerGoes DEF Overwrites, ClaimOf, Returns
<1>4. CASE OffboardReads(h)
  <2> DEFINE row == [tx[h] EXCEPT !.at = "looked"]
  <2>1. tx' = [tx EXCEPT ![h] = row] /\ tx[h].op = "offboard"
    BY <1>4 DEF OffboardReads, To, At
  <2>2. row \in Tx /\ row.op = tx[h].op /\ row.at = "looked" /\ row.who = tx[h].who
    BY <1>0 DEF Tx
  <2> HIDE DEF row
  <2> QED
    BY <1>u, <1>r, <1>o, <2>1, <2>2, HandlerGoes DEF Overwrites, ClaimOf, Returns
<1> QED
  BY <1>1, <1>2, <1>3, <1>4, <1>5

LEMMA FollowLinkInv ==
    ASSUME Inv, NEW h \in Handlers, NEW i \in DOMAIN links, FollowLink(h, i)
    PROVE  Inv'
<1> DEFINE row == [Idle EXCEPT !.op = "activate", !.at = "read", !.who = links[i].of, !.link = i]
<1>1. Len(links) \in Nat /\ DOMAIN links = 1 .. Len(links) /\ Len(links) <= MaxLinks /\ links[i] \in Link
  BY LenProperties, ElementOfSeq DEF Inv, Rows, TypeOK
<1>2. links[i].of \in People /\ i \in 0 .. MaxLinks
  BY <1>1, Rule DEF Link
<1>3. row \in Tx /\ row.op = "activate" /\ row.at = "read" /\ row.who = links[i].of /\ row.link = i
  BY <1>2 DEF Tx, Idle
<1>4. tx' = [tx EXCEPT ![h] = row] /\ UNCHANGED <<account, roles, notice, links, activations, excused, dismissed>>
  BY DEF FollowLink, UnchangedRows
<1>5. /\ roles' \in [People -> {"none", "open", "untilLastDay"}]
      /\ notice' \in [People -> {"none", "serving", "over"}]
  BY <1>4 DEF Inv, TypeOK
<1> HIDE DEF row
<1> QED
  BY <1>2, <1>3, <1>4, <1>5, HandlerGoes DEF Overwrites, ClaimOf, Returns

(***************************************************************************)
(* A handler writes the account of a person.                               *)
(***************************************************************************)
LEMMA SeatsMove ==
    ASSUME Inv, NEW p \in People, NEW state \in AccountStates,
           account' = [account EXCEPT ![p] = state]
    PROVE  /\ \A q \in People : account'[q] = IF q = p THEN state ELSE account[q]
           /\ Seated' = IF state \in Counted THEN Seated \cup {p} ELSE Seated \ {p}
           /\ Used = Cardinality(Seated) /\ Used' = Cardinality(Seated')
           /\ Seated \subseteq People /\ (p \in Seated <=> account[p] \in Counted)
BY DEF Inv, TypeOK, Seated, Used

LEMMA SeatsCounted ==
    ASSUME Inv, NEW p \in People, NEW state \in AccountStates, NEW unclaimed \in BOOLEAN,
           account' = [account EXCEPT ![p] = state],
           excused' = IF state \notin Counted THEN excused \ {p}
                      ELSE IF account[p] \notin Counted /\ unclaimed THEN excused \cup {p} ELSE excused,
           account[p] \notin Counted /\ state \in Counted /\ ~unclaimed => SeatFree
    PROVE  /\ excused' \subseteq Seated' /\ excused' \subseteq People /\ SeatsWithinCeiling'
           /\ SeatFree /\ ~(account[p] \notin Counted /\ state \in Counted /\ ~unclaimed) => SeatFree'
<1>0. excused \subseteq Seated /\ Seated \subseteq People /\ Used <= Ceiling + Cardinality(excused)
  BY DEF Inv, SeatsWithinCeiling, Seated
<1>1. /\ Seated' = IF state \in Counted THEN Seated \cup {p} ELSE Seated \ {p}
      /\ Used = Cardinality(Seated) /\ Used' = Cardinality(Seated')
      /\ p \in Seated <=> account[p] \in Counted
  BY SeatsMove
<1>2. /\ excused' \subseteq Seated' /\ excused' \subseteq People /\ Seated' \subseteq People
  BY <1>0, <1>1
<1>3. /\ Cardinality(Seated) \in Nat /\ Cardinality(excused) \in Nat
      /\ Cardinality(Seated') \in Nat /\ Cardinality(excused') \in Nat /\ Ceiling \in Nat
  BY <1>0, <1>2, Sizes, Rule
<1> DEFINE u == Cardinality(Seated)
           v == Cardinality(Seated')
           x == Cardinality(excused)
           y == Cardinality(excused')
<1>k. /\ SeatsWithinCeiling' <=> v <= Ceiling + y
      /\ SeatFree <=> u < Ceiling + x
      /\ SeatFree' <=> v < Ceiling + y
      /\ u <= Ceiling + x
  BY <1>0, <1>1 DEF SeatsWithinCeiling, SeatFree
<1>4. CASE state \notin Counted
  <2>1. Seated' = Seated \ {p} /\ excused' = excused \ {p}
    BY <1>1, <1>4
  <2>2. CASE p \in excused
    <3>1. v = u - 1 /\ y = x - 1
      BY <1>0, <2>1, <2>2, OneLess
    <3> HIDE DEF u, v, x, y
    <3> QED
      BY <1>2, <1>3, <1>4, <1>k, <3>1 DEF u, v, x, y
  <2>3. CASE p \notin excused
    <3>1. excused' = excused
      BY <2>1, <2>3
    <3>2. v <= u /\ y = x
      BY <1>0, <1>3, <2>1, <3>1, OneLess
    <3> QED
      BY <1>2, <1>3, <1>4, <1>k, <3>2
  <2> QED
    BY <2>2, <2>3
<1>5. CASE state \in Counted /\ account[p] \in Counted
  <2>1. Seated' = Seated /\ excused' = excused
    BY <1>1, <1>5
  <2>2. v = u /\ y = x
    BY <2>1
  <2> QED
    BY <1>2, <1>3, <1>k, <2>2
<1>6. CASE state \in Counted /\ account[p] \notin Counted
  <2>1. p \notin Seated /\ p \notin excused /\ Seated' = Seated \cup {p}
    BY <1>0, <1>1, <1>6
  <2>2. v = u + 1
    BY <1>0, <2>1, OneMore
  <2>3. CASE unclaimed
    <3>1. excused' = excused \cup {p} /\ excused \subseteq People
      BY <1>0, <1>6, <2>3
    <3>2. y = x + 1
      BY <2>1, <3>1, OneMore
    <3> QED
      BY <1>2, <1>3, <1>k, <2>2, <3>2
  <2>4. CASE ~unclaimed
    <3>1. excused' = excused /\ u < Ceiling + x
      BY <1>6, <1>k, <2>4
    <3>2. y = x
      BY <3>1
    <3> QED
      BY <1>2, <1>3, <1>6, <1>k, <2>2, <2>4, <3>1, <3>2
  <2> QED
    BY <2>3, <2>4
<1> QED
  BY <1>4, <1>5, <1>6

(* What a write of an account does to the handlers.                        *)
LEMMA MovesTx ==
    ASSUME Inv, NEW h \in Handlers, NEW p \in People, NEW state \in AccountStates,
           NEW unclaimed \in BOOLEAN, Moves(h, p, state, unclaimed)
    PROVE  /\ tx' \in [Handlers -> Tx] /\ tx'[h] = Idle
           /\ \A g \in Handlers \ {h} :
                /\ tx'[g].op = tx[g].op /\ tx'[g].at = tx[g].at /\ tx'[g].who = tx[g].who
                /\ tx'[g].link = tx[g].link /\ tx'[g].alreadyCounted = tx[g].alreadyCounted
                /\ tx[g].unbacked => tx'[g].unbacked
                /\ account[p] \notin Counted /\ state \in Counted /\ ~unclaimed /\ HasClaim(g)
                     => tx'[g].unbacked
                /\ tx[g].late => tx'[g].late
                /\ account[p] # "Offboarded" /\ state = "Offboarded" /\ tx[g].who = p /\ MayBeLate(g)
                     => tx'[g].late
<1> DEFINE enters == account[p] \notin Counted /\ state \in Counted /\ ~unclaimed
           leaves == account[p] # "Offboarded" /\ state = "Offboarded"
           out(g) == tx[g].unbacked \/ (enters /\ HasClaim(g))
           late(g) == tx[g].late \/ (leaves /\ tx[g].who = p /\ MayBeLate(g))
<1>1. tx' = [g \in Handlers |-> IF g = h THEN Idle ELSE [tx[g] EXCEPT !.unbacked = out(g), !.late = late(g)]]
  BY DEF Moves
<1>2. \A g \in Handlers : out(g) \in BOOLEAN /\ late(g) \in BOOLEAN /\ tx[g] \in Tx
  BY DEF Inv, TypeOK
<1>3. Idle \in Tx
  BY Rule DEF Idle, Tx
<1>4. /\ \A g \in Handlers : tx[g].unbacked => out(g)
      /\ \A g \in Handlers : enters /\ HasClaim(g) => out(g)
      /\ \A g \in Handlers : tx[g].late => late(g)
      /\ \A g \in Handlers : leaves /\ tx[g].who = p /\ MayBeLate(g) => late(g)
  OBVIOUS
<1> HIDE DEF out, late
<1>5. ASSUME NEW g \in Handlers \ {h}
      PROVE  /\ tx'[g] \in Tx
             /\ tx'[g].op = tx[g].op /\ tx'[g].at = tx[g].at /\ tx'[g].who = tx[g].who
             /\ tx'[g].link = tx[g].link /\ tx'[g].alreadyCounted = tx[g].alreadyCounted
             /\ tx'[g].unbacked = out(g) /\ tx'[g].late = late(g)
  <2>1. tx'[g] = [tx[g] EXCEPT !.unbacked = out(g), !.late = late(g)]
    BY <1>1
  <2> QED
    BY <1>2, <2>1 DEF Tx
<1>6. tx' \in [Handlers -> Tx] /\ tx'[h] = Idle
  BY <1>1, <1>3, <1>5
<1> QED
  BY <1>4, <1>5, <1>6

LEMMA MovesInv ==
    ASSUME Inv, NEW h \in Handlers, NEW p \in People, NEW state \in AccountStates,
           NEW unclaimed \in BOOLEAN, Moves(h, p, state, unclaimed),
           account[p] \notin Counted /\ state \in Counted /\ ~unclaimed =>
               SeatFree /\ \A g \in Handlers \ {h} : ~Returns(tx[g])
    PROVE  /\ account' \in [People -> AccountStates] /\ tx' \in [Handlers -> Tx]
           /\ excused' \subseteq People /\ (excused \subseteq Seated)' /\ SeatsWithinCeiling'
           /\ ClaimsStand' /\ LateAreKnown'
           /\ \A g \in Handlers : tx'[g].op # "none" => tx'[g].who \in People
<1>1. /\ account' = [account EXCEPT ![p] = state]
      /\ excused' = IF state \notin Counted THEN excused \ {p}
                    ELSE IF account[p] \notin Counted /\ unclaimed THEN excused \cup {p} ELSE excused
  BY DEF Moves
<1>2. /\ excused' \subseteq Seated' /\ excused' \subseteq People /\ SeatsWithinCeiling'
      /\ SeatFree /\ ~(account[p] \notin Counted /\ state \in Counted /\ ~unclaimed) => SeatFree'
  BY <1>1, SeatsCounted
<1>3. /\ tx' \in [Handlers -> Tx] /\ tx'[h] = Idle
      /\ \A g \in Handlers \ {h} :
           /\ tx'[g].op = tx[g].op /\ tx'[g].at = tx[g].at /\ tx'[g].who = tx[g].who
           /\ tx'[g].link = tx[g].link /\ tx'[g].alreadyCounted = tx[g].alreadyCounted
           /\ tx[g].unbacked => tx'[g].unbacked
           /\ account[p] \notin Counted /\ state \in Counted /\ ~unclaimed /\ HasClaim(g)
                => tx'[g].unbacked
           /\ tx[g].late => tx'[g].late
           /\ account[p] # "Offboarded" /\ state = "Offboarded" /\ tx[g].who = p /\ MayBeLate(g)
                => tx'[g].late
  BY MovesTx
<1>4. Idle.op = "none" /\ Idle.at = "idle"
  BY DEF Idle
<1>5. account' \in [People -> AccountStates]
  BY <1>1 DEF Inv, TypeOK
<1>6. \A g \in Handlers : tx'[g].op # "none" => tx'[g].who \in People
  BY <1>3, <1>4 DEF Inv, Rows
<1>7. ClaimsStand'
  <2>1. \A g \in Handlers : Returns(tx'[g]) => g # h /\ Returns(tx[g])
    BY <1>3, <1>4 DEF Returns
  <2>2. ASSUME NEW g \in Handlers, ClaimOf(tx'[g])
        PROVE  SeatFree'
    <3>1. g # h
      BY <1>3, <1>4, <2>2 DEF ClaimOf, Returns
    <3>2. ClaimOf(tx[g]) /\ HasClaim(g)
      BY <1>3, <2>2, <3>1 DEF ClaimOf, HasClaim, NeedsSeat, Returns
    <3>3. ~(account[p] \notin Counted /\ state \in Counted /\ ~unclaimed)
      <4>1. CASE Returns(tx[g])
        BY <3>1, <4>1
      <4>2. CASE ~Returns(tx[g])
        <5>1. ~tx'[g].unbacked
          BY <1>3, <2>2, <3>1, <4>2 DEF ClaimOf, Returns
        <5> QED
          BY <1>3, <3>1, <3>2, <5>1
      <4> QED
        BY <4>1, <4>2
    <3>4. SeatFree
      BY <3>2 DEF Inv, ClaimsStand
    <3> QED
      BY <1>2, <3>3, <3>4
  <2>3. \A f, g \in Handlers : Returns(tx'[f]) /\ Returns(tx'[g]) => f = g
    BY <2>1 DEF Inv, ClaimsStand
  <2> QED
    BY <2>2, <2>3 DEF ClaimsStand, ClaimOf, Returns
<1>8. LateAreKnown'
  <2> SUFFICES ASSUME NEW g \in Handlers, Overwrites(tx'[g]), account'[tx'[g].who] = "Offboarded"
               PROVE  tx'[g].late
    BY DEF LateAreKnown, Overwrites
  <2>1. g # h /\ tx'[g].op # "none"
    BY <1>3, <1>4 DEF Overwrites
  <2>2. Overwrites(tx[g]) /\ MayBeLate(g) /\ tx'[g].who = tx[g].who /\ tx[g].who \in People
    BY <1>3, <1>6, <2>1 DEF Overwrites, MayBeLate, At
  <2>3. CASE account[tx[g].who] = "Offboarded"
    BY <1>3, <2>1, <2>2, <2>3 DEF Inv, LateAreKnown
  <2>4. CASE account[tx[g].who] # "Offboarded"
    <3>1. tx[g].who = p /\ state = "Offboarded"
      BY <1>1, <2>2, <2>4 DEF Inv, TypeOK
    <3> QED
      BY <1>3, <2>1, <2>2, <2>4, <3>1
  <2> QED
    BY <2>3, <2>4
<1> QED
  BY <1>2, <1>3, <1>5, <1>6, <1>7, <1>8

(* The rows of the links when one of them changes its state.               *)
LEMMA LinkRow ==
    ASSUME Inv
    PROVE  /\ Len(links) \in Nat /\ DOMAIN links = 1 .. Len(links) /\ Len(links) <= MaxLinks
           /\ \A i \in DOMAIN links : links[i] \in Link /\ i \in 1 .. MaxLinks
<1>1. Len(links) \in Nat /\ DOMAIN links = 1 .. Len(links) /\ Len(links) <= MaxLinks
  BY LenProperties DEF Inv, Rows, TypeOK
<1>2. \A i \in DOMAIN links : links[i] \in Link /\ i \in 1 .. MaxLinks
  BY <1>1, Rule DEF Inv, TypeOK
<1> QED
  BY <1>1, <1>2

LEMMA LinkChanges ==
    ASSUME Inv, NEW i \in DOMAIN links, NEW state \in {"accepted", "cancelled"},
           links' = [links EXCEPT ![i].state = state]
    PROVE  /\ links' \in Seq(Link) /\ Len(links') = Len(links) /\ DOMAIN links' = DOMAIN links
           /\ links'[i].state = state /\ links'[i].of = links[i].of /\ links'[i] \in Link
           /\ \A j \in DOMAIN links \ {i} : links'[j] = links[j]
<1> DEFINE row == [links[i] EXCEPT !.state = state]
<1>1. links' = [links EXCEPT ![i] = row] /\ i \in 1 .. Len(links) /\ links \in Seq(Link)
  BY LinkRow DEF Inv, Rows
<1>2. row \in Link /\ row.state = state /\ row.of = links[i].of
  BY LinkRow DEF Link
<1> HIDE DEF row
<1>3. links' \in Seq(Link) /\ Len(links') = Len(links)
  BY <1>1, <1>2, ExceptSeq
<1>4. DOMAIN links' = DOMAIN links
  BY <1>3, LinkRow, LenProperties
<1> QED
  BY <1>1, <1>2, <1>3, <1>4, LinkRow

LEMMA CancelInvitationInv ==
    ASSUME Inv, NEW i \in DOMAIN links, CancelInvitation(i)
    PROVE  Inv'
<1> DEFINE p == links[i].of
<1>1. /\ links' = [links EXCEPT ![i].state = "cancelled"] /\ links[i].state = "live" /\ LinkIsFree(i)
      /\ UNCHANGED <<roles, notice, tx, activations, dismissed>> /\ p \in People
  BY LinkRow DEF CancelInvitation, IsOutstanding, Link
<1>2. /\ links' \in Seq(Link) /\ Len(links') = Len(links) /\ DOMAIN links' = DOMAIN links
      /\ links'[i].state = "cancelled" /\ links'[i].of = links[i].of /\ links'[i] \in Link
      /\ \A j \in DOMAIN links \ {i} : links'[j] = links[j]
  BY <1>1, LinkChanges
<1>3. \/ account' = account /\ excused' = excused
      \/ /\ account[p] = "InvitePending" /\ account' = [account EXCEPT ![p] = "NotInvited"]
         /\ excused' = excused \ {p}
  BY DEF CancelInvitation
<1>4. /\ excused' \subseteq Seated' /\ excused' \subseteq People /\ SeatsWithinCeiling'
      /\ SeatFree => SeatFree'
      /\ account' \in [People -> AccountStates]
      /\ \A q \in People : account'[q] = "Offboarded" <=> account[q] = "Offboarded"
  <2>1. CASE account' = account /\ excused' = excused
    <3>1. Used' = Used /\ Seated' = Seated
      BY <2>1 DEF Used, Seated
    <3> QED
      BY <2>1, <3>1 DEF Inv, TypeOK, SeatsWithinCeiling, SeatFree
  <2>2. CASE /\ account[p] = "InvitePending" /\ account' = [account EXCEPT ![p] = "NotInvited"]
             /\ excused' = excused \ {p}
    <3>1. "NotInvited" \in AccountStates /\ "NotInvited" \notin Counted
      BY Rule DEF AccountStates
    <3>2. /\ excused' \subseteq Seated' /\ excused' \subseteq People /\ SeatsWithinCeiling'
          /\ SeatFree => SeatFree'
      BY <1>1, <2>2, <3>1, SeatsCounted
    <3>3. /\ account' \in [People -> AccountStates]
          /\ \A q \in People : account'[q] = "Offboarded" <=> account[q] = "Offboarded"
      BY <1>1, <2>2, <3>1 DEF Inv, TypeOK
    <3> QED
      BY <3>2, <3>3
  <2> QED
    BY <1>3, <2>1, <2>2
<1> HIDE DEF p
<1>5. TypeOK'
  BY <1>1, <1>2, <1>4, LinkRow DEF Inv, TypeOK
<1>6. Rows'
  BY <1>1, <1>2 DEF Inv, Rows
<1>7. LinksHeld'
  <2>1. \A h \in Handlers : tx[h].op = "activate" =>
          tx[h].link \in DOMAIN links' /\ links'[tx[h].link].of = tx[h].who
    BY <1>2 DEF Inv, LinksHeld
  <2>2. \A h \in Handlers : tx[h].at = "locked" =>
          tx[h].op = "activate" /\ links'[tx[h].link].state = "live"
    BY <1>1, <1>2 DEF Inv, LinksHeld, LinkIsFree
  <2> QED
    BY <1>1, <2>1, <2>2 DEF Inv, LinksHeld
<1>8. UsedOnce'
  BY <1>1, <1>2 DEF Inv, UsedOnce, LinkIsUsedOnce
<1>9. LateAreKnown'
  <2>1. \A h \in Handlers : Overwrites(tx[h]) => tx[h].who \in People
    BY DEF Inv, Rows, Overwrites
  <2> QED
    BY <1>1, <1>4, <2>1 DEF Inv, LateAreKnown, Overwrites
<1>10. DismissedAreOut'
  BY <1>1, <1>2, <1>4 DEF Inv, DismissedAreOut, TypeOK
<1>11. ClaimsStand'
  BY <1>1, <1>4 DEF Inv, ClaimsStand, ClaimOf, Returns
<1> QED
  BY <1>4, <1>5, <1>6, <1>7, <1>8, <1>9, <1>10, <1>11 DEF Inv

(***************************************************************************)
(* The writes of an account, one by one: what is left to show is that the  *)
(* links and the dismissed are as they should be.                          *)
(***************************************************************************)
LEMMA WithoutLinks ==
    ASSUME Inv, NEW h \in Handlers, NEW p \in People, NEW state \in AccountStates,
           NEW unclaimed \in BOOLEAN, Moves(h, p, state, unclaimed),
           account[p] \notin Counted /\ state \in Counted /\ ~unclaimed =>
               SeatFree /\ \A g \in Handlers \ {h} : ~Returns(tx[g]),
           roles' \in [People -> {"none", "open", "untilLastDay"}],
           notice' \in [People -> {"none", "serving", "over"}],
           UNCHANGED <<links, activations>>, state = "Offboarded" => dismissed' = dismissed
    PROVE  Inv'
<1>1. /\ account' \in [People -> AccountStates] /\ tx' \in [Handlers -> Tx]
      /\ excused' \subseteq People /\ (excused \subseteq Seated)' /\ SeatsWithinCeiling'
      /\ ClaimsStand' /\ LateAreKnown'
      /\ \A g \in Handlers : tx'[g].op # "none" => tx'[g].who \in People
  BY MovesInv
<1>2. /\ tx'[h] = Idle /\ Idle.op = "none" /\ Idle.at = "idle"
      /\ \A g \in Handlers \ {h} :
           tx'[g].op = tx[g].op /\ tx'[g].at = tx[g].at /\ tx'[g].who = tx[g].who /\ tx'[g].link = tx[g].link
  <2>1. Idle.op = "none" /\ Idle.at = "idle"
    BY DEF Idle
  <2> QED
    BY <2>1, MovesTx
<1>3. /\ account' = [account EXCEPT ![p] = state]
      /\ dismissed' = IF state = "Offboarded" THEN dismissed ELSE dismissed \ {p}
  BY DEF Moves
<1>4. TypeOK' /\ Rows'
  BY <1>1, <1>3 DEF Inv, TypeOK, Rows
<1>5. LinksHeld'
  BY <1>2 DEF Inv, LinksHeld
<1>6. UsedOnce'
  BY DEF Inv, UsedOnce, LinkIsUsedOnce
<1>7. DismissedAreOut'
  BY <1>3 DEF Inv, DismissedAreOut, TypeOK
<1> QED
  BY <1>1, <1>4, <1>5, <1>6, <1>7 DEF Inv

LEMMA AccountWritten ==
    ASSUME Inv, NEW h \in Handlers, SuspendCommits(h) \/ ReinstateCommits(h)
    PROVE  Inv'
<1>0. /\ tx[h].who \in People /\ tx[h].alreadyCounted \in BOOLEAN
      /\ {"Suspended", "Active"} \subseteq AccountStates
  BY DEF Inv, Rows, TypeOK, Tx, SuspendCommits, ReinstateCommits, At, AccountStates
<1>1. CASE SuspendCommits(h)
  <2>1. /\ Moves(h, tx[h].who, "Suspended", TRUE) /\ UNCHANGED <<roles, notice, links, activations>>
    BY <1>1 DEF SuspendCommits
  <2>2. /\ roles' \in [People -> {"none", "open", "untilLastDay"}]
        /\ notice' \in [People -> {"none", "serving", "over"}]
    BY <2>1 DEF Inv, TypeOK
  <2> QED
    BY <1>0, <2>1, <2>2, WithoutLinks
<1>2. CASE ReinstateCommits(h)
  <2> DEFINE unclaimed == tx[h].alreadyCounted
  <2>1. /\ Moves(h, tx[h].who, "Active", unclaimed) /\ UNCHANGED <<roles, notice, links, activations>>
        /\ Returns(tx[h])
    BY <1>2 DEF ReinstateCommits, At, Returns
  <2>2. /\ roles' \in [People -> {"none", "open", "untilLastDay"}]
        /\ notice' \in [People -> {"none", "serving", "over"}]
    BY <2>1 DEF Inv, TypeOK
  <2>3. "Active" \in Counted /\ ~unclaimed => SeatFree
    BY <2>1 DEF Inv, ClaimsStand, ClaimOf
  <2>4. \A g \in Handlers \ {h} : ~Returns(tx[g])
    BY <2>1 DEF Inv, ClaimsStand
  <2>5. unclaimed \in BOOLEAN
    BY <1>0
  <2> HIDE DEF unclaimed
  <2> QED
    BY <1>0, <2>1, <2>2, <2>3, <2>4, <2>5, WithoutLinks
<1> QED
  BY <1>1, <1>2

LEMMA CompleteCommitsInv ==
    ASSUME Inv, NEW h \in Handlers, NEW p \in People, CompleteCommits(h, p)
    PROVE  Inv'
<1>1. /\ Moves(h, p, "Offboarded", FALSE) /\ UNCHANGED <<links, activations, dismissed>>
      /\ "Offboarded" \notin Counted /\ "Offboarded" \in AccountStates
  BY Rule DEF CompleteCommits, AccountStates
<1>2. /\ roles' \in [People -> {"none", "open", "untilLastDay"}]
      /\ notice' \in [People -> {"none", "serving", "over"}]
  BY DEF CompleteCommits, Inv, TypeOK
<1> QED
  BY <1>1, <1>2, WithoutLinks

(* Whatever the identity provider writes is excused, and touches no link.  *)
LEMMA ScimWritesInv ==
    ASSUME Inv, NEW h \in Handlers, NEW p \in People, ScimWrites(h, p)
    PROVE  Inv'
<1>1. PICK state \in {"Active", "Suspended", "Offboarded"} :
        Moves(h, p, state, TRUE) /\ (state = "Offboarded" => dismissed' = dismissed)
  BY DEF ScimWrites
<1>2. UNCHANGED <<roles, notice, links, activations>> /\ state \in AccountStates
  BY DEF ScimWrites, AccountStates
<1>3. /\ roles' \in [People -> {"none", "open", "untilLastDay"}]
      /\ notice' \in [People -> {"none", "serving", "over"}]
  BY <1>2 DEF Inv, TypeOK
<1> QED
  BY <1>1, <1>2, <1>3, WithoutLinks

LEMMA InviteCommitsInv ==
    ASSUME Inv, NEW h \in Handlers, InviteCommits(h)
    PROVE  Inv'
<1> DEFINE p == tx[h].who
           unclaimed == tx[h].unbacked \/ ~SeatLockIsFree
           new == [of |-> p, state |-> "live"]
<1>1. /\ Moves(h, p, "InvitePending", unclaimed) /\ tx[h].op = "invite" /\ tx[h].at = "looked"
      /\ UNCHANGED <<roles, notice, activations>>
      /\ \/ links' = links
         \/ Len(links) < MaxLinks /\ links' = Append(links, new)
  BY DEF InviteCommits, At
<1>2. p \in People /\ "InvitePending" \in AccountStates /\ unclaimed \in BOOLEAN
  BY <1>1 DEF Inv, Rows, AccountStates
<1>3. "InvitePending" \in Counted /\ ~unclaimed => SeatFree /\ \A g \in Handlers \ {h} : ~Returns(tx[g])
  BY <1>1 DEF Inv, ClaimsStand, ClaimOf, SeatLockIsFree, Returns
<1>4. /\ roles' \in [People -> {"none", "open", "untilLastDay"}]
      /\ notice' \in [People -> {"none", "serving", "over"}]
  BY <1>1 DEF Inv, TypeOK
<1>5. CASE links' = links
  <2> HIDE DEF p, unclaimed
  <2> QED
    BY <1>1, <1>2, <1>3, <1>4, <1>5, WithoutLinks
<1>6. CASE Len(links) < MaxLinks /\ links' = Append(links, new)
  <2>1. new \in Link /\ new.of = p /\ new.state = "live"
    BY <1>2 DEF Link
  <2> HIDE DEF p, unclaimed, new
  <2>2. /\ account' \in [People -> AccountStates] /\ tx' \in [Handlers -> Tx]
        /\ excused' \subseteq People /\ (excused \subseteq Seated)' /\ SeatsWithinCeiling'
        /\ ClaimsStand' /\ LateAreKnown'
        /\ \A g \in Handlers : tx'[g].op # "none" => tx'[g].who \in People
    BY <1>1, <1>2, <1>3, MovesInv
  <2>3. /\ tx'[h] = Idle
        /\ \A g \in Handlers \ {h} :
             tx'[g].op = tx[g].op /\ tx'[g].at = tx[g].at /\ tx'[g].who = tx[g].who /\ tx'[g].link = tx[g].link
    BY <1>1, <1>2, MovesTx
  <2>4. Idle.op = "none" /\ Idle.at = "idle"
    BY DEF Idle
  <2>5. account' = [account EXCEPT ![p] = "InvitePending"] /\ dismissed' = dismissed \ {p}
    BY <1>1 DEF Moves
  <2>6. /\ links' \in Seq(Link) /\ Len(links') = Len(links) + 1 /\ DOMAIN links' = 1 .. Len(links) + 1
        /\ \A i \in DOMAIN links : links'[i] = links[i] /\ i # Len(links) + 1
        /\ links'[Len(links) + 1] = new
    BY <1>6, <2>1, LinkRow, AppendProperties, LenProperties DEF Inv, Rows
  <2>7. TypeOK'
    <3>1. \A i \in DOMAIN links' : links'[i] \in Link
      BY <2>1, <2>6, LinkRow
    <3> QED
      BY <1>1, <1>4, <1>6, <2>2, <2>5, <2>6, <3>1, LinkRow, Rule DEF Inv, TypeOK
  <2>8. Rows'
    BY <2>2, <2>6 DEF Rows
  <2>9. LinksHeld'
    BY <2>3, <2>4, <2>6, LinkRow DEF Inv, LinksHeld
  <2>10. UsedOnce'
    <3>1. Len(links) + 1 \in 1 .. MaxLinks /\ Len(links) + 1 \notin DOMAIN links
      BY <1>6, LinkRow, Rule
    <3>2. activations[Len(links) + 1] = 0
      BY <3>1 DEF Inv, UsedOnce
    <3>3. \A i \in DOMAIN links' : i \in DOMAIN links \/ i = Len(links) + 1
      BY <2>6, LinkRow
    <3> QED
      BY <1>1, <2>1, <2>6, <3>2, <3>3, LinkRow DEF Inv, UsedOnce, LinkIsUsedOnce
  <2>11. DismissedAreOut'
    <3> SUFFICES ASSUME NEW q \in dismissed'
                 PROVE  /\ account'[q] = "Offboarded"
                        /\ \A i \in DOMAIN links' : links'[i].of = q => links'[i].state # "live"
      BY DEF DismissedAreOut
    <3>1. q \in dismissed /\ q # p /\ q \in People
      BY <2>5 DEF Inv, TypeOK
    <3>2. \A i \in DOMAIN links' : i \in DOMAIN links \/ i = Len(links) + 1
      BY <2>6, LinkRow
    <3> QED
      BY <2>1, <2>5, <2>6, <3>1, <3>2 DEF Inv, DismissedAreOut, TypeOK
  <2> QED
    BY <2>2, <2>7, <2>8, <2>9, <2>10, <2>11 DEF Inv
<1> QED
  BY <1>1, <1>5, <1>6

LEMMA ActivateCommitsInv ==
    ASSUME Inv, NEW h \in Handlers, ActivateCommits(h)
    PROVE  Inv' /\ tx[h].who \notin dismissed
<1> DEFINE p == tx[h].who
           i == tx[h].link
<1>1. /\ Moves(h, p, "Active", TRUE) /\ tx[h].op = "activate" /\ tx[h].at = "locked"
      /\ UNCHANGED <<roles, notice>> /\ links' = [links EXCEPT ![i].state = "accepted"]
      /\ activations' = [activations EXCEPT ![i] = activations[i] + 1]
  BY DEF ActivateCommits, At
<1>2. p \in People /\ "Active" \in AccountStates /\ i \in DOMAIN links /\ links[i].of = p /\ links[i].state = "live"
  BY <1>1 DEF Inv, Rows, AccountStates, LinksHeld
<1>3. p \notin dismissed
  BY <1>2 DEF Inv, DismissedAreOut
<1>4. /\ links' \in Seq(Link) /\ Len(links') = Len(links) /\ DOMAIN links' = DOMAIN links
      /\ links'[i].state = "accepted" /\ links'[i].of = links[i].of /\ links'[i] \in Link
      /\ \A j \in DOMAIN links \ {i} : links'[j] = links[j]
  BY <1>1, <1>2, LinkChanges
<1> HIDE DEF p, i
<1>5. /\ account' \in [People -> AccountStates] /\ tx' \in [Handlers -> Tx]
      /\ excused' \subseteq People /\ (excused \subseteq Seated)' /\ SeatsWithinCeiling'
      /\ ClaimsStand' /\ LateAreKnown'
      /\ \A g \in Handlers : tx'[g].op # "none" => tx'[g].who \in People
  BY <1>1, <1>2, MovesInv
<1>6. /\ tx'[h] = Idle
      /\ \A g \in Handlers \ {h} :
           tx'[g].op = tx[g].op /\ tx'[g].at = tx[g].at /\ tx'[g].who = tx[g].who /\ tx'[g].link = tx[g].link
  BY ZenonT(60), <1>1, <1>2, MovesTx
<1>7. Idle.op = "none" /\ Idle.at = "idle"
  BY DEF Idle
<1>8. account' = [account EXCEPT ![p] = "Active"] /\ dismissed' = dismissed \ {p}
  BY <1>1 DEF Moves
<1>9. activations[i] = 0 /\ i \in 1 .. MaxLinks
  BY <1>2, LinkRow DEF Inv, UsedOnce, LinkIsUsedOnce
<1>10. activations' \in [1 .. MaxLinks -> Nat] /\ activations'[i] = 1
       /\ \A j \in 1 .. MaxLinks \ {i} : activations'[j] = activations[j]
  BY <1>1, <1>9 DEF Inv, TypeOK
<1>11. TypeOK'
  <2>1. \A j \in DOMAIN links' : links'[j] \in Link
    BY <1>2, <1>4, LinkRow
  <2> QED
    BY <1>1, <1>4, <1>5, <1>8, <1>10, <2>1 DEF Inv, TypeOK
<1>12. Rows'
  BY <1>4, <1>5 DEF Rows
<1>13. LinksHeld'
  <2>1. \A g \in Handlers \ {h} : tx[g].at = "locked" => tx[g].link # i
    BY <1>1 DEF Inv, LinksHeld, i
  <2>2. \A g \in Handlers : tx'[g].at = "locked" => g # h /\ tx'[g].op = "activate" /\ links'[tx'[g].link].state = "live"
    BY <1>4, <1>6, <1>7, <2>1 DEF Inv, LinksHeld
  <2>3. \A g \in Handlers : tx'[g].op = "activate" =>
          tx'[g].link \in DOMAIN links' /\ links'[tx'[g].link].of = tx'[g].who
    BY <1>4, <1>6, <1>7 DEF Inv, LinksHeld
  <2> QED
    BY <1>6, <1>7, <2>2, <2>3 DEF Inv, LinksHeld
<1>14. UsedOnce'
  <2>1. ASSUME NEW j \in DOMAIN links'
        PROVE  activations'[j] = IF links'[j].state = "accepted" THEN 1 ELSE 0
    <3>1. j \in DOMAIN links /\ j \in 1 .. MaxLinks
      BY <1>4, LinkRow
    <3>2. CASE j = i
      BY <1>4, <1>10, <3>2
    <3>3. CASE j # i
      BY <1>4, <1>10, <3>1, <3>3 DEF Inv, UsedOnce, LinkIsUsedOnce
    <3> QED
      BY <3>2, <3>3
  <2>2. \A j \in 1 .. MaxLinks : j \notin DOMAIN links' => activations'[j] = 0
    BY <1>2, <1>4, <1>10 DEF Inv, UsedOnce
  <2> QED
    BY <2>1, <2>2 DEF UsedOnce, LinkIsUsedOnce
<1>15. DismissedAreOut'
  <2> SUFFICES ASSUME NEW q \in dismissed'
               PROVE  /\ account'[q] = "Offboarded"
                      /\ \A j \in DOMAIN links' : links'[j].of = q => links'[j].state # "live"
    BY DEF DismissedAreOut
  <2>1. q \in dismissed /\ q # p /\ q \in People
    BY <1>8 DEF Inv, TypeOK
  <2> QED
    BY <1>2, <1>4, <1>8, <2>1 DEF Inv, DismissedAreOut, TypeOK
<1> QED
  BY <1>3, <1>5, <1>11, <1>12, <1>13, <1>14, <1>15 DEF Inv, p

LEMMA DismissalCommitsInv ==
    ASSUME Inv, NEW h \in Handlers, DismissalCommits(h)
    PROVE  Inv'
<1> DEFINE p == tx[h].who
           row(i) == IF i \in OutstandingOf(p) THEN [links[i] EXCEPT !.state = "cancelled"] ELSE links[i]
<1>1. /\ Moves(h, p, "Offboarded", FALSE) /\ tx[h].op = "offboard" /\ tx[h].at = "looked"
      /\ roles' = [roles EXCEPT ![p] = "none"] /\ dismissed' = dismissed \cup {p}
      /\ UNCHANGED <<notice, activations>>
      /\ \A i \in OutstandingOf(p) : LinkIsFree(i)
      /\ links' = [i \in DOMAIN links |-> row(i)]
  BY DEF DismissalCommits, CancelsTheLinks, At
<1>2. p \in People /\ "Offboarded" \in AccountStates /\ "Offboarded" \notin Counted
  BY <1>1, Rule DEF Inv, Rows, AccountStates
<1>3. \A i \in DOMAIN links : i \in OutstandingOf(p) <=> links[i].of = p /\ links[i].state = "live"
  BY DEF OutstandingOf, IsOutstanding
<1>4. \A i \in DOMAIN links :
        /\ row(i) \in Link /\ row(i).of = links[i].of
        /\ i \in OutstandingOf(p) => row(i).state = "cancelled"
        /\ i \notin OutstandingOf(p) => row(i) = links[i]
  BY LinkRow DEF Link
<1> HIDE DEF p, row
<1>5. /\ DOMAIN links' = DOMAIN links
      /\ \A i \in DOMAIN links :
           /\ links'[i] \in Link /\ links'[i].of = links[i].of
           /\ links[i].of = p /\ links[i].state = "live" => links'[i].state = "cancelled"
           /\ ~(links[i].of = p /\ links[i].state = "live") => links'[i] = links[i]
  BY <1>1, <1>3, <1>4
<1>6. links' \in Seq(Link) /\ Len(links') = Len(links)
  <2>1. DOMAIN links = 1 .. Len(links) /\ Len(links) \in Nat
    BY LinkRow
  <2>2. links' \in [1 .. Len(links) -> Link]
    BY <1>1, <1>5, <2>1
  <2>3. links' \in Seq(Link)
    BY <2>1, <2>2, SeqDef
  <2>4. Len(links') \in Nat /\ DOMAIN links' = 1 .. Len(links')
    BY <2>3, LenProperties
  <2> QED
    BY <1>5, <2>1, <2>3, <2>4
<1>7. /\ account' \in [People -> AccountStates] /\ tx' \in [Handlers -> Tx]
      /\ excused' \subseteq People /\ (excused \subseteq Seated)' /\ SeatsWithinCeiling'
      /\ ClaimsStand' /\ LateAreKnown'
      /\ \A g \in Handlers : tx'[g].op # "none" => tx'[g].who \in People
  BY <1>1, <1>2, MovesInv
<1>8. /\ tx'[h] = Idle
      /\ \A g \in Handlers \ {h} :
           tx'[g].op = tx[g].op /\ tx'[g].at = tx[g].at /\ tx'[g].who = tx[g].who /\ tx'[g].link = tx[g].link
  BY ZenonT(60), <1>1, <1>2, MovesTx
<1>9. Idle.op = "none" /\ Idle.at = "idle"
  BY DEF Idle
<1>10. account' = [account EXCEPT ![p] = "Offboarded"]
  BY <1>1 DEF Moves
<1>11. TypeOK'
  BY <1>1, <1>2, <1>5, <1>6, <1>7, LinkRow DEF Inv, TypeOK
<1>12. Rows'
  BY <1>6, <1>7 DEF Rows
<1>13. LinksHeld'
  <2>1. ASSUME NEW g \in Handlers, tx'[g].at = "locked"
        PROVE  tx'[g].op = "activate" /\ links'[tx'[g].link].state = "live"
    <3>1. /\ g # h /\ tx[g].at = "locked" /\ tx[g].op = "activate" /\ tx'[g].link = tx[g].link
          /\ tx'[g].op = tx[g].op
      BY <1>8, <1>9, <2>1 DEF Inv, LinksHeld
    <3>2. tx[g].link \in DOMAIN links /\ links[tx[g].link].state = "live"
      BY <3>1 DEF Inv, LinksHeld
    <3>3. tx[g].link \notin OutstandingOf(p)
      BY <1>1, <3>1 DEF LinkIsFree
    <3> QED
      BY <1>3, <1>5, <3>1, <3>2, <3>3
  <2>2. \A g \in Handlers : tx'[g].op = "activate" =>
          tx'[g].link \in DOMAIN links' /\ links'[tx'[g].link].of = tx'[g].who
    BY <1>5, <1>8, <1>9 DEF Inv, LinksHeld
  <2>3. \A f, g \in Handlers :
          tx'[f].at = "locked" /\ tx'[g].at = "locked" /\ tx'[f].link = tx'[g].link => f = g
    BY <1>8, <1>9 DEF Inv, LinksHeld
  <2> QED
    BY <2>1, <2>2, <2>3 DEF LinksHeld
<1>14. UsedOnce'
  <2>1. \A i \in DOMAIN links : links'[i].state = "accepted" <=> links[i].state = "accepted"
    BY <1>5
  <2> QED
    BY <1>1, <1>5, <2>1 DEF Inv, UsedOnce, LinkIsUsedOnce
<1>15. DismissedAreOut'
  <2> SUFFICES ASSUME NEW q \in dismissed'
               PROVE  /\ account'[q] = "Offboarded"
                      /\ \A i \in DOMAIN links' : links'[i].of = q => links'[i].state # "live"
    BY DEF DismissedAreOut
  <2>1. CASE q = p
    BY <1>2, <1>5, <1>10, <2>1 DEF Inv, TypeOK
  <2>2. CASE q # p
    <3>1. q \in dismissed /\ q \in People
      BY <1>1, <2>2 DEF Inv, TypeOK
    <3> QED
      BY <1>5, <1>10, <2>2, <3>1 DEF Inv, DismissedAreOut, TypeOK
  <2> QED
    BY <2>1, <2>2
<1> QED
  BY <1>7, <1>11, <1>12, <1>13, <1>14, <1>15 DEF Inv

(* Nothing but the roles and the notice of somebody changes.               *)
LEMMA RolesChange ==
    ASSUME Inv, UNCHANGED <<account, links, tx, activations, excused, dismissed>>,
           roles' \in [People -> {"none", "open", "untilLastDay"}],
           notice' \in [People -> {"none", "serving", "over"}]
    PROVE  Inv'
<1>1. TypeOK' /\ Rows' /\ LinksHeld' /\ UsedOnce' /\ LateAreKnown' /\ DismissedAreOut'
  BY DEF Inv, TypeOK, Rows, LinksHeld, UsedOnce, LinkIsUsedOnce, LateAreKnown, DismissedAreOut
<1>2. (excused \subseteq Seated)' /\ SeatsWithinCeiling' /\ ClaimsStand'
  BY DEF Inv, Seated, SeatsWithinCeiling, SeatFree, ClaimsStand, ClaimOf, Returns, Used
<1> QED
  BY <1>1, <1>2 DEF Inv

(* Every step keeps the invariant, and whoever was dismissed is let in by  *)
(* the identity provider, or by nobody who came after.                     *)
StaysOut ==
    \A p \in dismissed : account[p] = "Offboarded" /\ account'[p] # "Offboarded" =>
        \E h \in Handlers :
           \/ ScimWrites(h, p)
           \/ tx[h].who = p /\ tx[h].late /\ tx'[h] = Idle

LEMMA WritesAreLate ==
    ASSUME Inv, NEW h \in Handlers, NEW state \in AccountStates, NEW unclaimed \in BOOLEAN,
           Moves(h, tx[h].who, state, unclaimed), tx[h].op # "none",
           Overwrites(tx[h]) \/ state = "Offboarded" \/ tx[h].who \notin dismissed
    PROVE  StaysOut
<1>1. /\ account' = [account EXCEPT ![tx[h].who] = state] /\ tx[h].who \in People
      /\ dismissed \subseteq People
  BY DEF Moves, Inv, Rows, TypeOK
<1>2. tx'[h] = Idle
  BY <1>1, MovesTx
<1> SUFFICES ASSUME NEW p \in dismissed, account[p] = "Offboarded", account'[p] # "Offboarded"
             PROVE  \E g \in Handlers : tx[g].who = p /\ tx[g].late /\ tx'[g] = Idle
  BY DEF StaysOut
<1>3. tx[h].who = p /\ state # "Offboarded"
  BY <1>1 DEF Inv, TypeOK
<1>4. tx[h].late
  BY <1>3 DEF Inv, LateAreKnown
<1> QED
  BY <1>2, <1>3, <1>4

LEMMA StepInv ==
    ASSUME Inv, [Next]_vars
    PROVE  Inv' /\ StaysOut
<1>t. /\ roles \in [People -> {"none", "open", "untilLastDay"}]
      /\ notice \in [People -> {"none", "serving", "over"}]
  BY DEF Inv, TypeOK
<1>s. account' = account => StaysOut
  BY DEF StaysOut
<1>a. \A state \in {"InvitePending", "Active", "Suspended", "Offboarded"} : state \in AccountStates
  BY DEF AccountStates
<1>1. ASSUME NEW h \in Handlers, NEW p \in People,
             \/ InviteReads(h, p) \/ SuspendReads(h, p) \/ ReinstateReads(h, p)
             \/ AssignReads(h, p) \/ OffboardAsks(h, p)
      PROVE  Inv' /\ StaysOut
  <2>1. PICK op \in {"invite", "suspend", "reinstate", "offboard", "assign"} :
          Begin(h, p, op) /\ (op \in {"suspend", "reinstate"} => account[p] # "Offboarded")
    BY <1>1 DEF InviteReads, SuspendReads, ReinstateReads, AssignReads, OffboardAsks
  <2>2. UnchangedRows
    BY <1>1 DEF InviteReads, SuspendReads, ReinstateReads, AssignReads, OffboardAsks
  <2>3. account' = account
    BY <2>2 DEF UnchangedRows
  <2> QED
    BY <1>s, <2>1, <2>2, <2>3, BeginInv
<1>2. ASSUME NEW h \in Handlers, NEW i \in DOMAIN links, FollowLink(h, i)
      PROVE  Inv' /\ StaysOut
  BY <1>2, <1>s, FollowLinkInv DEF FollowLink, UnchangedRows
<1>3. ASSUME NEW h \in Handlers,
             \/ InviteClaims(h) \/ InviteLooks(h) \/ Accept(h) \/ ReinstateClaims(h) \/ OffboardReads(h)
      PROVE  Inv' /\ StaysOut
  <2>1. account' = account
    BY <1>3 DEF InviteClaims, InviteLooks, Accept, ReinstateClaims, OffboardReads, UnchangedRows
  <2> QED
    BY <1>3, <1>s, <2>1, StepsInv
<1>4. ASSUME NEW h \in Handlers, InviteCommits(h)
      PROVE  Inv' /\ StaysOut
  <2> DEFINE unclaimed == tx[h].unbacked \/ ~SeatLockIsFree
  <2>1. Moves(h, tx[h].who, "InvitePending", unclaimed) /\ tx[h].op = "invite" /\ tx[h].at = "looked"
    BY <1>4 DEF InviteCommits, At
  <2>2. unclaimed \in BOOLEAN
    OBVIOUS
  <2> HIDE DEF unclaimed
  <2> QED
    BY <1>4, <1>a, <2>1, <2>2, InviteCommitsInv, WritesAreLate DEF Overwrites
<1>5. ASSUME NEW h \in Handlers, ActivateCommits(h)
      PROVE  Inv' /\ StaysOut
  <2>1. Moves(h, tx[h].who, "Active", TRUE) /\ tx[h].op = "activate"
    BY <1>5 DEF ActivateCommits, At
  <2> QED
    BY <1>5, <1>a, <2>1, ActivateCommitsInv, WritesAreLate
<1>6. ASSUME NEW h \in Handlers, SuspendCommits(h)
      PROVE  Inv' /\ StaysOut
  <2>1. Moves(h, tx[h].who, "Suspended", TRUE) /\ tx[h].op = "suspend"
    BY <1>6 DEF SuspendCommits, At
  <2> QED
    BY <1>6, <1>a, <2>1, AccountWritten, WritesAreLate DEF Overwrites
<1>7. ASSUME NEW h \in Handlers, ReinstateCommits(h)
      PROVE  Inv' /\ StaysOut
  <2> DEFINE unclaimed == tx[h].alreadyCounted
  <2>1. Moves(h, tx[h].who, "Active", unclaimed) /\ tx[h].op = "reinstate"
    BY <1>7 DEF ReinstateCommits, At
  <2>2. unclaimed \in BOOLEAN
    BY DEF Inv, TypeOK, Tx
  <2> HIDE DEF unclaimed
  <2> QED
    BY <1>7, <1>a, <2>1, <2>2, AccountWritten, WritesAreLate DEF Overwrites
<1>8. ASSUME NEW h \in Handlers, DismissalCommits(h)
      PROVE  Inv' /\ StaysOut
  <2>1. Moves(h, tx[h].who, "Offboarded", FALSE) /\ tx[h].op # "none"
    BY <1>8 DEF DismissalCommits, At
  <2> QED
    BY <1>8, <1>a, <2>1, DismissalCommitsInv, WritesAreLate
<1>13. ASSUME NEW h \in Handlers, NEW p \in People, CompleteCommits(h, p)
       PROVE  Inv' /\ StaysOut
  <2>1. account' = [account EXCEPT ![p] = "Offboarded"]
    BY <1>13 DEF CompleteCommits, Moves
  <2>2. \A q \in People : account'[q] # "Offboarded" => account[q] # "Offboarded"
    BY <2>1 DEF Inv, TypeOK
  <2>3. dismissed \subseteq People
    BY DEF Inv, TypeOK
  <2> QED
    BY <1>13, <2>2, <2>3, CompleteCommitsInv DEF StaysOut
<1>14. ASSUME NEW h \in Handlers, NEW p \in People, ScimWrites(h, p)
       PROVE  Inv' /\ StaysOut
  <2>1. \A q \in People : q # p => account'[q] = account[q]
    BY <1>14 DEF ScimWrites, Moves, Inv, TypeOK
  <2>2. dismissed \subseteq People
    BY DEF Inv, TypeOK
  <2> QED
    BY <1>14, <2>1, <2>2, ScimWritesInv DEF StaysOut
<1>15. ASSUME NEW h \in Handlers, NEW p \in People, PlatformInvites(h, p)
       PROVE  Inv' /\ StaysOut
  BY <1>15, <1>s, PlatformInvitesInv DEF PlatformInvites, UnchangedRows
<1>9. ASSUME NEW h \in Handlers, AssignCommits(h) \/ NoticeCommits(h) \/ Abandon(h)
      PROVE  Inv' /\ StaysOut
  <2>1. Ends(h) /\ UNCHANGED <<account, links, activations, excused, dismissed>>
    BY <1>9 DEF AssignCommits, NoticeCommits, Abandon, UnchangedRows
  <2>2. /\ roles' \in [People -> {"none", "open", "untilLastDay"}]
        /\ notice' \in [People -> {"none", "serving", "over"}]
    BY <1>9, <1>t DEF AssignCommits, NoticeCommits, Abandon, UnchangedRows
  <2> QED
    BY <1>s, <2>1, <2>2, EndsInv
<1>10. ASSUME NEW i \in DOMAIN links, CancelInvitation(i)
       PROVE  Inv' /\ StaysOut
  <2>1. \A q \in People : account'[q] # "Offboarded" => account[q] # "Offboarded"
    BY <1>10 DEF CancelInvitation, Inv, TypeOK
  <2>2. dismissed \subseteq People
    BY DEF Inv, TypeOK
  <2> QED
    BY <1>10, <2>1, <2>2, CancelInvitationInv DEF StaysOut
<1>11. ASSUME NEW p \in People, RevokeRoles(p) \/ LastDayPasses(p)
       PROVE  Inv' /\ StaysOut
  <2>1. UNCHANGED <<account, links, tx, activations, excused, dismissed>>
    BY <1>11 DEF RevokeRoles, LastDayPasses
  <2>2. /\ roles' \in [People -> {"none", "open", "untilLastDay"}]
        /\ notice' \in [People -> {"none", "serving", "over"}]
    BY <1>11, <1>t DEF RevokeRoles, LastDayPasses
  <2> QED
    BY <1>s, <2>1, <2>2, RolesChange
<1>12. CASE UNCHANGED vars
  BY <1>12, <1>t, <1>s, RolesChange DEF vars
<1> QED
  BY <1>1, <1>2, <1>3, <1>4, <1>5, <1>6, <1>7, <1>8, <1>9, <1>10, <1>11, <1>12, <1>13,
     <1>14, <1>15 DEF Next

LEMMA InvAlways == Spec => []Inv
<1>1. Inv /\ [Next]_vars => Inv'
  BY StepInv
<1> QED
  BY <1>1, InitInv, PTL DEF Spec

(* Every variable keeps to its type.                                       *)
THEOREM TypeCorrect == Spec => []TypeOK
<1>1. Inv => TypeOK
  BY DEF Inv
<1> QED
  BY <1>1, InvAlways, PTL

(* However many people follow, resend and cancel a link at the same time,  *)
(* it lets somebody in once, and a cancelled one nobody (acceptForPlatform,*)
(* rotateToken, cancel).                                                   *)
THEOREM NoLinkIsUsedTwice == Spec => []LinkIsUsedOnce
<1>1. Inv => LinkIsUsedOnce
  BY DEF Inv, UsedOnce
<1> QED
  BY <1>1, InvAlways, PTL

(* The seats taken exceed those contracted by no more than the people who  *)
(* took theirs outside the seat lock with no valid claim; a reinstatement, *)
(* whose claim and write are one transaction under the lock, is never one  *)
(* of them, however many return at once (claimSeat).                       *)
THEOREM SeatsAreKept == Spec => []SeatsWithinCeiling
<1>1. Inv => SeatsWithinCeiling
  BY DEF Inv
<1> QED
  BY <1>1, InvAlways, PTL

(* Nobody who was dismissed comes back but by the identity provider's word *)
(* or by the write of somebody who had read the account before: no link    *)
(* lets them in (offboard, acceptForPlatform, applyActive).                *)
THEOREM DismissedStayOut == Spec => DismissalHolds
<1>1. Inv /\ [Next]_vars =>
        [\A p \in dismissed : account[p] = "Offboarded" /\ account'[p] # "Offboarded" =>
            \E h \in Handlers :
               \/ ScimWrites(h, p)
               \/ tx[h].who = p /\ tx[h].late /\ tx'[h] = Idle]_vars
  BY StepInv DEF StaysOut
<1> QED
  BY <1>1, InvAlways, PTL DEF Spec, DismissalHolds
=============================================================================
