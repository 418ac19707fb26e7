------------------------------- MODULE Access -------------------------------
(***************************************************************************)
(* Who may enter a company: invitations and their links, suspension and    *)
(* reinstatement, roles, seats, and the departure of people                *)
(* (invitation.service.ts, invitation-access.service.ts,                   *)
(* user-access.service.ts, offboarding.service.ts, seat.service.ts), and   *)
(* what the company's identity provider says of them (scim.service.ts).    *)
(*                                                                         *)
(* A handler works on one person. It reads rows in one step and writes in  *)
(* a later one, and what it read may have changed in between. A row lock   *)
(* that outlives a step is that of an activation on its invitation, and    *)
(* the company's seat lock, held by a reinstatement.                       *)
(***************************************************************************)
EXTENDS Naturals, Sequences, FiniteSets, FiniteSetsExt

CONSTANTS
    Handlers,       \* requests in flight at once
    People,         \* members of the company, employed in a department under a manager
    NoOne,
    Counted,        \* the account states that take a seat under the company's rule
    Ceiling,        \* the seats contracted
    MaxLinks,       \* bound: invitations ever created
    MaxNotices      \* bound: people under notice at once

AccountStates == {"NotInvited", "InvitePending", "Active", "Suspended", "Offboarded"}

SeatCountingRules == {{"Active"}, {"Active", "InvitePending"},
                      {"Active", "InvitePending", "Suspended"}}

ASSUME AccessAssumption ==
    /\ NoOne \notin People /\ IsFiniteSet(People)
    /\ Counted \in SeatCountingRules /\ Ceiling \in Nat
    /\ MaxLinks \in Nat /\ MaxNotices \in Nat

VARIABLES
    account,        \* per person, the membership's account state
    roles,          \* per person, live: none, open-ended, or ending with the last day
    notice,         \* per person, the notice period: none, being served, its last day over
    links,          \* the invitations, in the order of their creation
    tx,             \* per handler, what it is doing
    activations,    \* history: per invitation, how often it let somebody in
    excused,        \* history: who took a seat that no valid claim stood for, outside the lock
    dismissed       \* history: who is out by an immediate departure

vars == <<account, roles, notice, links, tx, activations, excused, dismissed>>

----------------------------------------------------------------------------
(* State *)

Link == [of : People, state : {"live", "accepted", "cancelled"}]

Tx == [op : {"none", "invite", "activate", "suspend", "reinstate", "offboard", "assign"},
       at : {"idle", "read", "claimed", "looked", "locked"},
       who : People \cup {NoOne},
       link : 0 .. MaxLinks,        \* 0: no invitation is outstanding
       alreadyCounted : BOOLEAN,    \* the person had a seat when last read
       unbacked : BOOLEAN,          \* history: no claim, or a claimed seat was taken since
       late : BOOLEAN]              \* history: the person left meanwhile

Idle == [op |-> "none", at |-> "idle", who |-> NoOne, link |-> 0, alreadyCounted |-> FALSE,
         unbacked |-> FALSE, late |-> FALSE]

TypeOK ==
    /\ account \in [People -> AccountStates]
    /\ roles \in [People -> {"none", "open", "untilLastDay"}]
    /\ notice \in [People -> {"none", "serving", "over"}]
    /\ Len(links) <= MaxLinks /\ \A i \in DOMAIN links : links[i] \in Link
    /\ tx \in [Handlers -> Tx]
    /\ activations \in [1 .. MaxLinks -> Nat]
    /\ excused \subseteq People /\ dismissed \subseteq People

(* Everybody has been added to the hierarchy and been given a role. *)
Init ==
    /\ account = [p \in People |-> "NotInvited"]
    /\ roles = [p \in People |-> "open"]
    /\ notice = [p \in People |-> "none"]
    /\ links = <<>>
    /\ tx = [h \in Handlers |-> Idle]
    /\ activations = [i \in 1 .. MaxLinks |-> 0]
    /\ excused = {} /\ dismissed = {}

Used == Cardinality({p \in People : account[p] \in Counted})

(* listLiveAssignments: what is past its end is not among roles.           *)
HasRole(p) == roles[p] # "none"

(* An invitation past its end stays outstanding: it is one that nobody can follow. *)
IsOutstanding(i) == links[i].state = "live"

OutstandingOf(p) == {i \in DOMAIN links : links[i].of = p /\ IsOutstanding(i)}

(* findOutstanding takes the newest. *)
findOutstanding(p) == IF OutstandingOf(p) = {} THEN 0 ELSE Max(OutstandingOf(p))

(* An activation that has accepted an invitation holds its row to the end. *)
LinkIsFree(i) == \A h \in Handlers : ~(tx[h].at = "locked" /\ tx[h].link = i)

\* Mutant: the lock is not taken.
NobodyWaits == TRUE

(* The lock claimSeat takes, for those whose transaction goes on.          *)
SeatLockIsFree == \A h \in Handlers : ~(tx[h].op = "reinstate" /\ tx[h].at = "claimed")

----------------------------------------------------------------------------
(* Steps the operations share *)

(* The operations that claim a seat. *)
NeedsSeat(op) == op \in {"invite", "reinstate"}

Begin(h, p, op) ==
    /\ tx[h].at = "idle"
    /\ tx' = [tx EXCEPT ![h] = [Idle EXCEPT !.op = op, !.at = "read", !.who = p,
                                            !.alreadyCounted = NeedsSeat(op) /\ account[p] \in Counted]]

To(h, at) == tx' = [tx EXCEPT ![h].at = at]

At(h, op, at) == tx[h].op = op /\ tx[h].at = at

UnchangedRows == UNCHANGED <<account, roles, notice, links, activations, excused, dismissed>>

(* The handler ends, or its process or transaction does: an activation    *)
(* and a dismissal may wait for each other's rows, and the database picks *)
(* one of them.                                                            *)
Ends(h) == tx' = [tx EXCEPT ![h] = Idle]

HasClaim(h) == NeedsSeat(tx[h].op) /\ tx[h].at \in {"claimed", "looked"}

(* Those who will write the account over without asking again. *)
MayBeLate(h) == tx[h].op \in {"suspend", "reinstate"} \/ At(h, "invite", "looked")

(* h writes the account state of p and commits. When a claimed seat is     *)
(* taken, nothing stands behind the claims made before; those who are at   *)
(* work on somebody who leaves are late.                                   *)
Moves(h, p, state, unclaimed) ==
    LET enters == account[p] \notin Counted /\ state \in Counted
        leaves == account[p] # "Offboarded" /\ state = "Offboarded"
    IN  /\ account' = [account EXCEPT ![p] = state]
        /\ excused' = IF state \notin Counted THEN excused \ {p}
                         ELSE IF enters /\ unclaimed THEN excused \cup {p} ELSE excused
        /\ state # "Offboarded" => dismissed' = dismissed \ {p}
        /\ tx' = [g \in Handlers |->
                     IF g = h THEN Idle
                     ELSE [tx[g] EXCEPT !.unbacked = @ \/ (enters /\ ~unclaimed /\ HasClaim(g)),
                                        !.late = @ \/ (leaves /\ tx[g].who = p /\ MayBeLate(g))]]

----------------------------------------------------------------------------
(* Inviting somebody who is in the hierarchy, or inviting them again *)

(* The roster is read: who is in, who has left, and who is not ready is refused. *)
InviteReads(h, p) ==
    /\ account[p] \notin {"Active", "Offboarded"} /\ HasRole(p)
    /\ Begin(h, p, "invite")
    /\ UnchangedRows

\* Mutant: a company that is full has room for one more.
MayClaimOneMore(state, alreadyCounted) ==
    state \in Counted /\ ~alreadyCounted => Used <= Ceiling

(* claimSeat, under the seat lock. *)
MayClaim(state, alreadyCounted) ==
    state \in Counted /\ ~alreadyCounted => Used < Ceiling

(* The claim is a transaction of its own, and counts the person in by the  *)
(* state the roster showed.                                                *)
InviteClaims(h) ==
    /\ At(h, "invite", "read") /\ SeatLockIsFree
    /\ MayClaim("InvitePending", tx[h].alreadyCounted)
    /\ tx' = [tx EXCEPT ![h].at = "claimed", ![h].alreadyCounted = FALSE,
                        ![h].unbacked = tx[h].alreadyCounted]
    /\ UnchangedRows

(* The transaction of invite: the membership is read again. *)
InviteLooks(h) ==
    LET p == tx[h].who IN
    /\ At(h, "invite", "claimed")
    /\ account[p] \notin {"Active", "Offboarded"}
    /\ tx' = [tx EXCEPT ![h].at = "looked", ![h].link = findOutstanding(p)]
    /\ UnchangedRows

(* The platform invites by the same transaction, and claims no seat.       *)
PlatformInvites(h, p) ==
    /\ tx[h].at = "idle"
    /\ account[p] \notin {"Active", "Offboarded"}
    /\ tx' = [tx EXCEPT ![h] = [Idle EXCEPT !.op = "invite", !.at = "looked", !.who = p,
                                            !.link = findOutstanding(p), !.unbacked = TRUE]]
    /\ UnchangedRows

(* An outstanding invitation gets a new token and a new end, or nothing    *)
(* when it no longer is outstanding; else an invitation is created. The    *)
(* membership is written in any case, whoever holds the seat lock.         *)
InviteCommits(h) ==
    LET p == tx[h].who
        i == tx[h].link
    IN  /\ At(h, "invite", "looked")
        /\ IF i = 0
           THEN Len(links) < MaxLinks /\ links' = Append(links, [of |-> p, state |-> "live"])
           ELSE LinkIsFree(i) /\ UNCHANGED links
        /\ Moves(h, p, "InvitePending", tx[h].unbacked \/ ~SeatLockIsFree)
        /\ UNCHANGED <<roles, notice, activations>>

(* cancel: conditional writes on both rows. *)
CancelInvitation(i) ==
    LET p == links[i].of IN
    /\ IsOutstanding(i) /\ LinkIsFree(i)
    /\ links' = [links EXCEPT ![i].state = "cancelled"]
    /\ IF account[p] = "InvitePending"
          THEN account' = [account EXCEPT ![p] = "NotInvited"] /\ excused' = excused \ {p}
          ELSE UNCHANGED <<account, excused>>
    /\ UNCHANGED <<roles, notice, tx, activations, dismissed>>

----------------------------------------------------------------------------
(* Activation: somebody follows a link *)

FollowLink(h, i) ==
    /\ IsOutstanding(i) /\ tx[h].at = "idle"
    /\ tx' = [tx EXCEPT ![h] = [Idle EXCEPT !.op = "activate", !.at = "read",
                                            !.who = links[i].of, !.link = i]]
    /\ UnchangedRows

\* Mutant: the link is accepted on the strength of the earlier read.
AcceptableAsRead(i) == TRUE

(* acceptForPlatform: a compare-and-set. *)
Acceptable(i) == IsOutstanding(i)

(* The row is written and stays locked, and activationReadiness passes; it *)
(* asks for a role, and not for the state of the account.                  *)
Accept(h) ==
    LET i == tx[h].link IN
    /\ At(h, "activate", "read") /\ LinkIsFree(i)
    /\ Acceptable(i) /\ HasRole(tx[h].who)
    /\ To(h, "locked")
    /\ UnchangedRows

ActivateCommits(h) ==
    LET i == tx[h].link IN
    /\ At(h, "activate", "locked")
    /\ links' = [links EXCEPT ![i].state = "accepted"]
    /\ activations' = [activations EXCEPT ![i] = @ + 1]
    /\ Moves(h, tx[h].who, "Active", TRUE)
    /\ UNCHANGED <<roles, notice>>

----------------------------------------------------------------------------
(* Suspension and reinstatement *)

SuspendReads(h, p) ==
    /\ account[p] \in {"Active", "InvitePending"}
    /\ Begin(h, p, "suspend")
    /\ UnchangedRows

SuspendCommits(h) ==
    /\ At(h, "suspend", "read")
    /\ Moves(h, tx[h].who, "Suspended", TRUE)
    /\ UNCHANGED <<roles, notice, links, activations>>

ReinstateReads(h, p) ==
    /\ account[p] = "Suspended"
    /\ Begin(h, p, "reinstate")
    /\ UnchangedRows

(* The claim and the write are one transaction: the seat lock is held. *)
ReinstateClaims(h) ==
    /\ At(h, "reinstate", "read") /\ SeatLockIsFree
    /\ MayClaim("Active", tx[h].alreadyCounted)
    /\ To(h, "claimed")
    /\ UnchangedRows

ReinstateCommits(h) ==
    /\ At(h, "reinstate", "claimed")
    /\ Moves(h, tx[h].who, "Active", tx[h].alreadyCounted)
    /\ UNCHANGED <<roles, notice, links, activations>>

----------------------------------------------------------------------------
(* Provisioning: the identity provider creates, replaces, patches or       *)
(* deletes a user. A user it creates without a membership is one of        *)
(* People who has no role and on whom nothing happened before.             *)

(* The state is written over whatever it is: no seat is claimed, and       *)
(* roles, links and the notice are left as they are. The membership is     *)
(* read before, in another transaction; all that depends on it is which of *)
(* the requests is refused, so the read is no step of its own.             *)
ScimWrites(h, p) ==
    /\ tx[h].at = "idle"
    /\ \E state \in {"Active", "Suspended", "Offboarded"} :
          /\ Moves(h, p, state, TRUE)
          /\ state = "Offboarded" => UNCHANGED dismissed
    /\ UNCHANGED <<roles, notice, links, activations>>

----------------------------------------------------------------------------
(* Roles *)

AssignReads(h, p) ==
    /\ account[p] \in {"NotInvited", "InvitePending", "Active"}
    /\ Begin(h, p, "assign")
    /\ UnchangedRows

(* The assignment is created in a transaction of its own. *)
AssignCommits(h) ==
    /\ At(h, "assign", "read")
    /\ roles' = [roles EXCEPT ![tx[h].who] = "open"]
    /\ Ends(h)
    /\ UNCHANGED <<account, notice, links, activations, excused, dismissed>>

RevokeRoles(p) ==
    /\ roles[p] # "none"
    /\ roles' = [roles EXCEPT ![p] = "none"]
    /\ UNCHANGED <<account, notice, links, tx, activations, excused, dismissed>>

----------------------------------------------------------------------------
(* Departure *)

(* Nothing is open for the person; this is asked before the transaction. *)
OffboardAsks(h, p) ==
    /\ notice[p] = "none"
    /\ Begin(h, p, "offboard")
    /\ UnchangedRows

OffboardReads(h) ==
    /\ At(h, "offboard", "read") /\ account[tx[h].who] # "Offboarded"
    /\ To(h, "looked")
    /\ UnchangedRows

(* With notice: the roles end with the last day, and nothing else changes. *)
(* A unique index admits one open departure of a person.                   *)
NoticeCommits(h) ==
    LET p == tx[h].who IN
    /\ At(h, "offboard", "looked") /\ notice[p] = "none"
    /\ Cardinality({q \in People : notice[q] # "none"}) < MaxNotices
    /\ roles' = [roles EXCEPT ![p] = IF @ = "open" THEN "untilLastDay" ELSE @]
    /\ notice' = [notice EXCEPT ![p] = "serving"]
    /\ Ends(h)
    /\ UNCHANGED <<account, links, activations, excused, dismissed>>

\* Mutant: the links of the person who leaves are left alone.
LeavesTheLinks(p) == UNCHANGED links

(* Every outstanding invitation is cancelled: an activation under way is   *)
(* waited for.                                                             *)
CancelsTheLinks(p) ==
    /\ \A i \in OutstandingOf(p) : LinkIsFree(i)
    /\ links' = [i \in DOMAIN links |->
                    IF i \in OutstandingOf(p) THEN [links[i] EXCEPT !.state = "cancelled"]
                    ELSE links[i]]

(* At once: roles revoked, account Offboarded, links cancelled. *)
DismissalCommits(h) ==
    LET p == tx[h].who IN
    /\ At(h, "offboard", "looked")
    /\ CancelsTheLinks(p)
    /\ roles' = [roles EXCEPT ![p] = "none"]
    /\ dismissed' = dismissed \cup {p}
    /\ Moves(h, p, "Offboarded", FALSE)
    /\ UNCHANGED <<notice, activations>>

(* Time passes: an assignment that ends with the last day is live no more. *)
LastDayPasses(p) ==
    /\ notice[p] = "serving"
    /\ notice' = [notice EXCEPT ![p] = "over"]
    /\ roles' = [roles EXCEPT ![p] = IF @ = "untilLastDay" THEN "none" ELSE @]
    /\ UNCHANGED <<account, links, tx, activations, excused, dismissed>>

(* completeDue lists who is due and claims each departure, on its status,  *)
(* in the transaction that completes it: a list out of date does nothing.  *)
CompleteCommits(h, p) ==
    /\ tx[h].at = "idle" /\ notice[p] = "over"
    /\ notice' = [notice EXCEPT ![p] = "none"]
    /\ roles' = [roles EXCEPT ![p] = "none"]
    /\ Moves(h, p, "Offboarded", FALSE)
    /\ UNCHANGED <<links, activations, dismissed>>

----------------------------------------------------------------------------

(* Refused, rolled back, or dead. *)
Abandon(h) == tx[h].at # "idle" /\ Ends(h) /\ UnchangedRows

Next ==
    \/ \E h \in Handlers, p \in People :
          \/ InviteReads(h, p) \/ SuspendReads(h, p) \/ ReinstateReads(h, p)
          \/ AssignReads(h, p) \/ OffboardAsks(h, p) \/ CompleteCommits(h, p)
          \/ PlatformInvites(h, p) \/ ScimWrites(h, p)
    \/ \E h \in Handlers, i \in DOMAIN links : FollowLink(h, i)
    \/ \E h \in Handlers :
          \/ InviteClaims(h) \/ InviteLooks(h) \/ InviteCommits(h)
          \/ Accept(h) \/ ActivateCommits(h)
          \/ SuspendCommits(h) \/ ReinstateClaims(h) \/ ReinstateCommits(h) \/ AssignCommits(h)
          \/ OffboardReads(h) \/ NoticeCommits(h) \/ DismissalCommits(h)
          \/ Abandon(h)
    \/ \E i \in DOMAIN links : CancelInvitation(i)
    \/ \E p \in People : RevokeRoles(p) \/ LastDayPasses(p)

Spec == Init /\ [][Next]_vars
=============================================================================
