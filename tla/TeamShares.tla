----------------------------- MODULE TeamShares -----------------------------
(***************************************************************************)
(* What the treasuries are to those who are paid from them: a team of      *)
(* limited size, each of whose members has a share of the market fee, and  *)
(* together at most the whole.  Members come and go one at a time; there   *)
(* are no slots, no order and nothing left over from former members.       *)
(***************************************************************************)
EXTENDS Sums

CONSTANTS
    Admin,     \* who may set up the team
    NoAdmin,   \* nobody
    Member,    \* who may be in the team
    Share,     \* shares that may be asked for
    Fee,       \* market fees that may be asked for
    Whole,     \* the share that leaves nothing to others
    MaxSize    \* of the team

VARIABLES
    admin,   \* who runs the team, once somebody does
    fee,     \* the part of a price the team gets
    team     \* pairs of a member and his share

teamShares == <<admin, fee, team>>

Total == Sum(team, [entry \in team |-> entry[2]])

Init == admin = NoAdmin /\ fee = 0 /\ team = {}

SetUp(user) ==
    /\ admin = NoAdmin
    /\ admin' = user
    /\ UNCHANGED <<fee, team>>

SetFee(part) ==
    /\ admin # NoAdmin
    /\ part < Whole
    /\ fee' = part
    /\ UNCHANGED <<admin, team>>

Admit(member, share) ==
    /\ admin # NoAdmin
    /\ Cardinality(team) < MaxSize
    /\ share > 0 /\ Total + share <= Whole
    /\ \A entry \in team : entry[1] # member
    /\ team' = team \cup {<<member, share>>}
    /\ UNCHANGED <<admin, fee>>

Dismiss(entry) ==
    /\ team' = team \ {entry}
    /\ UNCHANGED <<admin, fee>>

Next ==
    \/ \E user \in Admin : SetUp(user)
    \/ \E part \in Fee : SetFee(part)
    \/ \E member \in Member, share \in Share : Admit(member, share)
    \/ \E entry \in team : Dismiss(entry)

Spec == Init /\ [][Next]_teamShares
=============================================================================
