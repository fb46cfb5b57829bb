---------------------------- MODULE DaoContract ----------------------------
(***************************************************************************)
(* The permission manager contract that the DAO-ML generator emits in its  *)
(* "optimized" form (languages/daoml/generator/optimized_translator.py):   *)
(* which address holds which role, which role or committee holds which     *)
(* permission, and the calls that change either.                           *)
(*                                                                         *)
(* Roles and committees are numbered in one sequence, the roles first, the *)
(* generated owner role last among them.  An entity's id packs that number *)
(* and the bitmask of its controllers into one integer; here it is a       *)
(* record of the two fields a mask and a shift read back from it.  A       *)
(* transaction runs alone, so every external call is one action; a call    *)
(* that reverts changes nothing and is no step.  A caller may pass any     *)
(* word of the ids' type, and an assignment stores the word it is given,   *)
(* control bits included.                                                  *)
(***************************************************************************)
EXTENDS Integers, FiniteSets

CONSTANTS Addresses,           \* the accounts that call, or are named in, a transaction
          Deployer,            \* the account that deploys the contract
          Permissions,         \* the permissions of the DAO, governance rights included
          DrawnRoles,          \* how many roles the diagram has
          NumCommittees,       \* how many committees the diagram has
          DrawnControllers,    \* entity -> the entities the diagram lets control it
          DrawnPermissions,    \* entity -> the permissions the diagram gives it
          Transitive,          \* the diagram's hierarchical inheritance flag
          Eligible,            \* entity -> the addresses its assignment condition accepts
          IdSpace,             \* 2^b for the b low bits an id keeps for the number
          ControlWidth,        \* how many control bits an id has above them
          Arguments            \* the words callers pass for an id

\* generateOwnerRole appends the owner to the roles; committees follow them.
Owner == DrawnRoles
NumRoles == DrawnRoles + 1
Entities == 0 .. NumRoles + NumCommittees - 1
Drawn == Entities \ {Owner}
CommitteeIndexes == 0 .. NumCommittees - 1

\* A role's own list of controllers once the owner has been added to all.
controllers(e) == IF e = Owner THEN {Owner} ELSE DrawnControllers[e] \cup {Owner}

\* A line of control is a set of entities that holds the controllers of each
\* of its members: nobody outside it may act on anybody inside it.
IsLine(L) == \A e \in L : controllers(e) \subseteq L
Lines == {L : L \in {M \in SUBSET Entities : IsLine(M)}}   \* TLC computes a mapped set once

\* What a path in the control graph reaches from e, without e itself.
descendants(e) ==
    {c \in Entities \ {e} : \A L \in Lines : controllers(e) \subseteq L => c \in L}

\* MUTANT of get_control_bitflags: the control graph is built before the owner
\* role is generated.
get_control_bitflagsOfDrawing(e) ==
    (IF Transitive THEN descendants(e) ELSE controllers(e)) \ {Owner}

\* The control bitmask of an entity, as the set of the bits that are one.
get_control_bitflags(e) ==
    IF Transitive THEN descendants(e) \cup (controllers(e) \cap {e})
    ELSE controllers(e)

\* An entity's id.  The group size is chosen before the owner is added, so the
\* last number may need one bit more than the id has for it; that bit is then
\* read as the control bit of entity 0, and the number is read as 0.
all_roles ==
    [e \in Entities |->
       [index       |-> IF e < IdSpace THEN e ELSE e - IdSpace,
        controllers |-> get_control_bitflags(e) \cup (IF e < IdSpace THEN {} ELSE {0})]]

\* The default value of a mapping: an address that was never given a role.
NullRole == [index |-> 0, controllers |-> {}]
Ids == {all_roles[e] : e \in Entities}

\* Every value of the ids' type, and those an array of the contract can be
\* indexed with.
ControlBits == 0 .. ControlWidth - 1
Words == [index : 0 .. IdSpace - 1, controllers : SUBSET ControlBits]
Storable == {w \in Words : w.index \in Entities}

(***************************************************************************)
(* What the generator and the Solidity compiler guarantee: the group size  *)
(* fits the entities that were drawn (from_size), and an id literal fits   *)
(* its type, so that the bit of each controller lies below the id's width. *)
(* The type has fewer control bits than numbers: 27 for 32, 58 for 64.     *)
(***************************************************************************)
ASSUME DaoAssumption ==
    /\ Deployer \in Addresses
    /\ DrawnRoles \in Nat
    /\ NumCommittees \in Nat
    /\ IdSpace \in Nat \ {0}
    /\ DrawnRoles + NumCommittees <= IdSpace
    /\ Transitive \in BOOLEAN
    /\ DrawnControllers \in [Drawn -> SUBSET Drawn]
    /\ DrawnPermissions \in [Drawn -> SUBSET Permissions]
    /\ Eligible \in [Entities -> SUBSET Addresses]
    /\ ControlWidth \in 1 .. IdSpace
    /\ \A e \in Entities : get_control_bitflags(e) \subseteq ControlBits
    /\ Arguments \subseteq Words

VARIABLES roles,                            \* address -> id
          role_permissions,                 \* entity -> permissions
          committee_initialization_blocked

daoVars == <<roles, role_permissions, committee_initialization_blocked>>

\* The number of the entity in whose name an address acts.
acts(a) == roles[a].index

DaoInit ==
    /\ roles = [a \in Addresses |-> IF a = Deployer THEN all_roles[Owner] ELSE NullRole]
    /\ role_permissions =
         [e \in Entities |-> IF e = Owner THEN Permissions ELSE DrawnPermissions[e]]
    /\ committee_initialization_blocked = FALSE

-----------------------------------------------------------------------------
(***************************************************************************)
(* The checks and the external calls.                                      *)
(***************************************************************************)
\* MUTANT of controlledBy: the older modifier, which looks at the user's
\* present role only.
controlledByOld(sender, userRole, allowNullRole, newRole) ==
    (allowNullRole /\ userRole = NullRole) \/ acts(sender) \in userRole.controllers

controlledBy(sender, userRole, allowNullRole, newRole) ==
    /\ newRole.index \in Entities
    /\ (allowNullRole /\ userRole = NullRole) \/ acts(sender) \in userRole.controllers
    /\ acts(sender) \in all_roles[newRole.index].controllers

hasPermission(sender, p) == p \in role_permissions[acts(sender)]
canControl(controller, controlled) == controller.index \in controlled.controllers

\* The condition that is evaluated is the one of the sender's role.
MeetsCondition(sender, user) ==
    \A e \in Entities : roles[sender] = all_roles[e] => user \in Eligible[e]

assignRole(sender, user, role) ==
    /\ controlledBy(sender, roles[user], TRUE, role)
    /\ MeetsCondition(sender, user)
    /\ roles' = [roles EXCEPT ![user] = role]
    /\ UNCHANGED <<role_permissions, committee_initialization_blocked>>

revokeRole(sender, user, role) ==
    /\ controlledBy(sender, roles[user], FALSE, role)
    /\ roles[user] = role
    /\ roles' = [roles EXCEPT ![user] = NullRole]
    /\ UNCHANGED <<role_permissions, committee_initialization_blocked>>

\* MUTANT of grantPermission: whoever controls the entity may grant anything.
grantPermissionUnheld(sender, role, p) ==
    /\ canControl(roles[sender], role)
    /\ role.index \in Entities
    /\ role_permissions' = [role_permissions EXCEPT ![role.index] = @ \cup {p}]
    /\ UNCHANGED <<roles, committee_initialization_blocked>>

\* The control bits are read from the argument, and a number beyond the array
\* makes the call revert.
grantPermission(sender, role, p) ==
    /\ hasPermission(sender, p)
    /\ canControl(roles[sender], role)
    /\ role.index \in Entities
    /\ role_permissions' = [role_permissions EXCEPT ![role.index] = @ \cup {p}]
    /\ UNCHANGED <<roles, committee_initialization_blocked>>

revokePermission(sender, role, p) ==
    /\ hasPermission(sender, p)
    /\ canControl(roles[sender], role)
    /\ role.index \in Entities
    /\ role_permissions' = [role_permissions EXCEPT ![role.index] = @ \ {p}]
    /\ UNCHANGED <<roles, committee_initialization_blocked>>

\* MUTANT of initializeCommittees: nobody asks who the sender is.
initializeCommitteesByAnyone(sender, seats) ==
    /\ NumCommittees > 0 /\ ~committee_initialization_blocked
    /\ roles' = [a \in Addresses |->
                   IF \E c \in CommitteeIndexes : seats[c] = a
                     THEN all_roles[CHOOSE c \in CommitteeIndexes : seats[c] = a]
                     ELSE roles[a]]
    /\ committee_initialization_blocked' = TRUE
    /\ UNCHANGED role_permissions

\* The ids given to the committees' contracts are those of the entities with
\* the numbers of the committees among themselves.  Each committee is a
\* contract of its own, so no address occurs twice in seats.
initializeCommittees(sender, seats) ==
    /\ roles[sender] = all_roles[Owner]
    /\ NumCommittees > 0 /\ ~committee_initialization_blocked
    /\ roles' = [a \in Addresses |->
                   IF \E c \in CommitteeIndexes : seats[c] = a
                     THEN all_roles[CHOOSE c \in CommitteeIndexes : seats[c] = a]
                     ELSE roles[a]]
    /\ committee_initialization_blocked' = TRUE
    /\ UNCHANGED role_permissions

Seatings ==
    {seats \in [CommitteeIndexes -> Addresses] :
        \A c, d \in CommitteeIndexes : seats[c] = seats[d] => c = d}

DaoNext ==
    \E sender \in Addresses :
        \/ \E user \in Addresses, role \in Arguments :
              assignRole(sender, user, role) \/ revokeRole(sender, user, role)
        \/ \E role \in Arguments, p \in Permissions :
              grantPermission(sender, role, p) \/ revokePermission(sender, role, p)
        \/ \E seats \in Seatings : initializeCommittees(sender, seats)

DaoSpec == DaoInit /\ [][DaoNext]_daoVars

-----------------------------------------------------------------------------
(***************************************************************************)
(* Properties.                                                             *)
(***************************************************************************)
\* The number in every stored word is one of an entity, so that no lookup
\* under an address's number leaves an array of the contract, whatever words
\* the callers passed (controlledBy looks at the new role's number).
DaoTypeOK ==
    /\ roles \in [Addresses -> Storable]
    /\ role_permissions \in [Entities -> SUBSET Permissions]
    /\ committee_initialization_blocked \in BOOLEAN

\* A line of control is vacant when no address acts for a member of it.  An
\* address without a role acts as entity 0, so a line with entity 0 in it is
\* not counted: anybody outside the DAO speaks for it.
Vacant(L) == 0 \notin L /\ \A a \in Addresses : acts(a) \notin L

\* A line of control nobody acts for stays without members for good: no
\* sequence of assignments, revocations and the seating of the committees,
\* by whichever accounts, brings one back.  In particular a DAO whose last
\* owner is gone never has an owner again (the modifier controlledBy).
StayVacant == \A L \in Lines : Vacant(L) => Vacant(L)'
VacantLinesStayVacant == [][StayVacant]_daoVars

\* An address whose stored control bits name nobody outside a vacant line
\* keeps its word for good, also one that was stored without any control bit:
\* neither a revocation nor a new assignment nor the seating of the
\* committees takes it away (controlledBy, initializeCommittees).
TenureStays ==
    \A L \in Lines, a \in Addresses :
        L # {} /\ Vacant(L)
        /\ roles[a] # NullRole
        /\ (roles[a].controllers \cap Entities) \subseteq L
          => roles'[a] = roles[a]
TenureIsForLife == [][TenureStays]_daoVars

\* Whoever acts for the owner passes every check of revokeRole for every
\* address that holds a declared id: the control bits in the stored word and
\* those of the entity whose number is read from it agree on the owner, also
\* for the last id of a DAO whose numbers do not all fit (controlledBy looks
\* at both).  A word that a controller stored without the owner's bit is not
\* a declared id and is out of the owner's reach.
OwnerReachesDeclaredIds ==
    \A o, a \in Addresses :
        acts(o) = Owner /\ roles[a] \in Ids
          => controlledBy(o, roles[a], FALSE, roles[a])

\* A permission is lost to a line of control when nobody acts for a member of
\* the line and no entity outside the line holds the permission.
Lost(L, p) ==
    /\ Vacant(L)
    /\ \A e \in Entities : p \in role_permissions[e] => e \in L

\* A lost permission stays lost, and stays where it is: whatever words the
\* callers pass, nobody can grant it, take it away or get back to a role that
\* could (hasPermission, controlledBy).  In particular a permission nobody
\* holds any more never comes back.
StayLost ==
    \A L \in Lines, p \in Permissions :
        Lost(L, p)
          => /\ Lost(L, p)'
             /\ \A e \in Entities :
                    p \in role_permissions'[e] <=> p \in role_permissions[e]
LostPowersStayLost == [][StayLost]_daoVars

\* When the committees are initialized each of them gets the id of its own,
\* as the comment behind each of the emitted assignments names it
\* (generate_committee_initialization_function).
CommitteesGetTheirOwnIds ==
    [][~committee_initialization_blocked /\ committee_initialization_blocked'
         => \A c \in CommitteeIndexes :
               \E a \in Addresses : roles'[a] = all_roles[NumRoles + c]]_daoVars
=============================================================================
