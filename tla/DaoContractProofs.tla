------------------------- MODULE DaoContractProofs -------------------------
(***************************************************************************)
(* Proofs about DaoContract for every diagram and every set of accounts.   *)
(*                                                                         *)
(* The callers' words are any set of words of the ids' type: nothing here  *)
(* depends on their being declared.  Three facts carry everything: the     *)
(* contract's own ids have a number of an entity and the owner's bit       *)
(* (IdFacts); the bits stored for a member of a line of control lie inside *)
(* the line (FlagsStayInLine); and a non-empty line has the owner in it    *)
(* (OwnerIsInEveryLine).  The type invariant is the only inductive         *)
(* invariant that is needed.                                               *)
(***************************************************************************)
EXTENDS DaoContract, TLAPS

\* The owner is an entity and its number needs no bit beyond an id's.
LEMMA OwnerFacts ==
    /\ Owner \in Entities
    /\ Owner \in Nat
    /\ Owner < IdSpace
    /\ Owner \in controllers(Owner)
    /\ 0 \in Entities
<1>1. Owner \in Entities /\ Owner \in Nat /\ 0 \in Entities
  BY DaoAssumption DEF Entities, Owner, NumRoles
<1>2. Owner \in controllers(Owner)
  BY DEF controllers
<1>3. Owner \in get_control_bitflags(Owner)
  BY <1>2 DEF get_control_bitflags
<1>4. Owner \in ControlBits
  BY <1>1, <1>3, DaoAssumption
<1> QED
  BY <1>1, <1>2, <1>4, DaoAssumption DEF ControlBits

\* The generator adds the owner to the controllers of every entity.
LEMMA ControllersFacts ==
    ASSUME NEW e \in Entities
    PROVE  controllers(e) \subseteq Entities /\ Owner \in controllers(e)
<1>1. CASE e = Owner
  BY <1>1, OwnerFacts DEF controllers
<1>2. CASE e # Owner
  <2>1. e \in Drawn
    BY <1>2 DEF Drawn
  <2>2. DrawnControllers[e] \subseteq Entities
    BY <2>1, DaoAssumption DEF Drawn
  <2> QED
    BY <1>2, <2>2, OwnerFacts DEF controllers
<1> QED
  BY <1>1, <1>2

\* The lines of control.
LEMMA LinesFacts ==
    ASSUME NEW L \in Lines
    PROVE  L \in SUBSET Entities /\ IsLine(L)
  BY DEF Lines

\* A non-empty line of control contains the owner.
LEMMA OwnerIsInEveryLine ==
    ASSUME NEW L \in SUBSET Entities, IsLine(L), NEW e \in L
    PROVE  Owner \in L
<1>1. e \in Entities
  OBVIOUS
<1> QED
  BY <1>1, ControllersFacts DEF IsLine

\* The control bits of an entity: some entities, the owner among them.
LEMMA FlagsFacts ==
    ASSUME NEW e \in Entities
    PROVE  get_control_bitflags(e) \subseteq Entities /\ Owner \in get_control_bitflags(e)
<1>1. controllers(e) \subseteq Entities /\ Owner \in controllers(e)
  BY ControllersFacts
<1>2. CASE ~Transitive
  BY <1>1, <1>2 DEF get_control_bitflags
<1>3. CASE Transitive
  <2>1. get_control_bitflags(e) = descendants(e) \cup (controllers(e) \cap {e})
    BY <1>3 DEF get_control_bitflags
  <2>2. descendants(e) \subseteq Entities
    BY DEF descendants
  <2>3. CASE e = Owner
    BY <1>1, <2>1, <2>2, <2>3
  <2>4. CASE e # Owner
    <3>1. \A L \in Lines : controllers(e) \subseteq L => Owner \in L
      BY <1>1
    <3>2. Owner \in descendants(e)
      BY <2>4, <3>1, OwnerFacts DEF descendants
    <3> QED
      BY <1>1, <2>1, <2>2, <3>2
  <2> QED
    BY <2>3, <2>4
<1> QED
  BY <1>2, <1>3

\* The control bits of a member of a line lie inside the line, with and
\* without hierarchical inheritance.
LEMMA FlagsStayInLine ==
    ASSUME NEW L \in SUBSET Entities, IsLine(L), NEW e \in L
    PROVE  get_control_bitflags(e) \subseteq L
<1>1. controllers(e) \subseteq L
  BY DEF IsLine
<1>2. CASE ~Transitive
  BY <1>1, <1>2 DEF get_control_bitflags
<1>3. CASE Transitive
  <2>1. L \in Lines
    BY DEF Lines
  <2>2. descendants(e) \subseteq L
    BY <1>1, <2>1 DEF descendants
  <2> QED
    BY <1>1, <1>3, <2>2 DEF get_control_bitflags
<1> QED
  BY <1>2, <1>3

\* What a mask and a shift read from the contract's own ids.
LEMMA IdFacts ==
    ASSUME NEW e \in Entities
    PROVE  /\ all_roles[e] \in Storable
           /\ Owner \in all_roles[e].controllers
<1>1. all_roles[e] = [index       |-> IF e < IdSpace THEN e ELSE e - IdSpace,
                      controllers |-> get_control_bitflags(e)
                                        \cup (IF e < IdSpace THEN {} ELSE {0})]
  BY DEF all_roles
<1>2. e \in Nat /\ e <= DrawnRoles + NumCommittees
  BY DaoAssumption DEF Entities, NumRoles
<1>3. all_roles[e].index \in Entities /\ all_roles[e].index \in 0 .. IdSpace - 1
  <2>1. CASE e < IdSpace
    BY <1>1, <1>2, <2>1, DaoAssumption
  <2>2. CASE ~(e < IdSpace)
    <3>1. e = IdSpace
      BY <1>2, <2>2, DaoAssumption
    <3>2. all_roles[e].index = 0
      BY <1>1, <3>1, DaoAssumption
    <3> QED
      BY <3>2, OwnerFacts, DaoAssumption
  <2> QED
    BY <2>1, <2>2
<1>4. Owner \in get_control_bitflags(e)
  BY FlagsFacts
<1>5. all_roles[e].controllers \subseteq ControlBits
  <2>1. 0 \in ControlBits
    BY DaoAssumption DEF ControlBits
  <2>2. get_control_bitflags(e) \subseteq ControlBits
    BY DaoAssumption
  <2> QED
    BY <1>1, <2>1, <2>2
<1>6. all_roles[e] \in Words
  BY <1>1, <1>3, <1>5 DEF Words
<1> QED
  BY <1>1, <1>3, <1>4, <1>6 DEF Storable

\* The control bits the contract itself stores for a number below the fields'
\* limit are those of the entity.
LEMMA StoredFlags ==
    ASSUME NEW w \in Storable
    PROVE  all_roles[w.index].controllers = get_control_bitflags(w.index)
<1>1. w.index \in Entities /\ w.index \in 0 .. IdSpace - 1
  BY DEF Storable, Words
<1>2. w.index < IdSpace
  BY <1>1, DaoAssumption
<1>3. all_roles[w.index] = [index |-> w.index,
                            controllers |-> get_control_bitflags(w.index) \cup {}]
  BY <1>1, <1>2 DEF all_roles
<1> QED
  BY <1>3

\* The owner's id, and the word of an address without a role.
LEMMA OwnerIdFacts ==
    /\ all_roles[Owner] \in Storable
    /\ all_roles[Owner].index = Owner
    /\ NullRole \in Storable
    /\ NullRole \notin Ids
<1>1. all_roles[Owner] \in Storable
  BY OwnerFacts, IdFacts
<1>2. all_roles[Owner].index = Owner
  BY OwnerFacts DEF all_roles
<1>3. NullRole \in Storable
  BY OwnerFacts, DaoAssumption DEF NullRole, Storable, Words
<1>4. \A e \in Entities : all_roles[e] # NullRole
  BY IdFacts DEF NullRole
<1> QED
  BY <1>1, <1>2, <1>3, <1>4 DEF Ids

\* What the modifier lets an assignment store.
LEMMA AssignedFacts ==
    ASSUME NEW role \in Arguments, NEW sender, NEW old, NEW allow,
           controlledBy(sender, old, allow, role)
    PROVE  role \in Storable
  BY DaoAssumption DEF controlledBy, Storable
-----------------------------------------------------------------------------
(***************************************************************************)
(* The type invariant.                                                     *)
(***************************************************************************)
LEMMA InitTyped ==
    DaoInit => DaoTypeOK
<1> SUFFICES ASSUME DaoInit PROVE DaoTypeOK
  OBVIOUS
<1>1. roles \in [Addresses -> Storable]
  BY OwnerIdFacts DEF DaoInit
<1>2. role_permissions \in [Entities -> SUBSET Permissions]
  BY DaoAssumption DEF DaoInit, Drawn
<1> QED
  BY <1>1, <1>2 DEF DaoInit, DaoTypeOK

\* The ids the committees are seated with are the contract's own.
LEMMA SeatedFacts ==
    ASSUME NEW seats, NEW a, \E c \in CommitteeIndexes : seats[c] = a
    PROVE  all_roles[CHOOSE c \in CommitteeIndexes : seats[c] = a] \in Storable
<1>1. (CHOOSE c \in CommitteeIndexes : seats[c] = a) \in CommitteeIndexes
  OBVIOUS
<1>2. CommitteeIndexes \subseteq Entities
  BY DaoAssumption DEF CommitteeIndexes, Entities, NumRoles
<1> QED
  BY <1>1, <1>2, IdFacts

LEMMA StepTyped ==
    DaoTypeOK /\ [DaoNext]_daoVars => DaoTypeOK'
<1> SUFFICES ASSUME DaoTypeOK, [DaoNext]_daoVars PROVE DaoTypeOK'
  OBVIOUS
<1> USE DEF DaoTypeOK
<1>1. ASSUME NEW sender \in Addresses, NEW user \in Addresses, NEW role \in Arguments,
             assignRole(sender, user, role)
      PROVE  DaoTypeOK'
  <2>1. role \in Storable
    BY <1>1, AssignedFacts DEF assignRole
  <2> QED
    BY <1>1, <2>1 DEF assignRole
<1>2. ASSUME NEW sender \in Addresses, NEW user \in Addresses, NEW role \in Arguments,
             revokeRole(sender, user, role)
      PROVE  DaoTypeOK'
  BY <1>2, OwnerIdFacts DEF revokeRole
<1>3. ASSUME NEW sender \in Addresses, NEW role \in Arguments, NEW p \in Permissions,
             grantPermission(sender, role, p)
      PROVE  DaoTypeOK'
  BY <1>3 DEF grantPermission
<1>4. ASSUME NEW sender \in Addresses, NEW role \in Arguments, NEW p \in Permissions,
             revokePermission(sender, role, p)
      PROVE  DaoTypeOK'
  BY <1>4 DEF revokePermission
<1>5. ASSUME NEW sender \in Addresses, NEW seats \in Seatings,
             initializeCommittees(sender, seats)
      PROVE  DaoTypeOK'
  <2>1. roles' \in [Addresses -> Storable]
    BY <1>5, SeatedFacts DEF initializeCommittees
  <2> QED
    BY <1>5, <2>1 DEF initializeCommittees
<1>6. CASE UNCHANGED daoVars
  BY <1>6 DEF daoVars
<1> QED
  BY <1>1, <1>2, <1>3, <1>4, <1>5, <1>6 DEF DaoNext

\* Whatever words the callers pass, the number of every stored one is an
\* entity's (the storage of the permission manager, controlledBy).
THEOREM DaoTyped == DaoSpec => []DaoTypeOK
  BY InitTyped, StepTyped, PTL DEF DaoSpec
-----------------------------------------------------------------------------
(***************************************************************************)
(* Lines of control.                                                       *)
(***************************************************************************)
\* Nobody outside a line passes the modifier for a number inside it.
LEMMA OutsidersDoNotAppoint ==
    ASSUME NEW L \in Lines, Vacant(L),
           NEW sender \in Addresses, NEW role \in Arguments, NEW old, NEW allow,
           controlledBy(sender, old, allow, role)
    PROVE  role.index \notin L
<1>1. role \in Storable
  BY AssignedFacts
<1>2. acts(sender) \in get_control_bitflags(role.index)
  BY <1>1, StoredFlags DEF controlledBy
<1>3. acts(sender) \notin L
  BY DEF Vacant
<1> QED
  BY <1>2, <1>3, FlagsStayInLine, LinesFacts

\* In a vacant line of control nobody can pose as the owner.
LEMMA NoOwnerForVacantLine ==
    ASSUME NEW L \in Lines, Vacant(L),
           NEW sender \in Addresses, roles[sender] = all_roles[Owner]
    PROVE  L = {}
<1>1. acts(sender) = Owner
  BY OwnerIdFacts DEF acts
<1>2. Owner \notin L
  BY <1>1 DEF Vacant
<1> QED
  BY <1>2, OwnerIsInEveryLine, LinesFacts

LEMMA VacantStep ==
    ASSUME DaoTypeOK, [DaoNext]_daoVars, NEW L \in Lines, Vacant(L)
    PROVE  Vacant(L)'
<1>1. ASSUME NEW sender \in Addresses, NEW user \in Addresses, NEW role \in Arguments,
             assignRole(sender, user, role)
      PROVE  Vacant(L)'
  <2>1. role.index \notin L
    BY <1>1, OutsidersDoNotAppoint DEF assignRole
  <2>2. \A a \in Addresses : roles'[a] = IF a = user THEN role ELSE roles[a]
    BY <1>1 DEF assignRole, DaoTypeOK
  <2> QED
    BY <2>1, <2>2 DEF Vacant, acts
<1>2. ASSUME NEW sender \in Addresses, NEW user \in Addresses, NEW role \in Arguments,
             revokeRole(sender, user, role)
      PROVE  Vacant(L)'
  <2>1. \A a \in Addresses : roles'[a] = IF a = user THEN NullRole ELSE roles[a]
    BY <1>2 DEF revokeRole, DaoTypeOK
  <2>2. NullRole.index \notin L
    BY DEF NullRole, Vacant
  <2> QED
    BY <2>1, <2>2 DEF Vacant, acts
<1>3. ASSUME roles' = roles PROVE Vacant(L)'
  BY <1>3 DEF Vacant, acts
<1>4. ASSUME NEW sender \in Addresses, NEW seats \in Seatings,
             initializeCommittees(sender, seats)
      PROVE  Vacant(L)'
  <2>1. L = {}
    BY <1>4, NoOwnerForVacantLine DEF initializeCommittees
  <2> QED
    BY <2>1 DEF Vacant
<1> QED
  BY <1>1, <1>2, <1>3, <1>4
     DEF DaoNext, grantPermission, revokePermission, daoVars

\* A line of control without members never gets one back, whoever calls what
\* with which words in whichever order (controlledBy, initializeCommittees).
THEOREM VacantLinesAreForGood == DaoSpec => VacantLinesStayVacant
<1>1. DaoTypeOK /\ [DaoNext]_daoVars => [StayVacant]_daoVars
  BY VacantStep DEF StayVacant
<1> QED
  BY <1>1, DaoTyped, PTL DEF DaoSpec, VacantLinesStayVacant
-----------------------------------------------------------------------------
\* Nobody outside a line takes a word away whose control bits lie inside it.
LEMMA TenureStep ==
    ASSUME DaoTypeOK, [DaoNext]_daoVars,
           NEW L \in Lines, NEW a \in Addresses,
           L # {}, Vacant(L), roles[a] # NullRole,
           (roles[a].controllers \cap Entities) \subseteq L
    PROVE  roles'[a] = roles[a]
<1>1. ASSUME NEW sender \in Addresses, NEW allow, NEW role,
             controlledBy(sender, roles[a], allow, role)
      PROVE  FALSE
  <2>1. acts(sender) \in roles[a].controllers
    BY <1>1 DEF controlledBy
  <2>2. acts(sender) \in Entities
    BY DEF acts, DaoTypeOK, Storable
  <2> QED
    BY <2>1, <2>2 DEF Vacant
<1>2. ASSUME NEW sender \in Addresses, NEW user \in Addresses, NEW role \in Arguments,
             assignRole(sender, user, role)
      PROVE  roles'[a] = roles[a]
  BY <1>1, <1>2 DEF assignRole, DaoTypeOK
<1>3. ASSUME NEW sender \in Addresses, NEW user \in Addresses, NEW role \in Arguments,
             revokeRole(sender, user, role)
      PROVE  roles'[a] = roles[a]
  BY <1>1, <1>3 DEF revokeRole, DaoTypeOK
<1>4. ASSUME NEW sender \in Addresses, NEW seats \in Seatings,
             initializeCommittees(sender, seats)
      PROVE  FALSE
  BY <1>4, NoOwnerForVacantLine DEF initializeCommittees
<1> QED
  BY <1>2, <1>3, <1>4 DEF DaoNext, grantPermission, revokePermission, daoVars

\* An address whose stored control bits reach nobody outside a vacant line
\* keeps its word for good (controlledBy, initializeCommittees).
THEOREM TenureHolds == DaoSpec => TenureIsForLife
<1>1. DaoTypeOK /\ [DaoNext]_daoVars => [TenureStays]_daoVars
  BY TenureStep DEF TenureStays
<1> QED
  BY <1>1, DaoTyped, PTL DEF DaoSpec, TenureIsForLife
-----------------------------------------------------------------------------
\* Whoever acts for the owner can take a declared id away from anybody, also
\* in a DAO whose last number does not fit the ids (controlledBy).
THEOREM OwnerReachesIds == DaoSpec => []OwnerReachesDeclaredIds
<1>1. DaoTypeOK => OwnerReachesDeclaredIds
  <2> SUFFICES ASSUME DaoTypeOK,
                      NEW o \in Addresses, NEW a \in Addresses,
                      acts(o) = Owner, roles[a] \in Ids
               PROVE  controlledBy(o, roles[a], FALSE, roles[a])
    BY DEF OwnerReachesDeclaredIds
  <2>1. roles[a] \in Storable /\ roles[a].index \in Entities
    BY DEF DaoTypeOK, Storable
  <2>2. Owner \in roles[a].controllers
    BY IdFacts DEF Ids
  <2>3. Owner \in get_control_bitflags(roles[a].index)
    BY <2>1, FlagsFacts
  <2> QED
    BY <2>1, <2>2, <2>3, StoredFlags DEF controlledBy
<1> QED
  BY <1>1, DaoTyped, PTL
-----------------------------------------------------------------------------
(***************************************************************************)
(* Permissions.                                                            *)
(***************************************************************************)
\* Nobody is left to grant or to take away a permission that is lost.
LEMMA LostStep ==
    ASSUME DaoTypeOK, [DaoNext]_daoVars,
           NEW L \in Lines, NEW p \in Permissions, Lost(L, p)
    PROVE  /\ Lost(L, p)'
           /\ \A e \in Entities : p \in role_permissions'[e] <=> p \in role_permissions[e]
<1>1. ASSUME NEW sender \in Addresses, hasPermission(sender, p)
      PROVE  FALSE
  <2>1. acts(sender) \in Entities
    BY DEF acts, DaoTypeOK, Storable
  <2>2. acts(sender) \in L
    BY <1>1, <2>1 DEF Lost, hasPermission
  <2> QED
    BY <2>2 DEF Lost, Vacant
<1>2. Vacant(L)'
  BY VacantStep DEF Lost
<1>3. \A e \in Entities : p \in role_permissions'[e] <=> p \in role_permissions[e]
  <2>1. ASSUME NEW sender \in Addresses, NEW role \in Arguments, NEW q \in Permissions,
               grantPermission(sender, role, q)
        PROVE  \A e \in Entities : p \in role_permissions'[e] <=> p \in role_permissions[e]
    <3>1. q # p
      BY <1>1, <2>1 DEF grantPermission
    <3> QED
      BY <2>1, <3>1 DEF grantPermission, DaoTypeOK
  <2>2. ASSUME NEW sender \in Addresses, NEW role \in Arguments, NEW q \in Permissions,
               revokePermission(sender, role, q)
        PROVE  \A e \in Entities : p \in role_permissions'[e] <=> p \in role_permissions[e]
    <3>1. q # p
      BY <1>1, <2>2 DEF revokePermission
    <3> QED
      BY <2>2, <3>1 DEF revokePermission, DaoTypeOK
  <2>3. ASSUME role_permissions' = role_permissions
        PROVE  \A e \in Entities : p \in role_permissions'[e] <=> p \in role_permissions[e]
    BY <2>3
  <2> QED
    BY <2>1, <2>2, <2>3
       DEF DaoNext, assignRole, revokeRole, initializeCommittees, daoVars
<1>4. Lost(L, p)'
  BY <1>2, <1>3 DEF Lost
<1> QED
  BY <1>3, <1>4

\* A permission that only a vacant line holds, or nobody, stays where it is
\* for good, whatever control bits the callers pass (hasPermission).
THEOREM LostPowersAreForGood == DaoSpec => LostPowersStayLost
<1>1. DaoTypeOK /\ [DaoNext]_daoVars => [StayLost]_daoVars
  BY LostStep DEF StayLost
<1> QED
  BY <1>1, DaoTyped, PTL DEF DaoSpec, LostPowersStayLost
=============================================================================
