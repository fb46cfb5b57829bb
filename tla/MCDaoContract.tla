--------------------------- MODULE MCDaoContract ---------------------------
(***************************************************************************)
(* A DAO with two drawn roles, the owner (number 2) and a committee        *)
(* (number 3): the committee controls role 1 and role 1 controls role 0,   *)
(* with hierarchical inheritance.                                          *)
(*                                                                         *)
(* Callers pass the declared ids and, beside them, no role, an id without  *)
(* control bits, one with the bit of role 0 alone, one with the bits of    *)
(* all entities, and one whose number no entity has.                       *)
(***************************************************************************)
EXTENDS DaoContract, TLC

CONSTANTS deployer, bob, carol

SmallControllers == (0 :> {1}) @@ (1 :> {3}) @@ (3 :> {})
SmallPermissions == (0 :> {}) @@ (1 :> {"manage"}) @@ (3 :> {"vote"})
SmallEligible == [e \in 0 .. 3 |-> IF e = 1 THEN {bob, carol} ELSE {deployer, bob, carol}]

SmallArguments ==
    Ids \cup {NullRole,
              [index |-> 1, controllers |-> {}],
              [index |-> 1, controllers |-> {0}],
              [index |-> 0, controllers |-> Entities],
              [index |-> IdSpace - 1, controllers |-> {2}]}

\* The accounts that did not deploy the contract are interchangeable.
Accounts == Permutations({bob, carol})
=============================================================================
