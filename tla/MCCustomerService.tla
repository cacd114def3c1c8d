------------------------- MODULE MCCustomerService -------------------------
(***************************************************************************)
(* Three calls, two at a time.  The guest known at the start is stored     *)
(* under the bare ten digits of p1; p2 is new, and also has an e-mail      *)
(* address.  Bill b1 is worth two points and takes one block of points,    *)
(* b2 is worth one and takes none.  Operations that share no table are not *)
(* mixed in one behaviour.                                                 *)
(***************************************************************************)
EXTENDS CustomerService, TLC

CONSTANTS c1, c2, c3, b1, b2, p1, p2

MCKeys == {<<p1, "canon">>, <<p1, "ten">>, <<p1, "dashed">>, <<p2, "canon">>, <<p2, "other">>}
MCSignInKeys == {<<p1, "canon">>, <<p2, "canon">>, <<p2, "other">>}
MCFirstKey == <<p1, "ten">>
MCLabels == {<<"home", "lower">>, <<"home", "upper">>, <<"work", "lower">>}
MCFirstLabel == <<"home", "lower">>
MCPrice == [b \in {b1, b2} |-> IF b = b1 THEN 5 ELSE 2]

MCMixes ==
  {{"onboard", "createUser", "staffLogin", "changePassword"},
   {"onboard", "createUser", "wallet"},
   {"send", "verify", "wallet"},
   {"login", "continue"},
   {"addPoints", "redeem", "wallet"},
   {"save", "saveAs", "deleteAddress"}}

MCSymmetry == Permutations(Calls)

=============================================================================
