------------------------------ MODULE MCRouting ------------------------------
(***************************************************************************)
(* RoutingCases on every organisation of three people, one of whom may     *)
(* report to somebody the master lacks. One of them claims: only the       *)
(* choice of who verifies for Finance looks at the order of the codes.     *)
(*                                                                         *)
(* The matrix is rev4's with the bands' widths squeezed: what matters of a *)
(* value is which band's bounds it lies between, and claims come in paise, *)
(* so that 5, 10 and 15 stand for 25000.50, 75000.50 and 200000.50.        *)
(***************************************************************************)
EXTENDS RoutingCases

SqueezedMatrix ==
    <<[min |-> 0, max |-> 4, roles |-> <<"Reporting Manager">>],
      [min |-> 6, max |-> 9, roles |-> <<"Reporting Manager", "Head of Department">>],
      [min |-> 11, max |-> 14,
       roles |-> <<"Reporting Manager", "Head of Department", "Head of Division">>],
      [min |-> 16, max |-> NoMax, roles |-> FullChain]>>

People == {1, 2, 3}
Middle == {2}
Strangers == {9}
PeoplesRoles == {"Reporting Manager", "Head of Department", "Finance"}
SqueezedValues == {0, 4, 5, 6, 11, 16}
=============================================================================
