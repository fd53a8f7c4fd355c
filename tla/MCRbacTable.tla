---- MODULE MCRbacTable ----
(* Model checking of RbacTable: three roles in one cluster, one user in the *)
(* other, which has a role of the same name as well.                        *)
EXTENDS RbacTable, TLC

MCViews == {<<"c1", "Role">>, <<"c2", "User">>}
MCFirstView == <<"c1", "Role">>
MCColumnsOf == ("Role" :> {"rules"}) @@ ("User" :> {})
MCCells == "rules" :> <<2, 0, 1>>
MCStored == ("c1" :> [Role |-> {1, 2, 3}, User |-> {}]) @@
            ("c2" :> [Role |-> {1}, User |-> {1}])
MCFilters == {Names, {1, 3}}
====
