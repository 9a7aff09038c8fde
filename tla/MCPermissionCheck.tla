-------------------------- MODULE MCPermissionCheck --------------------------
(* The drive sample of check_test.go reduced to documents and             *)
(* organizations, with organization membership nested through usersets    *)
(* that form a cycle (organization:1#member and organization:2#member      *)
(* include each other).                                                    *)
(*                                                                         *)
(*   entity organization { relation admin @user                            *)
(*                         relation member @user @organization#member }    *)
(*   entity doc { relation org @organization  relation owner @user         *)
(*                permission read = owner or org.admin                     *)
(*                permission view = owner or org.member                    *)
(*                permission edit = owner and org.admin                    *)
(*                relation parent @organization                            *)
(*                permission share = org.member and not parent.member }    *)
EXTENDS PermissionCheck

CU(r) == [kind |-> "cu", rel |-> r, excl |-> FALSE]
TTU(ts, c) == [kind |-> "ttu", ts |-> ts, comp |-> c, excl |-> FALSE]
NotTTU(ts, c) == [kind |-> "ttu", ts |-> ts, comp |-> c, excl |-> TRUE]
Union(a, b) == [kind |-> "union", children |-> <<a, b>>]
Inter(a, b) == [kind |-> "intersection", children |-> <<a, b>>]

DriveSchema ==
  [ user |-> [relations |-> {}, permissions |-> <<>>],
    organization |-> [relations |-> {"admin", "member"}, permissions |-> <<>>],
    doc |-> [relations |-> {"org", "owner", "parent"},
             permissions |-> [ read |-> Union(CU("owner"), TTU("org", "admin")),
                               view |-> Union(CU("owner"), TTU("org", "member")),
                               edit |-> Inter(CU("owner"), TTU("org", "admin")),
                               share |-> Inter(TTU("org", "member"), NotTTU("parent", "member")) ]] ]

User(i) == [type |-> "user", id |-> i, relation |-> ""]
Ent(ty, i) == [type |-> ty, id |-> i]
Ref(ty, i, r) == [type |-> ty, id |-> i, relation |-> r]
Tup(e, r, s) == [entity |-> e, relation |-> r, subject |-> s]

DriveTuples ==
  { Tup(Ent("doc", "1"), "owner", User("2")),
    Tup(Ent("doc", "1"), "owner", User("1")),
    Tup(Ent("doc", "1"), "org", Ref("organization", "1", Ellipsis)),
    Tup(Ent("organization", "1"), "admin", User("1")),
    Tup(Ent("organization", "1"), "member", Ref("organization", "2", "member")),
    Tup(Ent("organization", "2"), "member", Ref("organization", "1", "member")),
    Tup(Ent("organization", "2"), "member", User("1")),
    Tup(Ent("organization", "2"), "admin", User("2")),
    Tup(Ent("doc", "1"), "parent", Ref("organization", "2", Ellipsis)) }

DriveQueries ==
  { [entity |-> Ent("doc", "1"), name |-> p, subject |-> User(u)] :
      p \in {"read", "view", "edit", "share"}, u \in {"1", "2"} }

=============================================================================
