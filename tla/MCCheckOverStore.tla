-------------------------- MODULE MCCheckOverStore --------------------------
(* The edit permission of the drive sample and the three tuples that make  *)
(* it hold for user:1, in the memory store's index order:                  *)
(*                                                                         *)
(*   entity organization { relation admin @user }                          *)
(*   entity doc { relation org @organization  relation owner @user         *)
(*                permission edit = owner and org.admin }                  *)
EXTENDS CheckOverStore

User1 == [type |-> "user", id |-> "1", relation |-> ""]
Doc1 == [type |-> "doc", id |-> "1"]
Org1 == [type |-> "organization", id |-> "1"]

EditSchema ==
  [ user |-> [relations |-> {}, permissions |-> <<>>],
    organization |-> [relations |-> {"admin"}, permissions |-> <<>>],
    doc |-> [relations |-> {"org", "owner"},
             permissions |-> [ edit |->
               [kind |-> "intersection",
                children |-> << [kind |-> "cu", rel |-> "owner", excl |-> FALSE],
                                [kind |-> "ttu", ts |-> "org", comp |-> "admin", excl |-> FALSE] >>] ]] ]

OwnerTuple == [entity |-> Doc1, relation |-> "owner", subject |-> User1]
OrgTuple == [entity |-> Doc1, relation |-> "org",
             subject |-> [type |-> "organization", id |-> "1", relation |-> "..."]]
AdminTuple == [entity |-> Org1, relation |-> "admin", subject |-> User1]

EditTuples == {OwnerTuple, OrgTuple, AdminTuple}
EditOrder == <<OrgTuple, AdminTuple, OwnerTuple>>
EditQueries == {[entity |-> Doc1, name |-> "edit", subject |-> User1]}

=============================================================================
