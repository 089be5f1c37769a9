----------------------------- MODULE MCRecords -----------------------------
(***************************************************************************)
(* A small instance of Records for TLC.                                    *)
(***************************************************************************)
EXTENDS Records, TLC

\* "shop" and "shop-1", with 100 for the word: the plain slug of one is a
\* numbered slug of the other.
ShopSlugs == {<<100>>, <<100, 1>>}

Symmetry ==
    Permutations(Handler) \union Permutations(Owner) \union Permutations(User)
        \union Permutations(Tenant_id)

VARIABLE kind   \* the tables share no columns: a behaviour works on one kind

MCInit == RecordsInit /\ kind \in {"tenant", "address", "document", "commission"}

MCNext ==
    /\ UNCHANGED kind
    /\ \/ kind = "tenant" /\ TenantRecords
       \/ kind = "address" /\ AddressRecords
       \/ kind = "document" /\ KycRecords
       \/ kind = "commission" /\ CommissionRecords
       \/ AnyFails

MCSpec == MCInit /\ [][MCNext]_<<records, kind>>

\* Two requests for a commission only read, and do not meet.
OneAsks == Cardinality({h \in Handler : pc[h] \in Resolving}) <= 1

=============================================================================
