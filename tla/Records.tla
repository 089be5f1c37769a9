------------------------------ MODULE Records ------------------------------
(***************************************************************************)
(* The records user-service keeps in one database and serves from one set  *)
(* of handlers: tenants, the addresses and KYC documents of users, and     *)
(* commission configurations.                                              *)
(***************************************************************************)
EXTENDS Tenants, Profile, Commissions

records == <<vars, profileVars, commissionVars>>

RecordsInit == Init /\ ProfileInit /\ CommissionsInit

tenantVars == <<tenants, audit, history>>

TenantRecords ==
    /\ \E h \in Handler : Register(h) \/ ReviewTenant(h)
    /\ UNCHANGED <<profileVars, commissionVars>>

AddressRecords == AddressStep /\ UNCHANGED <<tenantVars, commissionVars>>

KycRecords == KycStep /\ UNCHANGED <<tenantVars, commissionVars>>

CommissionRecords == CommissionsStep /\ UNCHANGED <<tenantVars, profileVars>>

AnyFails == \E h \in Handler : Fail(h) /\ UNCHANGED <<profileVars, commissionVars>>

RecordsNext ==
    TenantRecords \/ AddressRecords \/ KycRecords \/ CommissionRecords \/ AnyFails

RecordsSpec == RecordsInit /\ [][RecordsNext]_records

RecordsTypeOK ==
    /\ pc \in [Handler -> {"idle", "slug", "insert", "approve", "reject", "clear",
                           "default", "unset", "remove", "accept", "refuse",
                           "tenant", "tenant_type", "platform", "resolved", "change"}]
    /\ \A h \in Handler : pc[h] = "idle" <=> task[h] = Nothing
    /\ TypeOK /\ ProfileTypeOK /\ CommissionsTypeOK

=============================================================================
