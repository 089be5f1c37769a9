------------------------------ MODULE Profile ------------------------------
(***************************************************************************)
(* The records that users of user-service keep beside their row: addresses *)
(* of which one may be the default, and KYC documents that an admin        *)
(* approves or rejects (domains/users/service.py, repository.py).          *)
(*                                                                         *)
(* A statement of PostgreSQL sees what was committed when it began, and an *)
(* UPDATE waits for the rows another transaction has written: the UPDATE   *)
(* that clears a user's defaults is two steps, the rows it finds and, with *)
(* the rest of its transaction, the commit.                                *)
(***************************************************************************)
EXTENDS Handlers, Naturals, Sequences, FiniteSets

CONSTANTS
    User,
    MaxAddresses,   \* bound: addresses ever added
    MaxDocuments,   \* bound: KYC documents ever uploaded
    MaxVerdicts     \* bound: KYC reviews ever committed

ASSUME ProfileAssumption ==
    MaxAddresses \in Nat /\ MaxDocuments \in Nat /\ MaxVerdicts \in Nat

VARIABLES
    addresses,  \* user_addresses, in the order of insertion; live: not deleted
    documents,  \* kyc_documents, in the order of insertion
    verdicts,   \* audit_logs: the reviews of KYC documents
    \* history, read by no guard:
    crossed,    \* users two of whose requests for a default were in flight together
    contested   \* documents that two reviews have worked on at the same time

profileHistory == <<crossed, contested>>
addressVars == <<addresses, crossed>>
kycVars == <<documents, verdicts, contested>>
profileVars == <<addressVars, kycVars>>

-----------------------------------------------------------------------------
(* Types *)

KycStatus == {"pending", "approved", "rejected"}

Address == [user: User, default: BOOLEAN, live: BOOLEAN]

\* reason: whether a rejection_reason is in the row, which no approval clears
Document == [user: User, status: KycStatus, reason: BOOLEAN]

Verdict == [document: 1 .. MaxDocuments, status: {"approved", "rejected"}]

\* row: the address to become the default, 0 for one to be added.
DefaultTask == [kind: {"default"}, user: User, row: 0 .. MaxAddresses,
                seen: SUBSET (1 .. MaxAddresses)]

AddressTask == [kind: {"address"}, row: 1 .. MaxAddresses, read: BOOLEAN]

VerdictTask == [kind: {"verdict"}, document: 1 .. MaxDocuments, read: KycStatus]

ProfileTypeOK ==
    /\ addresses \in Seq(Address) /\ Len(addresses) <= MaxAddresses
    /\ documents \in Seq(Document) /\ Len(documents) <= MaxDocuments
    /\ verdicts \in Seq(Verdict) /\ Len(verdicts) <= MaxVerdicts
    /\ crossed \subseteq User /\ contested \subseteq 1 .. MaxDocuments
    /\ \A h \in Handler :
         /\ pc[h] \in {"clear", "default"} => task[h] \in DefaultTask
         /\ pc[h] \in {"unset", "remove"} => task[h] \in AddressTask
         /\ pc[h] \in {"accept", "refuse"} => task[h] \in VerdictTask

ProfileInit ==
    /\ addresses = <<>> /\ documents = <<>> /\ verdicts = <<>>
    /\ crossed = {} /\ contested = {}

-----------------------------------------------------------------------------
(* Helpers *)

RowsOf(u) == {i \in 1 .. Len(addresses) : addresses[i].live /\ addresses[i].user = u}

Defaults(u) == {i \in RowsOf(u) : addresses[i].default}

\* Requests that have begun to make an address of u the default.
Defaulting(u) == {h \in Handler : pc[h] = "default" /\ task[h].user = u}

Judging(i) == {h \in Handler : pc[h] \in {"accept", "refuse"} /\ task[h].document = i}

-----------------------------------------------------------------------------
(* POST, PATCH and DELETE /users/me/addresses *)

AddPlain(u) ==
    /\ Len(addresses) < MaxAddresses
    /\ addresses' = Append(addresses, [user |-> u, default |-> FALSE, live |-> TRUE])
    /\ UNCHANGED <<pc, task, crossed, kycVars>>

AddDefault(h, u) ==
    /\ Start(h, "clear", [kind |-> "default", user |-> u, row |-> 0, seen |-> {}])
    /\ UNCHANGED profileVars

\* A request names an address, which is to be the default, no longer to be
\* it, or to be deleted; another user's is not found.
ReadAddress(h, u, i, stage) ==
    /\ i \in RowsOf(u)
    /\ Start(h, stage,
             IF stage = "clear"
               THEN [kind |-> "default", user |-> u, row |-> i, seen |-> {}]
               ELSE [kind |-> "address", row |-> i, read |-> addresses[i].default])
    /\ UNCHANGED profileVars

\* Mutant: only the row that is to be the default is looked at.
ClearDefaultOfRow(h) ==
    LET u == task[h].user
    IN /\ pc[h] = "clear"
       /\ Goto(h, "default")
       /\ task' = [task EXCEPT ![h].seen = RowsOf(u) \intersect {task[h].row}]
       /\ crossed' = IF Defaulting(u) = {} THEN crossed ELSE crossed \union {u}
       /\ UNCHANGED <<addresses, kycVars>>

\* _clear_default: the UPDATE finds the rows of the user.
ClearDefault(h) ==
    LET u == task[h].user
    IN /\ pc[h] = "clear"
       /\ Goto(h, "default")
       /\ task' = [task EXCEPT ![h].seen = RowsOf(u)]
       /\ crossed' = IF Defaulting(u) = {} THEN crossed ELSE crossed \union {u}
       /\ UNCHANGED <<addresses, kycVars>>

\* The commit: the rows found are cleared, and the one row set, which the
\* UPDATE has cleared in the session too, so that it is always written.
WriteDefault(h) ==
    LET t == task[h]
        cleared == [i \in 1 .. Len(addresses) |->
                      [addresses[i] EXCEPT !.default = @ /\ i \notin t.seen]]
    IN /\ pc[h] = "default"
       /\ \/ /\ t.row = 0
             /\ Len(addresses) < MaxAddresses
             /\ addresses' = Append(cleared,
                                    [user |-> t.user, default |-> TRUE, live |-> TRUE])
          \/ /\ t.row # 0 /\ addresses[t.row].live
             /\ addresses' = [cleared EXCEPT ![t.row].default = TRUE]
          \* the row is gone: the flush fails, and nothing is committed
          \/ t.row # 0 /\ ~ addresses[t.row].live /\ UNCHANGED addresses
       /\ Done(h)
       /\ UNCHANGED <<crossed, kycVars>>

\* is_default FALSE is written where it differs from what was read.
UnsetDefault(h) ==
    LET t == task[h]
    IN /\ pc[h] = "unset"
       /\ addresses' = [addresses EXCEPT ![t.row].default = @ /\ ~ t.read]
       /\ Done(h)
       /\ UNCHANGED <<crossed, kycVars>>

DeleteAddress(h) ==
    /\ pc[h] = "remove"
    /\ addresses' = [addresses EXCEPT ![task[h].row].live = FALSE]
    /\ Done(h)
    /\ UNCHANGED <<crossed, kycVars>>

-----------------------------------------------------------------------------
(* POST /users/me/kyc/upload, PATCH /admin/kyc/{id}/approve and /reject *)

UploadKyc(u) ==
    /\ Len(documents) < MaxDocuments
    /\ documents' = Append(documents, [user |-> u, status |-> "pending", reason |-> FALSE])
    /\ UNCHANGED <<pc, task, addressVars, verdicts, contested>>

\* Neither review asks for the status of the document.
ReadDocument(h, i, stage) ==
    /\ i \in 1 .. Len(documents)
    /\ Start(h, stage, [kind |-> "verdict", document |-> i, read |-> documents[i].status])
    /\ contested' = IF Judging(i) = {} THEN contested ELSE contested \union {i}
    /\ UNCHANGED <<addressVars, documents, verdicts>>

\* The status, written where it differs from what was read, a reason that is
\* not empty, and the entry of the log.
Judge(h, stage, status, reason) ==
    LET i == task[h].document
    IN /\ pc[h] = stage
       /\ Len(verdicts) < MaxVerdicts
       /\ documents' = [documents EXCEPT
                          ![i].status = IF task[h].read = status THEN @ ELSE status,
                          ![i].reason = @ \/ reason]
       /\ verdicts' = Append(verdicts, [document |-> i, status |-> status])
       /\ Done(h)
       /\ UNCHANGED <<addressVars, contested>>

ApproveKyc(h) == Judge(h, "accept", "approved", FALSE)

\* Mutant: a document once rejected, with a reason, is not rejected again.
RejectKycOnce(h) ==
    LET i == task[h].document
    IN /\ pc[h] = "refuse"
       /\ Len(verdicts) < MaxVerdicts
       /\ documents' = [documents EXCEPT
                          ![i].status = IF documents[i].reason THEN @ ELSE "rejected",
                          ![i].reason = TRUE]
       /\ verdicts' = Append(verdicts, [document |-> i, status |-> "rejected"])
       /\ Done(h)
       /\ UNCHANGED <<addressVars, contested>>

RejectKyc(h) == \E reason \in BOOLEAN : Judge(h, "refuse", "rejected", reason)

-----------------------------------------------------------------------------
AddressStep ==
    \/ \E u \in User : AddPlain(u)
    \/ \E h \in Handler, u \in User :
         \/ AddDefault(h, u)
         \/ \E i \in 1 .. MaxAddresses, stage \in {"clear", "unset", "remove"} :
              ReadAddress(h, u, i, stage)
    \/ \E h \in Handler :
         ClearDefault(h) \/ WriteDefault(h) \/ UnsetDefault(h) \/ DeleteAddress(h)

KycStep ==
    \/ \E u \in User : UploadKyc(u)
    \/ \E h \in Handler :
         \/ \E i \in 1 .. MaxDocuments, stage \in {"accept", "refuse"} :
              ReadDocument(h, i, stage)
         \/ ApproveKyc(h) \/ RejectKyc(h)

ProfileStep == AddressStep \/ KycStep

-----------------------------------------------------------------------------
(* What holds however the handlers interleave *)

\* A user has one default address at most, unless two requests for a default
\* of that user have been in flight together: additions, changes and
\* deletions of addresses that a handler has read before it writes leave no
\* second one, and neither does a flush that fails.
OneDefaultAddress == \A u \in User \ crossed : Cardinality(Defaults(u)) <= 1

\* The status of a KYC document that no two reviews worked on together is the
\* one the last entry of the audit log tells, however often the verdict on it
\* was reversed.
KycTellsStatus ==
    \A i \in (1 .. Len(documents)) \ contested :
        LET told == {k \in 1 .. Len(verdicts) : verdicts[k].document = i}
        IN IF told = {}
             THEN documents[i].status = "pending"
             ELSE \A k \in told : (\A l \in told : l <= k)
                                    => documents[i].status = verdicts[k].status

=============================================================================
