--------------------------- MODULE MCVerification ---------------------------
(* Three records of a tenant on the default identity and channel, one record *)
(* of a tenant with a certificate of its own on the same channel.            *)
EXTENDS Verification

MCRecords      == 1 .. 4
MCTenants      == {"ta", "tb"}
MCBatches      == {"a1", "b1"}
MCRecordTenant == [r \in MCRecords |-> IF r = 4 THEN "tb" ELSE "ta"]
MCBatchTenant  == [b \in MCBatches |-> IF b = "b1" THEN "tb" ELSE "ta"]
MCContent      == [r \in MCRecords |-> [id |-> <<r, 0>>, timestamp |-> <<7>>, source |-> <<8>>,
                                        payload |-> [amount |-> 1, note |-> 1],
                                        hashFields |-> IF r = 1 THEN {"amount"} ELSE {}]]
\* An edited amount, an edited note, and a symbol moved from the id to the
\* timestamp, which the first hash scheme does not see.
MCEdits        == [r \in MCRecords |->
                     CASE r = 1 -> {[MCContent[1] EXCEPT !.payload["amount"] = 2], [MCContent[1] EXCEPT !.payload["note"] = 2]}
                       [] r = 2 -> {[MCContent[2] EXCEPT !.id = <<2>>, !.timestamp = <<0, 7>>]}
                       [] r > 2 -> {}]
MCDefault      == [attribute |-> "", msp |-> "Org1"]
MCIdentity     == [t \in {"tb"} |-> [attribute |-> "tb", msp |-> "Org1"]]
MCChannel      == [t \in {} |-> "main"]
=============================================================================
