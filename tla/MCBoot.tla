------------------------------- MODULE MCBoot -------------------------------
(* Instances of Boot for TLC.                                              *)
EXTENDS BootProofs, TLC

Settings(id, phone) ==
  [DEFAULT_TENANT_ID |-> id, META_PHONE_NUMBER_ID |-> phone]
    @@ [name \in Required \cup DOMAIN Default |-> IF name \in Required THEN "set" ELSE Absent]

\* Two tenants with two numbers, in each combination, an .env without the id and one with
\* a url that is none.
MCEnv == {Settings(id, phone) : id \in {"tenant1", "tenant2"}, phone \in {"phone1", "phone2"}}
           \cup {Settings(Absent, "phone1"),
                 [Settings("tenant1", "phone1") EXCEPT !.AWS_ENDPOINT_URL = "no url"]}
MCOneEnv == {Settings("tenant1", "phone1")}
=============================================================================
