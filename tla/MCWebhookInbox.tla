--------------------------- MODULE MCWebhookInbox ---------------------------
(* Instances of WebhookInbox for TLC.                                      *)
EXTENDS WebhookInboxProofs

MCTenantOf == [p \in Phone |-> CASE p = "phone1" -> "tenant1"
                                 [] p = "phone2" -> "tenant2"
                                 [] OTHER        -> NoTenant]

\* The messages of a change, a change, and a body.
Message(from, id, type, text) == [from |-> from, id |-> id, type |-> type, text |-> text]
Text(from, id) == Message(from, id, "text", "body")
Change(phone, content) == [field |-> "messages", phoneNumberId |-> phone, contacts |-> Absent,
                           messages |-> content]
Body(entry) == [object |-> "whatsapp_business_account", entry |-> entry]
Sign(body, secret) == [body |-> body, signature |-> ComputeSignature(body, secret)]

\* A batch of two entries: the text for a phone number no tenant owns, then, beside
\* a picture and a text message without text, a message of ana to tenant1.
batch1 == Body(<< <<Change("phone9", <<Text("ana", "wam2")>>)>>,
                  <<Change("phone1", <<Message("ana", "wam3", "image", Absent),
                                       Text("ana", "wam2"),
                                       Message("ana", "wam3", "text", Absent)>>)>> >>)
\* One entry with three changes: a status without messages, another message of ana
\* to tenant1, and the same customer and wam id at tenant2.
batch2 == Body(<< <<Change("phone1", << >>), Change("phone1", <<Text("ana", "wam1")>>),
                    Change("phone2", <<Text("ana", "wam1")>>)>> >>)
\* A part that is missing, or of another type, makes the schema refuse the good text
\* beside it: the metadata or the field of a change, its contacts, a text, the object.
good == Change("phone1", <<Text("ana", "wam1")>>)
broken == {Body(<< <<good, Change(Absent, << >>)>> >>),
           Body(<< <<good, [good EXCEPT !.field = Absent]>> >>),
           Body(<< <<good>>, <<[good EXCEPT !.contacts = Malformed]>> >>),
           Body(<< <<good, Change("phone1", <<Message("ana", "wam2", "text", Malformed)>>)>> >>),
           [Body(<< <<good>> >>) EXCEPT !.object = Absent]}

MCWebhook == {Sign(body, AppSecret) : body \in {batch1, batch2} \cup broken}
               \cup {DeliverInbound("phone1", "ana", "wam1", "another secret")}
\* The mock server delivers a message, with the secret it shares with the API.
MCMockWebhook == {DeliverInbound("phone1", "ana", "wam1", AppSecret),
                  DeliverInbound("phone1", "ana", "wam2", AppSecret)}
=============================================================================
