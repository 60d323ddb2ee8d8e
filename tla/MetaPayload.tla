---------------------------- MODULE MetaPayload ----------------------------
(***************************************************************************)
(* What POST /webhook makes of a request before it touches a table: the    *)
(* signature over the raw body, the schema of the body, and the text       *)
(* messages in it.  A webhook is [body, signature], a body [object, entry] *)
(* with a sequence of entries, an entry a sequence of changes [field,      *)
(* phoneNumberId, contacts, messages], a message [from, id, type, text].   *)
(* Absent stands for what the JSON lacks, or, where the schema requires    *)
(* it, has with another type; Malformed for an optional part of another    *)
(* type.  Texts and contacts are abstracted; the optional timestamp and id *)
(* of an entry, which nothing reads, are left out.                         *)
(***************************************************************************)
EXTENDS Naturals, SequencesExt

CONSTANTS
  AppSecret,  \* META_APP_SECRET of the API
  Absent,
  Malformed

\* HMAC-SHA256 never gives two pairs of secret and body the same signature.
ComputeSignature(body, secret) == [secret |-> secret, body |-> body]
VerifySignature(body, secret, received) == received = ComputeSignature(body, secret)

\* metaWebhookSchema.parse: one part that is missing or of another type refuses the
\* whole body.
ChangeParses(change) ==
  /\ Absent \notin {change.field, change.phoneNumberId}
  /\ change.contacts # Malformed
  /\ \A k \in DOMAIN change.messages :
       /\ Absent \notin {change.messages[k].from, change.messages[k].id,
                         change.messages[k].type}
       /\ change.messages[k].text # Malformed
Parses(body) ==
  /\ body.object # Absent
  /\ \A i \in DOMAIN body.entry : \A j \in DOMAIN body.entry[i] : ChangeParses(body.entry[i][j])

\* A webhook that reaches the tables: the guard answers 403 to a wrong signature,
\* parse throws (500) on a body of another shape.  Both leave everything as it is.
Accepts(w) == VerifySignature(w.body, AppSecret, w.signature) /\ Parses(w.body)

\* A normalised inbound message.
Normalize(change, message) == [phoneNumberId |-> change.phoneNumberId,
                               waId |-> message.from, messageId |-> message.id]
IsText(message) == message.type = "text" /\ message.text # Absent

TextsOfChange(change) ==
  LET texts(message) == IF IsText(message) THEN <<Normalize(change, message)>> ELSE << >>
  IN  FlattenSeq([k \in DOMAIN change.messages |-> texts(change.messages[k])])

\* Bug: only the first change of the first entry is read.
ExtractFirstChange(body) == TextsOfChange(body.entry[1][1])

\* extractInboundMessages: every change of every entry, in order.
Extract(body) ==
  LET changes == FlattenSeq(body.entry)
  IN  FlattenSeq([j \in DOMAIN changes |-> TextsOfChange(changes[j])])

\* What deliverInbound of the mock Meta server posts: one text message to its one
\* phone number, signed with its own secret.
DeliverInbound(phone, from, id, secret) ==
  LET message == [from |-> from, id |-> id, type |-> "text", text |-> "body"]
      change == [field |-> "messages", phoneNumberId |-> phone, contacts |-> "one",
                 messages |-> <<message>>]
      body == [object |-> "whatsapp_business_account", entry |-> << <<change>> >>]
  IN  [body |-> body, signature |-> ComputeSignature(body, secret)]

\* The texts a body holds, wherever they are.
Texts(body) ==
  LET texts(change) == {Normalize(change, change.messages[k]) :
                          k \in {n \in DOMAIN change.messages : IsText(change.messages[n])}}
  IN  UNION {UNION {texts(body.entry[i][j]) : j \in DOMAIN body.entry[i]} : i \in DOMAIN body.entry}
=============================================================================
