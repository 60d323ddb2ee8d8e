------------------------- MODULE WebhookInboxProofs -------------------------
(***************************************************************************)
(* What module WebhookInbox guarantees for every number of requests, every *)
(* set of tenants, messages and payloads, every pool size and any number   *)
(* of faults.  The inductive invariant Inv says, for each request, what    *)
(* its open transaction holds at each step, and that no two transactions   *)
(* and no committed row share a unique key.                                *)
(***************************************************************************)
EXTENDS WebhookInbox, DataLemmas, FiniteSetTheorems

Row(r) == [key |-> KeyOf(Current(r)), conversationId |-> conv[r]]
Mine(c, r) == /\ c.id = conv[r]
              /\ c.tenantId = TenantFor(Current(r))
              /\ c.contact = ContactOf(Current(r))

\* The claim and the message row of r's transaction, step by step.
ClaimShape(r) ==
  /\ pc[r] \notin {"insert", "touch", "commit"} =>
       tx[r].processed = {} /\ tx[r].messages = {}
  /\ pc[r] = "insert" => tx[r].processed = {KeyOf(Current(r))} /\ tx[r].messages = {}
  /\ pc[r] = "touch"  => tx[r].processed = {KeyOf(Current(r))} /\ tx[r].messages = {Row(r)}
  /\ pc[r] = "commit" =>
       \/ tx[r].processed = {KeyOf(Current(r))} /\ tx[r].messages = {Row(r)}
       \/ tx[r].processed = {} /\ tx[r].messages = {} /\ KeyOf(Current(r)) \in processed
  /\ pc[r] = "enqueue" => KeyOf(Current(r)) \in processed /\ Row(r) \in messages

\* The contact and the conversation of r's transaction, step by step.
ContactShape(r) ==
  /\ pc[r] \notin TxSteps \ {"contact"} =>
       tx[r].contacts = {} /\ tx[r].conversations = {}
  /\ pc[r] \in TxSteps \ {"contact"} =>
       /\ tx[r].contacts \subseteq {ContactOf(Current(r))}
       /\ ContactOf(Current(r)) \in contacts \cup tx[r].contacts
  /\ pc[r] \in {"open", "create"} => tx[r].conversations = {}
  /\ pc[r] = "create" => ContactOf(Current(r)) \in tx[r].contacts
  /\ pc[r] \in {"claim", "insert", "touch", "commit"} =>
       \/ /\ tx[r].contacts = {} /\ tx[r].conversations = {}
          /\ \E c \in conversations : Mine(c, r)
       \/ /\ tx[r].contacts = {ContactOf(Current(r))}
          /\ tx[r].conversations =
               {[id |-> conv[r], tenantId |-> TenantFor(Current(r)),
                 contact |-> ContactOf(Current(r))]}
  /\ pc[r] = "enqueue" => \E c \in conversations : Mine(c, r)

\* The messages r has gone past are persisted.
PastIsProcessed(r) ==
  \A i \in 1..Len(delivery[r]) :
    i < pos[r] /\ Known(delivery[r][i]) => KeyOf(delivery[r][i]) \in processed

\* Keys in flight are not committed yet, and in flight in one transaction only.
FreshKeys(r) == /\ tx[r].processed \cap processed = {}
                /\ tx[r].contacts \cap contacts = {}
Exclusive(r, q) ==
  /\ tx[r].processed \cap tx[q].processed = {}
  /\ tx[r].contacts \cap tx[q].contacts = {}
  /\ pc[r] = "enqueue" /\ pc[q] = "enqueue" => KeyOf(Current(r)) # KeyOf(Current(q))

\* Each message row names a conversation of its own tenant.
EachIsInAConversation ==
  \A row \in messages : \E c \in conversations :
    c.id = row.conversationId /\ c.tenantId = row.key.tenantId

\* The committed tables agree with each other, and the queue with them.
TablesAgree ==
  /\ ClaimMatchesMessage
  /\ OneOpenConversation
  /\ \A k \in contacts : \E c \in conversations : c.contact = k
  /\ \A c \in conversations : c.contact \in contacts /\ c.tenantId = c.contact.tenantId
  /\ EachIsInAConversation
SendsAgree ==
  /\ JobsOfOneEnqueue
  /\ \A k \in MessageKey : k \notin processed => sends[k] = 0
  /\ \A r \in Request : pc[r] = "enqueue" => sends[KeyOf(Current(r))] < attempt[r]
AckedAgree == \A m \in acked : Known(m) => KeyOf(m) \in processed

LocalInv(r) == ClaimShape(r) /\ ContactShape(r) /\ PastIsProcessed(r) /\ FreshKeys(r)

\* The inductive invariant.
Inv ==
  /\ TypeOK
  /\ TablesAgree
  /\ SendsAgree
  /\ AckedAgree
  /\ \A r \in Request : LocalInv(r)
  /\ \A r, q \in Request : r # q => Exclusive(r, q)

-----------------------------------------------------------------------------
(* Types.                                                                  *)

\* The texts of one change, in order, are normalised messages.
LEMMA TextsOfChangeRange ==
  ASSUME NEW change \in PostedChange, change.phoneNumberId # Absent,
         \A k \in DOMAIN change.messages :
           Absent \notin {change.messages[k].from, change.messages[k].id}
  PROVE  /\ TextsOfChange(change) \in Seq(Inbound)
         /\ Range(TextsOfChange(change)) =
              {Normalize(change, change.messages[k]) :
                 k \in {n \in DOMAIN change.messages : IsText(change.messages[n])}}
<1> DEFINE ms == change.messages
           texts(m) == IF IsText(m) THEN <<Normalize(change, m)>> ELSE << >>
           ss == [k \in DOMAIN ms |-> texts(ms[k])]
<1>1. ms \in Seq(PostedMessage) /\ DOMAIN ms = 1..Len(ms) /\ Len(ms) \in Nat
  BY DEF PostedChange
<1>2. ASSUME NEW k \in DOMAIN ms PROVE Normalize(change, ms[k]) \in Inbound
  <2>1. ms[k] \in PostedMessage
    BY <1>1
  <2>2. QED
    BY <2>1 DEF PostedMessage, PostedChange, Normalize, Inbound
<1>3. ASSUME NEW k \in DOMAIN ms, IsText(ms[k])
      PROVE  ss[k] \in Seq(Inbound) /\ Range(ss[k]) = {Normalize(change, ms[k])}
  <2>1. PICK t : t = <<Normalize(change, ms[k])>>
    OBVIOUS
  <2>2. ss[k] = t
    BY <1>3, <2>1
  <2>3. DOMAIN t = {1} /\ t[1] = Normalize(change, ms[k]) /\ t \in Seq(Inbound)
    BY <1>2, <2>1
  <2>4. QED
    BY <2>2, <2>3 DEF Range
<1>4. ASSUME NEW k \in DOMAIN ms, ~IsText(ms[k])
      PROVE  ss[k] \in Seq(Inbound) /\ Range(ss[k]) = {}
  <2>1. ss[k] = << >>
    BY <1>4
  <2>2. Range(<< >>) = {} /\ << >> \in Seq(Inbound)
    BY DEF Range
  <2>3. QED
    BY <2>1, <2>2
<1>5. TextsOfChange(change) = FlattenSeq(ss) /\ DOMAIN ss = DOMAIN ms
  BY DEF TextsOfChange
<1>6. ss \in [1..Len(ms) -> Seq(Inbound)]
  <2>1. \A k \in DOMAIN ms : ss[k] \in Seq(Inbound)
    BY <1>3, <1>4
  <2>2. ss = [k \in 1..Len(ms) |-> ss[k]]
    BY <1>1
  <2> HIDE DEF ss
  <2>3. QED
    BY <1>1, <2>1, <2>2
<1> HIDE DEF ss
<1>7. ss \in Seq(Seq(Inbound))
  BY <1>1, <1>6
<1>8. /\ FlattenSeq(ss) \in Seq(Inbound)
      /\ Range(FlattenSeq(ss)) = UNION {Range(ss[k]) : k \in DOMAIN ss}
  BY <1>7, FlattenSeqRange
<1>9. UNION {Range(ss[k]) : k \in DOMAIN ss} =
        {Normalize(change, ms[k]) : k \in {n \in DOMAIN ms : IsText(ms[n])}}
  <2> DEFINE kept == {n \in DOMAIN ms : IsText(ms[n])}
  <2>1. \A k \in DOMAIN ms : Range(ss[k]) = IF k \in kept THEN {Normalize(change, ms[k])} ELSE {}
    BY <1>3, <1>4
  <2>2. kept \subseteq DOMAIN ms
    OBVIOUS
  <2> HIDE DEF kept, ms
  <2>3. UNION {Range(ss[k]) : k \in DOMAIN ms} = {Normalize(change, ms[k]) : k \in kept}
    BY <2>1, <2>2
  <2>4. QED
    BY <1>5, <2>3 DEF kept
<1>10. QED
  BY <1>5, <1>8, <1>9

\* extractInboundMessages finds every text message of a body that the schema has let
\* through, in whatever entry and change it is, and makes up none.
THEOREM ExtractFindsTexts ==
  ASSUME NEW body \in PostedBody, Parses(body)
  PROVE  Extract(body) \in Seq(Inbound) /\ Range(Extract(body)) = Texts(body)
<1> DEFINE entry == body.entry
           changes == FlattenSeq(entry)
           ss == [j \in DOMAIN changes |-> TextsOfChange(changes[j])]
           TextsIn(c) == {Normalize(c, c.messages[k]) :
                            k \in {n \in DOMAIN c.messages : IsText(c.messages[n])}}
<1>0. entry \in Seq(Seq(PostedChange))
  BY DEF PostedBody
<1>1. /\ changes \in Seq(PostedChange)
      /\ Range(changes) = UNION {Range(entry[i]) : i \in DOMAIN entry}
  <2> HIDE DEF entry
  <2>1. QED
    BY <1>0, FlattenSeqRange
<1>2. Extract(body) = FlattenSeq(ss) /\ DOMAIN ss = DOMAIN changes
  BY DEF Extract
<1>3. \A j \in DOMAIN changes : ss[j] = TextsOfChange(changes[j]) /\ changes[j] \in Range(changes)
  BY DEF Range
<1> HIDE DEF changes
<1>4. ASSUME NEW i \in DOMAIN entry
      PROVE  Range(entry[i]) = {entry[i][j] : j \in DOMAIN entry[i]}
  BY DEF Range
<1>5. ASSUME NEW c \in Range(changes)
      PROVE  TextsOfChange(c) \in Seq(Inbound) /\ Range(TextsOfChange(c)) = TextsIn(c)
  <2>1. c \in PostedChange
    BY <1>1 DEF Range
  <2>2. PICK i \in DOMAIN entry : c \in Range(entry[i])
    BY <1>1
  <2>3. PICK j \in DOMAIN entry[i] : c = entry[i][j]
    BY <1>4, <2>2
  <2>4. /\ c.phoneNumberId # Absent
        /\ \A k \in DOMAIN c.messages :
             Absent \notin {c.messages[k].from, c.messages[k].id}
    BY <2>3 DEF Parses, ChangeParses
  <2>5. QED
    BY <2>1, <2>4, TextsOfChangeRange
<1> HIDE DEF TextsIn
<1>6. ss \in Seq(Seq(Inbound))
  <2>1. Len(changes) \in Nat /\ DOMAIN changes = 1..Len(changes)
    BY <1>1
  <2>2. \A j \in 1..Len(changes) : TextsOfChange(changes[j]) \in Seq(Inbound)
    BY <1>3, <1>5, <2>1
  <2>3. PICK n \in Nat : n = Len(changes)
    BY <2>1
  <2>4. ss \in [1..n -> Seq(Inbound)]
    BY <2>1, <2>2, <2>3
  <2> HIDE DEF ss
  <2>5. QED
    BY <2>4
<1> HIDE DEF ss
<1>7. /\ FlattenSeq(ss) \in Seq(Inbound)
      /\ Range(FlattenSeq(ss)) = UNION {Range(ss[j]) : j \in DOMAIN ss}
  BY <1>6, FlattenSeqRange
<1>8. UNION {Range(ss[j]) : j \in DOMAIN ss} = UNION {TextsIn(c) : c \in Range(changes)}
  <2>1. \A j \in DOMAIN changes : Range(ss[j]) = TextsIn(changes[j])
    BY <1>3, <1>5
  <2>2. Range(changes) = {changes[j] : j \in DOMAIN changes}
    BY DEF Range
  <2>3. QED
    BY <1>2, <2>1, <2>2
<1>9. UNION {TextsIn(c) : c \in Range(changes)} = Texts(body)
  <2>1. Texts(body) = UNION {UNION {TextsIn(entry[i][j]) : j \in DOMAIN entry[i]} : i \in DOMAIN entry}
    BY DEF Texts, TextsIn
  <2> HIDE DEF entry
  <2>2. QED
    BY <1>1, <1>4, <2>1
<1>10. QED
  BY <1>2, <1>7, <1>8, <1>9

\* What the assumptions on the constants say of rows' keys and the null values, and of
\* the messages of a webhook.
LEMMA ConstantFacts ==
  /\ TenantOf \in [Phone -> Tenant \cup {NoTenant}] /\ NoTenant \notin Tenant
  /\ NoConv \notin ConvId
  /\ \A w \in Webhook : Accepts(w) => Extract(w.body) \in Seq(Inbound)
BY TenantAssumption, ConvAssumption, WebhookAssumption, ExtractFindsTexts DEF Accepts

\* The message a request works on is an inbound message, and once its tenant is
\* known, its contact and its key are rows' keys.
LEMMA CurrentTyped ==
  ASSUME TypeOK, NEW r \in Request, pos[r] <= Len(delivery[r])
  PROVE  /\ Current(r) \in Inbound
         /\ TenantFor(Current(r)) \in Tenant =>
              /\ ContactOf(Current(r)) \in Contact
              /\ KeyOf(Current(r)) \in MessageKey
<1>1. delivery[r] \in Seq(Inbound) /\ pos[r] \in Nat \ {0}
  BY DEF TypeOK
<1>2. delivery[r][pos[r]] \in Inbound
  BY <1>1
<1>3. QED
  BY <1>2 DEF Current, Inbound, ContactOf, KeyOf, Contact, MessageKey

\* A request at work on a message has a message of its payload in hand.
LEMMA BusyTyped ==
  ASSUME TypeOK, NEW r \in Request, pc[r] \notin {"idle", "next"}
  PROVE  /\ pos[r] \in Nat \ {0} /\ Len(delivery[r]) \in Nat /\ pos[r] <= Len(delivery[r])
         /\ Current(r) \in Inbound
         /\ TenantFor(Current(r)) \in Tenant
         /\ ContactOf(Current(r)) \in Contact
         /\ KeyOf(Current(r)) \in MessageKey
<1>1. pos[r] <= Len(delivery[r]) /\ TenantFor(Current(r)) \in Tenant
  BY DEF TypeOK, TenantFor, Current
<1>2. delivery[r] \in Seq(Inbound) /\ pos[r] \in Nat \ {0}
  BY DEF TypeOK
<1>3. Len(delivery[r]) \in Nat
  BY <1>2
<1>4. QED
  BY <1>1, <1>2, <1>3, CurrentTyped

\* A finished request satisfies TypeOK whatever it was doing.
LEMMA EndTyped ==
  ASSUME TypeOK, NEW r \in Request, End(r),
         (contacts \subseteq Contact)', (conversations \subseteq Conversation)',
         (processed \subseteq MessageKey)', (messages \subseteq MessageRow)',
         (sends \in [MessageKey -> Nat])', (acked \subseteq Inbound)', faults' \in Nat
  PROVE  TypeOK'
<1>0. attempt' \in [Request -> 1..MaxAttempts] /\ attempt'[r] = 1
  BY BoundAssumption DEF End, TypeOK
<1>1. pc' \in [Request -> Steps] /\ delivery' \in [Request -> Seq(Inbound)]
      /\ pos' \in [Request -> Nat \ {0}] /\ conv' \in [Request -> ConvId \cup {NoConv}]
  BY DEF End, Goto, TypeOK, Steps
<1>2. tx' \in [Request -> Tx]
  BY DEF End, TypeOK, EmptyTx, Tx
<1>3. pc'[r] = "idle" /\ pos'[r] = 1 /\ delivery'[r] = << >>
  BY DEF End, Goto, TypeOK
<1>4. \A q \in Request \ {r} : pc'[q] = pc[q] /\ pos'[q] = pos[q]
                               /\ delivery'[q] = delivery[q] /\ conv'[q] = conv[q]
                               /\ attempt'[q] = attempt[q]
  BY DEF End, Goto, TypeOK
<1>5. ASSUME NEW q \in Request
      PROVE  /\ pos'[q] <= Len(delivery'[q]) + 1
             /\ pc'[q] \notin {"idle", "next"} =>
                  /\ pos'[q] <= Len(delivery'[q])
                  /\ TenantOf[delivery'[q][pos'[q]].phoneNumberId] \in Tenant
             /\ pc'[q] = "idle" => pos'[q] = 1
             /\ pc'[q] \in {"claim", "insert", "touch", "commit", "enqueue"} => conv'[q] \in ConvId
             /\ pc'[q] # "enqueue" => attempt'[q] = 1
  <2>1. CASE q = r
    BY <1>0, <1>3, <2>1
  <2>2. CASE q # r
    BY <1>4, <2>2 DEF TypeOK
  <2>3. QED
    BY <2>1, <2>2
<1>6. QED
  BY <1>0, <1>1, <1>2, <1>5 DEF TypeOK

\* COMMIT adds rows of the right type.
LEMMA PublishTyped ==
  ASSUME TypeOK, NEW r \in Request, Publish(r)
  PROVE  (/\ contacts \subseteq Contact /\ conversations \subseteq Conversation
          /\ processed \subseteq MessageKey /\ messages \subseteq MessageRow)'
BY DEF TypeOK, Publish, Tx

\* A statement that writes rows leaves a transaction behind.
LEMMA TxTyped ==
  ASSUME tx \in [Request -> Tx], NEW r \in Request
  PROVE  /\ \A s \in SUBSET Contact : [tx EXCEPT ![r].contacts = s] \in [Request -> Tx]
         /\ \A s \in SUBSET Conversation : [tx EXCEPT ![r].conversations = s] \in [Request -> Tx]
         /\ \A s \in SUBSET MessageKey : [tx EXCEPT ![r].processed = s] \in [Request -> Tx]
         /\ \A s \in SUBSET MessageRow : [tx EXCEPT ![r].messages = s] \in [Request -> Tx]
         /\ \A s \in SUBSET ConvId : [tx EXCEPT ![r].touched = s] \in [Request -> Tx]
<1>1. ASSUME NEW s \in SUBSET Contact PROVE [tx EXCEPT ![r].contacts = s] \in [Request -> Tx]
  BY DEF Tx
<1>2. ASSUME NEW s \in SUBSET Conversation PROVE [tx EXCEPT ![r].conversations = s] \in [Request -> Tx]
  BY DEF Tx
<1>3. ASSUME NEW s \in SUBSET MessageKey PROVE [tx EXCEPT ![r].processed = s] \in [Request -> Tx]
  BY DEF Tx
<1>4. ASSUME NEW s \in SUBSET MessageRow PROVE [tx EXCEPT ![r].messages = s] \in [Request -> Tx]
  BY DEF Tx
<1>5. ASSUME NEW s \in SUBSET ConvId PROVE [tx EXCEPT ![r].touched = s] \in [Request -> Tx]
  BY DEF Tx
<1>6. QED
  BY <1>1, <1>2, <1>3, <1>4, <1>5

\* Every step of the webhook keeps the types.
LEMMA TypeStep == TypeOK /\ [Next]_vars => TypeOK'
<1> SUFFICES ASSUME TypeOK, [Next]_vars PROVE TypeOK'
  OBVIOUS
<1> USE DEF TypeOK, db
<1>1. ASSUME NEW r \in Request, NEW w \in Webhook, Receive(r, w) PROVE TypeOK'
  <2>1. Extract(w.body) \in Seq(Inbound) /\ Len(Extract(w.body)) \in Nat
    BY <1>1, ConstantFacts DEF Receive
  <2>2. QED
    BY <1>1, <2>1 DEF Receive, Goto, Steps
<1>2. ASSUME NEW r \in Request, Step(r) PROVE TypeOK'
  <2>1. CASE ResolveTenant(r)
    <3>1. delivery[r] \in Seq(Inbound) /\ Len(delivery[r]) \in Nat /\ pos[r] \in Nat \ {0}
      OBVIOUS
    <3>2. Current(r) \in Inbound
      BY <2>1, CurrentTyped DEF ResolveTenant
    <3>3. CASE TenantFor(Current(r)) = NoTenant /\ NextMessage(r)
      BY <2>1, <3>1, <3>3, BoundAssumption DEF ResolveTenant, NextMessage, Goto, Steps
    <3>4. CASE TenantFor(Current(r)) # NoTenant /\ Goto(r, "begin") /\ UNCHANGED <<pos, conv, attempt>>
      <4>1. TenantOf[delivery[r][pos[r]].phoneNumberId] \in Tenant
        BY <3>2, <3>4, ConstantFacts DEF TenantFor, Current, Inbound
      <4>2. QED
        BY <2>1, <3>4, <4>1 DEF ResolveTenant, Goto, Steps
    <3>5. QED
      BY <2>1, <3>3, <3>4 DEF ResolveTenant
  <2>2. CASE BeginTx(r)
    BY <2>2 DEF BeginTx, Goto, Steps, TxSteps
  <2>3. CASE EnsureContact(r)
    <3>1. ContactOf(Current(r)) \in Contact
      BY <2>3, BusyTyped DEF EnsureContact
    <3>2. tx' \in [Request -> Tx]
      <4>1. {ContactOf(Current(r))} \ contacts \in SUBSET Contact
        BY <3>1
      <4>2. QED
        BY <2>3, <4>1, TxTyped DEF EnsureContact
    <3>3. QED
      BY <2>3, <3>2 DEF EnsureContact, Goto, Steps, TxSteps
  <2>4. CASE FindOpen(r)
    BY <2>4 DEF FindOpen, Goto, Steps, TxSteps, Conversation
  <2>5. CASE CreateConversation(r)
    <3>1. ContactOf(Current(r)) \in Contact /\ TenantFor(Current(r)) \in Tenant
      BY <2>5, BusyTyped DEF CreateConversation
    <3>2. PICK id \in ConvId :
            /\ conv' = [conv EXCEPT ![r] = id]
            /\ tx' = [tx EXCEPT ![r].conversations =
                        {[id |-> id, tenantId |-> TenantFor(Current(r)),
                          contact |-> ContactOf(Current(r))]}]
      BY <2>5 DEF CreateConversation
    <3> DEFINE c == [id |-> id, tenantId |-> TenantFor(Current(r)),
                     contact |-> ContactOf(Current(r))]
    <3>3. tx' \in [Request -> Tx]
      <4>1. {c} \in SUBSET Conversation
        BY <3>1 DEF Conversation
      <4> HIDE DEF c
      <4>2. tx' = [tx EXCEPT ![r].conversations = {c}]
        BY <3>2 DEF c
      <4>3. QED
        BY <4>1, <4>2, TxTyped
    <3>4. QED
      BY <2>5, <3>2, <3>3 DEF CreateConversation, Goto, Steps, TxSteps
  <2>6. CASE Claim(r)
    <3>1. KeyOf(Current(r)) \in MessageKey
      BY <2>6, BusyTyped DEF Claim
    <3>2. tx' \in [Request -> Tx]
      <4>1. {KeyOf(Current(r))} \ processed \in SUBSET MessageKey
        BY <3>1
      <4>2. QED
        BY <2>6, <4>1, TxTyped DEF Claim
    <3>3. QED
      BY <2>6, <3>2 DEF Claim, Goto, Steps, TxSteps
  <2>7. CASE InsertMessage(r)
    <3>1. KeyOf(Current(r)) \in MessageKey /\ conv[r] \in ConvId
      BY <2>7, BusyTyped DEF InsertMessage
    <3>2. tx' \in [Request -> Tx]
      <4>1. {Row(r)} \in SUBSET MessageRow
        BY <3>1 DEF MessageRow, Row
      <4>2. tx' = [tx EXCEPT ![r].messages = {Row(r)}]
        BY <2>7 DEF InsertMessage, Row
      <4>3. QED
        BY <4>1, <4>2, TxTyped
    <3>3. QED
      BY <2>7, <3>2 DEF InsertMessage, Goto, Steps, TxSteps
  <2>8. CASE Touch(r)
    <3>1. tx' \in [Request -> Tx]
      <4>1. {conv[r]} \in SUBSET ConvId
        BY <2>8 DEF Touch
      <4>2. QED
        BY <2>8, <4>1, TxTyped DEF Touch
    <3>2. QED
      BY <2>8, <3>1 DEF Touch, Goto, Steps, TxSteps
  <2>9. CASE Commit(r)
    <3>1. tx' \in [Request -> Tx]
      BY <2>9 DEF Commit, Tx, EmptyTx
    <3>2. pos[r] + 1 <= Len(delivery[r]) + 1
      <4>1. pc[r] = "commit"
        BY <2>9 DEF Commit
      <4>2. pos[r] \in Nat /\ Len(delivery[r]) \in Nat /\ pos[r] <= Len(delivery[r])
        BY <4>1, BusyTyped
      <4>3. QED
        BY <4>2
    <3>3. (/\ contacts \subseteq Contact /\ conversations \subseteq Conversation
           /\ processed \subseteq MessageKey /\ messages \subseteq MessageRow)'
      BY <2>9, PublishTyped DEF Commit
    <3>4. CASE tx[r].messages # {} /\ Goto(r, "enqueue") /\ UNCHANGED <<pos, conv, attempt>>
      BY <2>9, <3>1, <3>3, <3>4 DEF Commit, Goto, Steps, TxSteps
    <3>5. CASE tx[r].messages = {} /\ NextMessage(r)
      BY <2>9, <3>1, <3>2, <3>3, <3>5, BoundAssumption
         DEF Commit, NextMessage, Goto, Steps, TxSteps
    <3>6. QED
      BY <2>9, <3>4, <3>5 DEF Commit
  <2>10. CASE Enqueue(r)
    <3>1. pc[r] = "enqueue" /\ sends' = [sends EXCEPT ![KeyOf(Current(r))] = sends[KeyOf(Current(r))] + 1]
      BY <2>10 DEF Enqueue
    <3>2. /\ pos[r] \in Nat /\ Len(delivery[r]) \in Nat /\ pos[r] <= Len(delivery[r])
          /\ KeyOf(Current(r)) \in MessageKey
      BY <3>1, BusyTyped
    <3>3. pos[r] + 1 <= Len(delivery[r]) + 1
      BY <3>2
    <3>4. sends' \in [MessageKey -> Nat]
      BY <3>1, <3>2
    <3>5. QED
      BY <2>10, <3>3, <3>4, BoundAssumption DEF Enqueue, NextMessage, Goto, Steps
  <2>11. CASE Respond(r)
    <3>1. acked' \subseteq Inbound
      <4>1. delivery[r] \in Seq(Inbound)
        OBVIOUS
      <4>2. QED
        BY <2>11, <4>1 DEF Respond
    <3>2. QED
      BY <2>11, <3>1, EndTyped DEF Respond
  <2>12. QED
    BY <1>2, <2>1, <2>2, <2>3, <2>4, <2>5, <2>6, <2>7, <2>8, <2>9, <2>10, <2>11 DEF Step
<1>3. ASSUME NEW r \in Request, Fail(r) PROVE TypeOK'
  <2>1. faults' \in Nat
    BY <1>3 DEF Fail, StatementFails, CommitAnswerLost, EnqueueRetried, EnqueueFails,
                EnqueueAnswerLost, Fault
  <2>2. CASE StatementFails(r) \/ EnqueueFails(r)
    BY <2>1, <2>2, EndTyped DEF StatementFails, EnqueueFails
  <2>3. CASE CommitAnswerLost(r)
    BY <2>1, <2>3, EndTyped, PublishTyped DEF CommitAnswerLost
  <2>4. CASE EnqueueAnswerLost(r)
    <3>1. sends' \in [MessageKey -> Nat]
      <4>1. pc[r] = "enqueue" /\ sends' = [sends EXCEPT ![KeyOf(Current(r))] = sends[KeyOf(Current(r))] + 1]
        BY <2>4 DEF EnqueueAnswerLost
      <4>2. KeyOf(Current(r)) \in MessageKey
        BY <4>1, BusyTyped
      <4>3. QED
        BY <4>1, <4>2
    <3>2. QED
      BY <2>1, <2>4, <3>1, EndTyped DEF EnqueueAnswerLost
  <2>5. CASE EnqueueRetried(r)
    <3>1. /\ pc[r] = "enqueue" /\ attempt[r] \in 1..MaxAttempts /\ attempt[r] < MaxAttempts
          /\ attempt' = [attempt EXCEPT ![r] = attempt[r] + 1]
          /\ \/ sends' = sends
             \/ sends' = [sends EXCEPT ![KeyOf(Current(r))] = sends[KeyOf(Current(r))] + 1]
      BY <2>5 DEF EnqueueRetried
    <3>2. KeyOf(Current(r)) \in MessageKey
      BY <3>1, BusyTyped
    <3>3. sends' \in [MessageKey -> Nat]
      <4>1. [sends EXCEPT ![KeyOf(Current(r))] = sends[KeyOf(Current(r))] + 1] \in [MessageKey -> Nat]
        BY <3>2
      <4>2. QED
        BY <3>1, <4>1
    <3>4. attempt' \in [Request -> 1..MaxAttempts] /\ \A q \in Request \ {r} : attempt'[q] = attempt[q]
      BY <3>1, BoundAssumption
    <3>5. QED
      BY <2>1, <2>5, <3>1, <3>3, <3>4 DEF EnqueueRetried
  <2>6. QED
    BY <1>3, <2>2, <2>3, <2>4, <2>5 DEF Fail
<1>4. CASE Crash
  <2>1. tx' \in [Request -> Tx]
    BY <1>4 DEF Crash, EmptyTx, Tx
  <2>2. << >> \in Seq(Inbound) /\ Len(<< >>) = 0
    OBVIOUS
  <2>3. QED
    BY <1>4, <2>1, <2>2, BoundAssumption DEF Crash, Fault, Steps
<1>5. CASE UNCHANGED vars
  BY <1>5 DEF vars
<1>6. QED
  BY <1>1, <1>2, <1>3, <1>4, <1>5 DEF Next

\* Type correctness of the webhook, its tables and the queue it sends to.
THEOREM TypeCorrect == Spec => []TypeOK
<1>1. Init => TypeOK
  <2>1. << >> \in Seq(Inbound) /\ Len(<< >>) = 0
    OBVIOUS
  <2>2. EmptyTx \in Tx
    BY DEF EmptyTx, Tx
  <2>3. QED
    BY <2>1, <2>2, BoundAssumption DEF Init, TypeOK, Steps
<1>2. QED
  BY <1>1, TypeStep, PTL DEF Spec

-----------------------------------------------------------------------------
(* What a step of one request leaves true of the others.                   *)

Same(q) == /\ pc'[q] = pc[q] /\ delivery'[q] = delivery[q] /\ pos'[q] = pos[q]
           /\ conv'[q] = conv[q] /\ attempt'[q] = attempt[q] /\ tx'[q] = tx[q]
Grow == /\ contacts \subseteq contacts' /\ conversations \subseteq conversations'
        /\ processed \subseteq processed' /\ messages \subseteq messages'

\* Rows are only added, so what a request knows of the tables stays true.
LEMMA OtherKept ==
  ASSUME NEW q \in Request, LocalInv(q), Grow,
         pc'[q] = pc[q], delivery'[q] = delivery[q], pos'[q] = pos[q],
         conv'[q] = conv[q], tx'[q] = tx[q],
         tx[q].contacts \cap contacts' = {}, tx[q].processed \cap processed' = {}
  PROVE  LocalInv(q)'
<1> USE DEF Grow
<1>1. /\ Current(q)' = Current(q)
      /\ KeyOf(Current(q))' = KeyOf(Current(q)) /\ Row(q)' = Row(q)
      /\ ContactOf(Current(q))' = ContactOf(Current(q))
      /\ TenantFor(Current(q))' = TenantFor(Current(q))
  BY DEF Current, KeyOf, Row, ContactOf, TenantFor
<1>2. ClaimShape(q)'
  BY <1>1 DEF LocalInv, ClaimShape
<1>3. \A c : Mine(c, q)' <=> Mine(c, q)
  BY <1>1 DEF Mine
<1>4. ContactShape(q)'
  BY <1>1, <1>3 DEF LocalInv, ContactShape
<1>5. PastIsProcessed(q)'
  BY DEF LocalInv, PastIsProcessed, Known, KeyOf, TenantFor
<1>6. FreshKeys(q)'
  BY DEF FreshKeys
<1>7. QED
  BY <1>2, <1>4, <1>5, <1>6 DEF LocalInv

\* A step of r that commits nothing keeps Inv if it does not give r a key another
\* transaction holds, and agrees with the queue and the answers.
LEMMA LocalStep ==
  ASSUME Inv, TypeOK', UNCHANGED db, NEW r \in Request,
         \A q \in Request \ {r} : Same(q),
         LocalInv(r)', pc'[r] # "enqueue",
         \A q \in Request \ {r} : /\ tx'[r].processed \cap tx[q].processed = {}
                                  /\ tx'[r].contacts \cap tx[q].contacts = {},
         SendsAgree', AckedAgree'
  PROVE  Inv'
<1> USE DEF db
<1>1. TablesAgree'
  BY DEF Inv, TablesAgree, ClaimMatchesMessage, OneOpenConversation, Persisted,
         EachIsInAConversation
<1>2. ASSUME NEW q \in Request PROVE LocalInv(q)'
  <2>1. CASE q = r
    BY <2>1
  <2>2. CASE q # r
    <3>1. LocalInv(q) /\ FreshKeys(q) /\ Same(q) /\ Grow
      BY <2>2 DEF Inv, LocalInv, Grow
    <3>2. QED
      BY <3>1, OtherKept DEF FreshKeys, Same
  <2>3. QED
    BY <2>1, <2>2
<1>3. ASSUME NEW p \in Request, NEW q \in Request, p # q PROVE Exclusive(p, q)'
  <2>1. Exclusive(p, q)
    BY <1>3 DEF Inv
  <2>2. CASE p # r /\ q # r
    BY <2>1, <2>2 DEF Exclusive, Same, KeyOf, Current, TenantFor
  <2>3. CASE p = r
    BY <1>3, <2>3 DEF Exclusive, Same
  <2>4. CASE q = r
    BY <1>3, <2>4 DEF Exclusive, Same
  <2>5. QED
    BY <2>2, <2>3, <2>4
<1>4. QED
  BY <1>1, <1>2, <1>3 DEF Inv

\* The same for a step that neither sends nor answers.
LEMMA QuietStep ==
  ASSUME Inv, TypeOK', UNCHANGED db, sends' = sends, acked' = acked, NEW r \in Request,
         \A q \in Request \ {r} : Same(q),
         LocalInv(r)', pc'[r] # "enqueue",
         \A q \in Request \ {r} : /\ tx'[r].processed \cap tx[q].processed = {}
                                  /\ tx'[r].contacts \cap tx[q].contacts = {}
  PROVE  Inv'
<1>1. SendsAgree'
  <2>1. \A q \in Request : pc'[q] = "enqueue" =>
          /\ q # r /\ pc[q] = "enqueue" /\ KeyOf(Current(q))' = KeyOf(Current(q))
          /\ attempt'[q] = attempt[q]
    BY DEF Same, KeyOf, Current, TenantFor
  <2>2. QED
    BY <2>1 DEF Inv, SendsAgree, JobsOfOneEnqueue, db
<1>2. AckedAgree'
  BY DEF Inv, AckedAgree, db, Known, KeyOf, TenantFor
<1>3. QED
  BY <1>1, <1>2, LocalStep

\* A request that is over holds nothing.
LEMMA IdleLocal ==
  ASSUME NEW r \in Request, pc'[r] = "idle", pos'[r] = 1, tx'[r] = EmptyTx
  PROVE  LocalInv(r)'
<1>1. PastIsProcessed(r)'
  <2> SUFFICES ASSUME NEW i \in 1..Len(delivery'[r]), i < 1 PROVE FALSE
    BY DEF PastIsProcessed
  <2>1. QED
    OBVIOUS
<1>2. QED
  BY <1>1 DEF LocalInv, ClaimShape, ContactShape, FreshKeys, EmptyTx, TxSteps

\* A request that has just ended satisfies the local invariant.
LEMMA EndLocal ==
  ASSUME TypeOK, NEW r \in Request, End(r)
  PROVE  /\ LocalInv(r)' /\ pc'[r] = "idle" /\ tx'[r] = EmptyTx
         /\ \A q \in Request \ {r} : Same(q)
<1>1. pc'[r] = "idle" /\ pos'[r] = 1 /\ tx'[r] = EmptyTx
  BY DEF TypeOK, End, Goto
<1>2. \A q \in Request \ {r} : Same(q)
  BY DEF TypeOK, End, Goto, Same
<1>3. QED
  BY <1>1, <1>2, IdleLocal

-----------------------------------------------------------------------------
(* What a step leaves true of the request that takes it.                   *)

\* The message in hand stays the same while the request stays at its index.
LEMMA SameMessage ==
  ASSUME NEW r \in Request, delivery'[r] = delivery[r], pos'[r] = pos[r]
  PROVE  /\ Current(r)' = Current(r) /\ KeyOf(Current(r))' = KeyOf(Current(r))
         /\ ContactOf(Current(r))' = ContactOf(Current(r))
         /\ TenantFor(Current(r))' = TenantFor(Current(r))
BY DEF Current, KeyOf, ContactOf, TenantFor

\* What holds of the messages already dealt with stays true while tables grow.
LEMMA PastKept ==
  ASSUME NEW r \in Request, PastIsProcessed(r), delivery'[r] = delivery[r],
         pos'[r] = pos[r], processed \subseteq processed'
  PROVE  PastIsProcessed(r)'
BY DEF PastIsProcessed, Known, KeyOf, TenantFor

\* Going on to the next message adds the one just dealt with to the past.
LEMMA PastNext ==
  ASSUME NEW r \in Request, PastIsProcessed(r), delivery'[r] = delivery[r],
         pos[r] \in Nat, pos'[r] = pos[r] + 1, processed \subseteq processed',
         Known(Current(r)) => KeyOf(Current(r)) \in processed'
  PROVE  PastIsProcessed(r)'
<1> SUFFICES ASSUME NEW i \in 1..Len(delivery[r]), i < pos[r] + 1, Known(delivery[r][i])
             PROVE  KeyOf(delivery[r][i]) \in processed'
  BY DEF PastIsProcessed, Known, KeyOf, TenantFor
<1>1. CASE i = pos[r]
  BY <1>1 DEF Current
<1>2. CASE i < pos[r]
  BY <1>2 DEF PastIsProcessed
<1>3. QED
  BY <1>1, <1>2

\* The steps before the claim and between the claim and COMMIT.
LEMMA TxStepKeepsInv ==
  ASSUME Inv, TypeOK', NEW r \in Request,
         \/ BeginTx(r) \/ EnsureContact(r) \/ FindOpen(r) \/ CreateConversation(r)
         \/ Claim(r) \/ InsertMessage(r) \/ Touch(r)
  PROVE  Inv'
<1> DEFINE key == KeyOf(Current(r))
           contact == ContactOf(Current(r))
<1>1. /\ UNCHANGED db /\ sends' = sends /\ acked' = acked
      /\ delivery' = delivery /\ pos' = pos
  BY DEF BeginTx, EnsureContact, FindOpen, CreateConversation, Claim, InsertMessage, Touch
<1>2. TypeOK /\ LocalInv(r) /\ \A q \in Request \ {r} : Exclusive(r, q)
  BY DEF Inv
<1>3. \A q \in Request \ {r} : Same(q)
  BY <1>1, <1>2 DEF TypeOK, Same, BeginTx, EnsureContact, FindOpen, CreateConversation,
                    Claim, InsertMessage, Touch, Goto
<1>4. /\ Current(r)' = Current(r) /\ KeyOf(Current(r))' = key
      /\ ContactOf(Current(r))' = contact
      /\ TenantFor(Current(r))' = TenantFor(Current(r))
  BY <1>1, SameMessage
<1>5. PastIsProcessed(r)'
  BY <1>1, <1>2, PastKept DEF LocalInv, db
<1>6. pc'[r] # "enqueue"
  BY <1>2 DEF TypeOK, BeginTx, EnsureContact, FindOpen, CreateConversation,
              Claim, InsertMessage, Touch, Goto
<1>7. \A q \in Request \ {r} : tx[r].processed \cap tx[q].processed = {}
                              /\ tx[r].contacts \cap tx[q].contacts = {}
  BY <1>2 DEF Exclusive
<1> USE DEF db
<1>8. CASE BeginTx(r)
  <2>1. pc[r] = "begin" /\ pc'[r] = "contact" /\ tx' = tx
    BY <1>2, <1>8 DEF BeginTx, Goto, TypeOK
  <2>2. LocalInv(r)'
    BY <1>1, <1>2, <1>5, <2>1 DEF LocalInv, ClaimShape, ContactShape, FreshKeys, TxSteps
  <2>3. QED
    BY <1>1, <1>3, <1>6, <1>7, <2>1, <2>2, QuietStep
<1>9. CASE EnsureContact(r)
  <2>1. /\ pc[r] = "contact" /\ pc'[r] = "open"
        /\ tx'[r].contacts = {contact} \ contacts
        /\ tx'[r].conversations = tx[r].conversations
        /\ tx'[r].processed = tx[r].processed /\ tx'[r].messages = tx[r].messages
        /\ \A q \in Request \ {r} : contact \notin tx[q].contacts
    BY <1>2, <1>9 DEF EnsureContact, Goto, TypeOK, Tx
  <2>2. ClaimShape(r)'
    BY <1>1, <1>2, <2>1 DEF LocalInv, ClaimShape
  <2>3. ContactShape(r)'
    BY <1>1, <1>2, <1>4, <2>1 DEF LocalInv, ContactShape, TxSteps
  <2>4. FreshKeys(r)'
    BY <1>1, <1>2, <2>1 DEF LocalInv, FreshKeys
  <2>5. \A q \in Request \ {r} : /\ tx'[r].processed \cap tx[q].processed = {}
                                /\ tx'[r].contacts \cap tx[q].contacts = {}
    BY <1>7, <2>1
  <2>6. QED
    BY <1>1, <1>3, <1>5, <1>6, <2>2, <2>3, <2>4, <2>5, QuietStep DEF LocalInv
<1>10. CASE FindOpen(r)
  <2>1. pc[r] = "open" /\ tx' = tx
    BY <1>10 DEF FindOpen
  <2>2. ClaimShape(r)'
    BY <1>2, <1>10 DEF FindOpen, Goto, TypeOK, LocalInv, ClaimShape
  <2>3. ContactShape(r)'
    <3>1. CASE pc'[r] = "claim" /\ \E c \in conversations :
                 c.tenantId = TenantFor(Current(r)) /\ c.contact = contact /\ conv'[r] = c.id
      <4>1. PICK c \in conversations :
              c.tenantId = TenantFor(Current(r)) /\ c.contact = contact /\ conv'[r] = c.id
        BY <3>1
      <4>2. contact \in contacts
        BY <4>1 DEF Inv, TablesAgree
      <4>3. tx[r].contacts = {} /\ tx[r].conversations = {}
        BY <1>2, <2>1, <4>2 DEF LocalInv, ContactShape, FreshKeys, TxSteps
      <4>4. Mine(c, r)'
        BY <1>4, <4>1 DEF Mine
      <4>5. QED
        BY <1>1, <1>4, <2>1, <3>1, <4>2, <4>3, <4>4 DEF ContactShape, TxSteps
    <3>2. CASE pc'[r] = "create" /\ \A c \in conversations :
                 ~(c.tenantId = TenantFor(Current(r)) /\ c.contact = contact)
      <4>1. contact \notin contacts
        BY <3>2 DEF Inv, TablesAgree, ContactOf
      <4>2. contact \in tx[r].contacts /\ tx[r].contacts \subseteq {contact}
            /\ tx[r].conversations = {}
        BY <1>2, <2>1, <4>1 DEF LocalInv, ContactShape, TxSteps
      <4>3. QED
        BY <1>1, <1>4, <2>1, <3>2, <4>2 DEF ContactShape, TxSteps
    <3>3. QED
      BY <1>2, <1>10, <3>1, <3>2 DEF FindOpen, Goto, TypeOK
  <2>4. FreshKeys(r)'
    BY <1>1, <1>2, <2>1 DEF LocalInv, FreshKeys
  <2>5. QED
    BY <1>1, <1>3, <1>5, <1>6, <1>7, <2>1, <2>2, <2>3, <2>4, QuietStep DEF LocalInv
<1>11. CASE CreateConversation(r)
  <2>1. PICK id \in ConvId :
          /\ conv' = [conv EXCEPT ![r] = id]
          /\ tx' = [tx EXCEPT ![r].conversations =
                      {[id |-> id, tenantId |-> TenantFor(Current(r)), contact |-> contact]}]
    BY <1>11 DEF CreateConversation
  <2>2. /\ pc[r] = "create" /\ pc'[r] = "claim" /\ conv'[r] = id
        /\ tx'[r].conversations =
             {[id |-> id, tenantId |-> TenantFor(Current(r)), contact |-> contact]}
        /\ tx'[r].contacts = tx[r].contacts
        /\ tx'[r].processed = tx[r].processed /\ tx'[r].messages = tx[r].messages
    BY <1>2, <1>11, <2>1 DEF CreateConversation, Goto, TypeOK, Tx
  <2>3. ClaimShape(r)'
    BY <1>2, <2>2 DEF LocalInv, ClaimShape
  <2>4. ContactShape(r)'
    <3>1. tx[r].contacts = {contact}
      BY <1>2, <2>2 DEF LocalInv, ContactShape, TxSteps
    <3>2. QED
      BY <1>1, <1>4, <2>2, <3>1 DEF ContactShape, TxSteps
  <2>5. FreshKeys(r)'
    BY <1>1, <1>2, <2>2 DEF LocalInv, FreshKeys
  <2>6. QED
    BY <1>1, <1>3, <1>5, <1>6, <1>7, <2>2, <2>3, <2>4, <2>5, QuietStep DEF LocalInv
<1>12. CASE Claim(r)
  <2>1. /\ pc[r] = "claim" /\ conv' = conv
        /\ pc'[r] = IF key \in processed THEN "commit" ELSE "insert"
        /\ tx'[r].processed = {key} \ processed
        /\ tx'[r].contacts = tx[r].contacts /\ tx'[r].messages = tx[r].messages
        /\ tx'[r].conversations = tx[r].conversations
        /\ \A q \in Request \ {r} : key \notin tx[q].processed
    BY <1>2, <1>12 DEF Claim, Goto, TypeOK, Tx
  <2>2. ClaimShape(r)'
    BY <1>1, <1>2, <1>4, <2>1 DEF LocalInv, ClaimShape
  <2>3. ContactShape(r)'
    BY <1>1, <1>2, <1>4, <2>1 DEF LocalInv, ContactShape, TxSteps, Mine
  <2>4. FreshKeys(r)'
    BY <1>1, <1>2, <2>1 DEF LocalInv, FreshKeys
  <2>5. \A q \in Request \ {r} : /\ tx'[r].processed \cap tx[q].processed = {}
                                /\ tx'[r].contacts \cap tx[q].contacts = {}
    BY <1>7, <2>1
  <2>6. QED
    BY <1>1, <1>3, <1>5, <1>6, <2>2, <2>3, <2>4, <2>5, QuietStep DEF LocalInv
<1>13. CASE InsertMessage(r)
  <2>1. /\ pc[r] = "insert" /\ pc'[r] = "touch" /\ conv' = conv
        /\ tx'[r].messages = {Row(r)}
        /\ tx'[r].contacts = tx[r].contacts /\ tx'[r].processed = tx[r].processed
        /\ tx'[r].conversations = tx[r].conversations
    BY <1>2, <1>13 DEF InsertMessage, Goto, TypeOK, Tx, Row
  <2>2. ClaimShape(r)'
    BY <1>1, <1>2, <1>4, <2>1 DEF LocalInv, ClaimShape, Row
  <2>3. ContactShape(r)'
    BY <1>1, <1>2, <1>4, <2>1 DEF LocalInv, ContactShape, TxSteps, Mine
  <2>4. FreshKeys(r)'
    BY <1>1, <1>2, <2>1 DEF LocalInv, FreshKeys
  <2>5. QED
    BY <1>1, <1>3, <1>5, <1>6, <1>7, <2>1, <2>2, <2>3, <2>4, QuietStep DEF LocalInv
<1>14. CASE Touch(r)
  <2>1. /\ pc[r] = "touch" /\ pc'[r] = "commit" /\ conv' = conv
        /\ tx'[r].contacts = tx[r].contacts /\ tx'[r].processed = tx[r].processed
        /\ tx'[r].conversations = tx[r].conversations /\ tx'[r].messages = tx[r].messages
    BY <1>2, <1>14 DEF Touch, Goto, TypeOK, Tx
  <2>2. ClaimShape(r)'
    BY <1>1, <1>2, <1>4, <2>1 DEF LocalInv, ClaimShape, Row
  <2>3. ContactShape(r)'
    BY <1>1, <1>2, <1>4, <2>1 DEF LocalInv, ContactShape, TxSteps, Mine
  <2>4. FreshKeys(r)'
    BY <1>1, <1>2, <2>1 DEF LocalInv, FreshKeys
  <2>5. QED
    BY <1>1, <1>3, <1>5, <1>6, <1>7, <2>1, <2>2, <2>3, <2>4, QuietStep DEF LocalInv
<1>15. QED
  BY <1>8, <1>9, <1>10, <1>11, <1>12, <1>13, <1>14

\* What COMMIT does to the tables, whoever learns of it.
LEMMA PublishKeepsTables ==
  ASSUME Inv, NEW r \in Request, pc[r] = "commit", Publish(r)
  PROVE  /\ TablesAgree' /\ Grow
         /\ KeyOf(Current(r)) \in processed'
         /\ tx[r].messages # {} => Row(r) \in messages'
                                   /\ KeyOf(Current(r)) \notin processed
         /\ \E c \in conversations' : Mine(c, r)
         /\ \A k \in MessageKey : k \in processed' /\ k \notin processed =>
               k = KeyOf(Current(r))
<1> DEFINE key == KeyOf(Current(r))
           contact == ContactOf(Current(r))
           new == [id |-> conv[r], tenantId |-> TenantFor(Current(r)), contact |-> contact]
<1>1. LocalInv(r) /\ FreshKeys(r) /\ TablesAgree
  BY DEF Inv, LocalInv
<1>2. \/ tx[r].processed = {key} /\ tx[r].messages = {Row(r)}
      \/ tx[r].processed = {} /\ tx[r].messages = {} /\ key \in processed
  BY <1>1 DEF LocalInv, ClaimShape
<1>3. \/ /\ tx[r].contacts = {} /\ tx[r].conversations = {}
         /\ \E c \in conversations : Mine(c, r)
      \/ tx[r].contacts = {contact} /\ tx[r].conversations = {new}
  BY <1>1 DEF LocalInv, ContactShape
<1>4. Grow
  BY DEF Publish, Grow
<1>5. ClaimMatchesMessage'
  <2>1. Row(r).key = key
    BY DEF Row
  <2>2. QED
    BY <1>1, <1>2, <2>1 DEF Publish, TablesAgree, ClaimMatchesMessage, Persisted
<1>6. new.contact = contact /\ new.tenantId = TenantFor(Current(r)) /\ new.id = conv[r]
      /\ contact.tenantId = TenantFor(Current(r))
  BY DEF ContactOf
<1> HIDE DEF new, contact
<1>7. CASE tx[r].contacts = {} /\ tx[r].conversations = {} /\ \E c \in conversations : Mine(c, r)
  <2>1. conversations' = conversations /\ contacts' = contacts
    BY <1>7 DEF Publish
  <2>2. EachIsInAConversation'
    BY <1>1, <1>2, <1>7, <2>1 DEF TablesAgree, EachIsInAConversation, Publish, Mine, Row, KeyOf
  <2>3. QED
    BY <1>1, <1>2, <1>4, <1>5, <1>7, <2>1, <2>2
       DEF TablesAgree, OneOpenConversation, Publish, FreshKeys
<1>8. CASE tx[r].contacts = {contact} /\ tx[r].conversations = {new}
  <2>1. conversations' = conversations \cup {new} /\ contacts' = contacts \cup {contact}
    BY <1>8 DEF Publish
  <2>2. contact \notin contacts
    BY <1>1, <1>8 DEF FreshKeys
  <2>3. \A c \in conversations : c.contact \in contacts /\ c.tenantId = c.contact.tenantId
    BY <1>1 DEF TablesAgree
  <2>4. OneOpenConversation'
    BY <1>1, <1>6, <2>1, <2>2, <2>3 DEF TablesAgree, OneOpenConversation
  <2>5. EachIsInAConversation'
    BY <1>1, <1>2, <1>6, <2>1 DEF TablesAgree, EachIsInAConversation, Publish, Row, KeyOf
  <2>6. TablesAgree'
    BY <1>1, <1>5, <1>6, <2>1, <2>3, <2>4, <2>5 DEF TablesAgree
  <2>7. Mine(new, r)
    BY <1>6 DEF Mine, contact
  <2>8. QED
    BY <1>1, <1>2, <1>4, <2>1, <2>6, <2>7 DEF Publish, FreshKeys
<1>9. QED
  BY <1>3, <1>7, <1>8 DEF new, contact

\* COMMIT by r, whoever learns of it, keeps Inv if r's new state is in order.
LEMMA PublishStep ==
  ASSUME Inv, TypeOK', NEW r \in Request, pc[r] = "commit", Publish(r),
         sends' = sends, acked' = acked, tx'[r] = EmptyTx,
         \A q \in Request \ {r} : Same(q),
         LocalInv(r)',
         pc'[r] = "enqueue" => /\ KeyOf(Current(r))' = KeyOf(Current(r))
                               /\ KeyOf(Current(r)) \notin processed
  PROVE  Inv'
<1>1. TypeOK /\ TablesAgree' /\ Grow /\ KeyOf(Current(r)) \in MessageKey
  BY PublishKeepsTables, BusyTyped DEF Inv
<1>2. ASSUME NEW q \in Request PROVE LocalInv(q)'
  <2>1. CASE q = r
    BY <2>1
  <2>2. CASE q # r
    <3>1. LocalInv(q) /\ FreshKeys(q) /\ Exclusive(r, q) /\ Same(q)
      BY <2>2 DEF Inv, LocalInv
    <3>2. tx[q].contacts \cap contacts' = {} /\ tx[q].processed \cap processed' = {}
      BY <3>1 DEF FreshKeys, Exclusive, Publish
    <3>3. QED
      BY <1>1, <3>1, <3>2, OtherKept DEF Same
  <2>3. QED
    BY <2>1, <2>2
<1>3. \A q \in Request \ {r} : pc'[q] = "enqueue" =>
        pc[q] = "enqueue" /\ KeyOf(Current(q))' = KeyOf(Current(q))
        /\ KeyOf(Current(q)) \in processed
        /\ sends[KeyOf(Current(q))] < attempt[q] /\ attempt'[q] = attempt[q]
  BY DEF Inv, LocalInv, ClaimShape, SendsAgree, Same, KeyOf, Current, TenantFor
<1>4. ASSUME NEW p \in Request, NEW q \in Request, p # q PROVE Exclusive(p, q)'
  <2>1. Exclusive(p, q)
    BY <1>4 DEF Inv
  <2>2. CASE p # r /\ q # r
    BY <1>3, <1>4, <2>1, <2>2 DEF Exclusive, Same
  <2>3. CASE p = r
    BY <1>3, <1>4, <2>3 DEF Exclusive, Same, EmptyTx
  <2>4. CASE q = r
    BY <1>3, <1>4, <2>4 DEF Exclusive, Same, EmptyTx
  <2>5. QED
    BY <2>2, <2>3, <2>4
<1>5. SendsAgree'
  <2>1. \A k \in MessageKey : k \notin processed' => sends[k] = 0
    BY <1>1 DEF Inv, SendsAgree, Grow
  <2>2. pc'[r] = "enqueue" => sends[KeyOf(Current(r))'] < attempt'[r]
    <3>1. attempt'[r] \in 1..MaxAttempts
      BY DEF TypeOK
    <3>2. pc'[r] = "enqueue" => sends[KeyOf(Current(r))'] = 0
      BY <1>1 DEF Inv, SendsAgree
    <3>3. QED
      BY <3>1, <3>2, BoundAssumption
  <2>3. QED
    BY <1>3, <2>1, <2>2 DEF Inv, SendsAgree, JobsOfOneEnqueue
<1>6. AckedAgree'
  BY <1>1 DEF Inv, AckedAgree, Grow, Known, KeyOf, TenantFor
<1>7. QED
  BY <1>1, <1>2, <1>4, <1>5, <1>6 DEF Inv

\* COMMIT whose answer arrives publishes the message with its claim.
LEMMA CommitKeepsInv ==
  ASSUME Inv, TypeOK', NEW r \in Request, Commit(r) PROVE Inv'
<1>1. TypeOK /\ LocalInv(r) /\ pc[r] = "commit" /\ Publish(r)
      /\ delivery' = delivery /\ sends' = sends /\ acked' = acked
      /\ tx' = [tx EXCEPT ![r] = EmptyTx]
  BY DEF Inv, Commit
<1>2. tx'[r] = EmptyTx /\ \A q \in Request \ {r} : Same(q)
  BY <1>1 DEF TypeOK, Same, Commit, NextMessage, Goto
<1>3. /\ Grow /\ KeyOf(Current(r)) \in processed'
      /\ tx[r].messages # {} => Row(r) \in messages' /\ KeyOf(Current(r)) \notin processed
      /\ \E c \in conversations' : Mine(c, r)
  BY <1>1, PublishKeepsTables
<1>4. /\ FreshKeys(r)'
      /\ tx'[r].processed = {} /\ tx'[r].messages = {}
      /\ tx'[r].contacts = {} /\ tx'[r].conversations = {}
  BY <1>2 DEF FreshKeys, EmptyTx
<1>5. CASE tx[r].messages # {} /\ Goto(r, "enqueue") /\ UNCHANGED <<pos, conv, attempt>>
  <2>1. pc'[r] = "enqueue" /\ pos'[r] = pos[r] /\ delivery'[r] = delivery[r] /\ conv' = conv
    BY <1>1, <1>5 DEF TypeOK, Goto
  <2>2. /\ KeyOf(Current(r))' = KeyOf(Current(r)) /\ Row(r)' = Row(r)
        /\ \A c : Mine(c, r)' <=> Mine(c, r)
    BY <2>1, SameMessage DEF Row, Mine
  <2>3. PastIsProcessed(r)'
    BY <1>1, <1>3, <2>1, PastKept DEF LocalInv, Grow
  <2>4. LocalInv(r)'
    BY <1>3, <1>4, <1>5, <2>1, <2>2, <2>3 DEF LocalInv, ClaimShape, ContactShape, TxSteps
  <2>5. QED
    BY <1>1, <1>2, <1>3, <1>5, <2>2, <2>4, PublishStep
<1>6. CASE tx[r].messages = {} /\ NextMessage(r)
  <2>1. pc'[r] = "next" /\ pos'[r] = pos[r] + 1 /\ pos[r] \in Nat
        /\ delivery'[r] = delivery[r]
    BY <1>1, <1>6 DEF TypeOK, NextMessage, Goto
  <2>2. PastIsProcessed(r)'
    BY <1>1, <1>3, <2>1, PastNext DEF LocalInv, Grow
  <2>3. LocalInv(r)'
    BY <1>4, <2>1, <2>2 DEF LocalInv, ClaimShape, ContactShape, TxSteps
  <2>4. QED
    BY <1>1, <1>2, <2>1, <2>3, PublishStep
<1>7. QED
  BY <1>5, <1>6 DEF Commit

\* A job reaches SQS for the message r is about to send.
LEMMA SendKeepsSends ==
  ASSUME Inv, NEW r \in Request, pc[r] = "enqueue",
         sends' = [sends EXCEPT ![KeyOf(Current(r))] = @ + 1], processed' = processed,
         pc'[r] = "enqueue" => /\ KeyOf(Current(r))' = KeyOf(Current(r))
                               /\ attempt'[r] = attempt[r] + 1,
         \A q \in Request \ {r} : Same(q)
  PROVE  SendsAgree'
<1> DEFINE key == KeyOf(Current(r))
<1>1. /\ key \in MessageKey /\ key \in processed /\ sends[key] < attempt[r]
      /\ sends \in [MessageKey -> Nat]
      /\ attempt[r] \in Nat /\ attempt[r] <= MaxAttempts /\ MaxAttempts \in Nat
  BY BusyTyped, BoundAssumption DEF Inv, LocalInv, ClaimShape, SendsAgree, TypeOK
<1>2. \A k \in MessageKey : sends'[k] = IF k = key THEN sends[key] + 1 ELSE sends[k]
  BY <1>1
<1>3. JobsOfOneEnqueue'
  BY <1>1, <1>2 DEF Inv, SendsAgree, JobsOfOneEnqueue
<1>4. ASSUME NEW q \in Request, pc'[q] = "enqueue"
      PROVE  sends'[KeyOf(Current(q))'] < attempt'[q]
  <2>1. CASE q = r
    BY <1>1, <1>2, <1>4, <2>1
  <2>2. CASE q # r
    <3>1. /\ pc[q] = "enqueue" /\ KeyOf(Current(q))' = KeyOf(Current(q))
          /\ attempt'[q] = attempt[q]
      BY <1>4, <2>2 DEF Same, KeyOf, Current, TenantFor
    <3>2. Exclusive(r, q) /\ TypeOK /\ SendsAgree
      BY <2>2 DEF Inv
    <3>3. KeyOf(Current(q)) \in MessageKey /\ KeyOf(Current(q)) # key
      BY <3>1, <3>2, BusyTyped DEF Exclusive
    <3>4. QED
      BY <1>2, <3>1, <3>2, <3>3 DEF SendsAgree
  <2>3. QED
    BY <2>1, <2>2
<1>5. QED
  BY <1>1, <1>2, <1>3, <1>4 DEF Inv, SendsAgree

\* SendMessage by the request that committed the message.
LEMMA EnqueueKeepsInv ==
  ASSUME Inv, TypeOK', NEW r \in Request, Enqueue(r) PROVE Inv'
<1>1. TypeOK /\ LocalInv(r) /\ pc[r] = "enqueue" /\ UNCHANGED db /\ acked' = acked
      /\ delivery' = delivery /\ tx' = tx
  BY DEF Inv, Enqueue
<1>2. pc'[r] = "next" /\ pos'[r] = pos[r] + 1 /\ pos[r] \in Nat
      /\ \A q \in Request \ {r} : Same(q)
  BY <1>1 DEF TypeOK, Same, Enqueue, NextMessage, Goto
<1>3. SendsAgree'
  BY <1>1, <1>2, SendKeepsSends DEF Enqueue, db
<1>4. PastIsProcessed(r)'
  BY <1>1, <1>2, PastNext DEF LocalInv, ClaimShape, db
<1>5. LocalInv(r)'
  BY <1>1, <1>2, <1>4 DEF LocalInv, ClaimShape, ContactShape, FreshKeys, TxSteps, db
<1>6. AckedAgree'
  BY <1>1 DEF Inv, AckedAgree, db, Known, KeyOf, TenantFor
<1>7. \A q \in Request \ {r} : /\ tx'[r].processed \cap tx[q].processed = {}
                              /\ tx'[r].contacts \cap tx[q].contacts = {}
  BY <1>1 DEF Inv, Exclusive
<1>8. QED
  BY <1>1, <1>2, <1>3, <1>5, <1>6, <1>7, LocalStep

\* A step that leaves the tables and the requests' work alone may only disturb what
\* the queue and the requests have in common.
LEMMA SendingStep ==
  ASSUME Inv, TypeOK', UNCHANGED <<db, acked, pc, delivery, pos, conv, tx>>, SendsAgree'
  PROVE  Inv'
<1>1. Grow
  BY DEF db, Grow
<1>2. TablesAgree' /\ AckedAgree'
  BY DEF Inv, db, TablesAgree, ClaimMatchesMessage, Persisted, OneOpenConversation,
         EachIsInAConversation, AckedAgree, Known, KeyOf, TenantFor
<1>3. ASSUME NEW r \in Request PROVE LocalInv(r)'
  <2>1. LocalInv(r) /\ FreshKeys(r)
    BY DEF Inv, LocalInv
  <2>2. QED
    BY <1>1, <2>1, OtherKept DEF FreshKeys, db
<1>4. ASSUME NEW r \in Request, NEW q \in Request, r # q PROVE Exclusive(r, q)'
  BY <1>4 DEF Inv, Exclusive, KeyOf, Current, TenantFor
<1>5. QED
  BY <1>2, <1>3, <1>4 DEF Inv

\* An attempt without an answer, whether it has left a job behind or not.
LEMMA RetryKeepsInv ==
  ASSUME Inv, TypeOK', NEW r \in Request, EnqueueRetried(r) PROVE Inv'
<1>1. /\ TypeOK /\ SendsAgree /\ pc[r] = "enqueue"
      /\ UNCHANGED <<db, acked, pc, delivery, pos, conv, tx>>
      /\ attempt' = [attempt EXCEPT ![r] = attempt[r] + 1]
  BY DEF Inv, EnqueueRetried
<1>2. attempt'[r] = attempt[r] + 1 /\ \A q \in Request \ {r} : Same(q)
  BY <1>1 DEF TypeOK, Same
<1>3. \A q : KeyOf(Current(q))' = KeyOf(Current(q))
  BY <1>1 DEF KeyOf, Current, TenantFor
<1>4. CASE sends' = [sends EXCEPT ![KeyOf(Current(r))] = @ + 1]
  BY <1>1, <1>2, <1>3, <1>4, SendKeepsSends, SendingStep DEF db
<1>5. CASE sends' = sends
  <2>1. sends[KeyOf(Current(r))] \in Nat /\ attempt[r] \in Nat
    <3>1. KeyOf(Current(r)) \in MessageKey
      BY <1>1, BusyTyped
    <3>2. QED
      BY <1>1, <3>1 DEF TypeOK
  <2>2. SendsAgree'
    BY <1>1, <1>2, <1>3, <1>5, <2>1 DEF SendsAgree, JobsOfOneEnqueue, Same, db
  <2>3. QED
    BY <1>1, <2>2, SendingStep
<1>6. QED
  BY <1>4, <1>5 DEF EnqueueRetried

\* A delivery of the webhook starts a request with a past of its own.
LEMMA ReceiveKeepsInv ==
  ASSUME Inv, TypeOK', NEW r \in Request, NEW w \in Webhook, Receive(r, w) PROVE Inv'
<1>1. TypeOK /\ LocalInv(r) /\ UNCHANGED db /\ sends' = sends /\ acked' = acked
      /\ tx' = tx /\ pos' = pos /\ pc[r] = "idle"
  BY DEF Inv, Receive
<1>2. pc'[r] = "next" /\ pos'[r] = 1 /\ \A q \in Request \ {r} : Same(q)
  BY <1>1 DEF TypeOK, Same, Receive, Goto
<1>3. PastIsProcessed(r)'
  <2> SUFFICES ASSUME NEW i \in 1..Len(delivery'[r]), i < 1 PROVE FALSE
    BY <1>2 DEF PastIsProcessed
  <2>1. QED
    OBVIOUS
<1>4. LocalInv(r)'
  BY <1>1, <1>2, <1>3 DEF LocalInv, ClaimShape, ContactShape, FreshKeys, TxSteps, db
<1>5. \A q \in Request \ {r} : /\ tx'[r].processed \cap tx[q].processed = {}
                              /\ tx'[r].contacts \cap tx[q].contacts = {}
  BY <1>1 DEF Inv, Exclusive
<1>6. QED
  BY <1>1, <1>2, <1>4, <1>5, QuietStep

\* findByPhoneNumberId: a message without a tenant is skipped.
LEMMA ResolveTenantKeepsInv ==
  ASSUME Inv, TypeOK', NEW r \in Request, ResolveTenant(r) PROVE Inv'
<1>1. TypeOK /\ LocalInv(r) /\ UNCHANGED db /\ sends' = sends /\ acked' = acked
      /\ tx' = tx /\ delivery' = delivery /\ pc[r] = "next" /\ pos[r] \in Nat
  BY DEF Inv, ResolveTenant, TypeOK
<1>2. pc'[r] \in {"next", "begin"} /\ \A q \in Request \ {r} : Same(q)
  BY <1>1 DEF TypeOK, Same, ResolveTenant, NextMessage, Goto
<1>3. PastIsProcessed(r)'
  <2>1. CASE TenantFor(Current(r)) = NoTenant /\ NextMessage(r)
    <3>1. pos'[r] = pos[r] + 1
      BY <1>1, <2>1 DEF NextMessage, TypeOK
    <3>2. QED
      BY <1>1, <2>1, <3>1, PastNext DEF LocalInv, Known, db
  <2>2. CASE UNCHANGED pos
    BY <1>1, <2>2, PastKept DEF LocalInv, db
  <2>3. QED
    BY <2>1, <2>2 DEF ResolveTenant
<1>4. LocalInv(r)'
  BY <1>1, <1>2, <1>3 DEF LocalInv, ClaimShape, ContactShape, FreshKeys, TxSteps, db
<1>5. \A q \in Request \ {r} : /\ tx'[r].processed \cap tx[q].processed = {}
                              /\ tx'[r].contacts \cap tx[q].contacts = {}
  BY <1>1 DEF Inv, Exclusive
<1>6. QED
  BY <1>1, <1>2, <1>4, <1>5, QuietStep

\* The ends of a request: an answer, an error with its rollback.
LEMMA EndKeepsInv ==
  ASSUME Inv, TypeOK', NEW r \in Request,
         Respond(r) \/ StatementFails(r) \/ EnqueueFails(r) \/ EnqueueAnswerLost(r)
  PROVE  Inv'
<1>1. TypeOK /\ LocalInv(r) /\ UNCHANGED db /\ End(r)
  BY DEF Inv, Respond, StatementFails, EnqueueFails, EnqueueAnswerLost
<1>2. /\ LocalInv(r)' /\ pc'[r] = "idle" /\ tx'[r] = EmptyTx
      /\ \A q \in Request \ {r} : Same(q)
  BY <1>1, EndLocal
<1>3. \A q \in Request \ {r} : /\ tx'[r].processed \cap tx[q].processed = {}
                              /\ tx'[r].contacts \cap tx[q].contacts = {}
  BY <1>2 DEF EmptyTx
<1>4. CASE StatementFails(r) \/ EnqueueFails(r)
  BY <1>1, <1>2, <1>3, <1>4, QuietStep DEF StatementFails, EnqueueFails
<1>5. AckedAgree /\ SendsAgree
  BY DEF Inv
<1>6. CASE EnqueueAnswerLost(r)
  <2>1. SendsAgree'
    BY <1>1, <1>2, <1>6, SendKeepsSends DEF EnqueueAnswerLost, db
  <2>2. AckedAgree'
    BY <1>1, <1>5, <1>6 DEF EnqueueAnswerLost, AckedAgree, db, Known, KeyOf, TenantFor
  <2>3. QED
    BY <1>1, <1>2, <1>3, <2>1, <2>2, LocalStep
<1>7. CASE Respond(r)
  <2>1. SendsAgree'
    <3>1. \A q \in Request : pc'[q] = "enqueue" =>
            /\ pc[q] = "enqueue" /\ KeyOf(Current(q))' = KeyOf(Current(q))
            /\ attempt'[q] = attempt[q]
      BY <1>2 DEF Same, KeyOf, Current, TenantFor
    <3>2. QED
      BY <1>1, <1>5, <1>7, <3>1 DEF Respond, SendsAgree, JobsOfOneEnqueue, db
  <2>2. AckedAgree'
    <3>1. /\ pos[r] > Len(delivery[r]) /\ pos[r] \in Nat
          /\ delivery[r] \in Seq(Inbound) /\ Len(delivery[r]) \in Nat
          /\ acked' = acked \cup {delivery[r][i] : i \in 1..Len(delivery[r])}
      BY <1>1, <1>7 DEF Respond, TypeOK
    <3>2. \A i \in 1..Len(delivery[r]) : Known(delivery[r][i]) => KeyOf(delivery[r][i]) \in processed
      BY <1>1, <3>1 DEF LocalInv, PastIsProcessed
    <3>3. processed' = processed
      BY <1>1 DEF db
    <3>4. \A m \in acked' : Known(m) => KeyOf(m) \in processed
      BY <1>5, <3>1, <3>2 DEF AckedAgree
    <3>5. QED
      BY <3>3, <3>4 DEF AckedAgree, Known, KeyOf, TenantFor
  <2>3. QED
    BY <1>1, <1>2, <1>3, <2>1, <2>2, LocalStep
<1>8. QED
  BY <1>4, <1>6, <1>7

\* COMMIT that takes effect while its answer is lost ends in a 500.
LEMMA CommitAnswerLostKeepsInv ==
  ASSUME Inv, TypeOK', NEW r \in Request, CommitAnswerLost(r) PROVE Inv'
<1>1. TypeOK /\ End(r) /\ pc[r] = "commit" /\ Publish(r) /\ sends' = sends /\ acked' = acked
  BY DEF Inv, CommitAnswerLost
<1>2. /\ LocalInv(r)' /\ pc'[r] = "idle" /\ tx'[r] = EmptyTx
      /\ \A q \in Request \ {r} : Same(q)
  BY <1>1, EndLocal
<1>3. QED
  BY <1>1, <1>2, PublishStep

\* A crash of the API drops every request and every open transaction.
LEMMA CrashKeepsInv == ASSUME Inv, TypeOK', Crash PROVE Inv'
<1>1. UNCHANGED db /\ sends' = sends /\ acked' = acked
  BY DEF Crash
<1>2. \A r \in Request : pc'[r] = "idle" /\ pos'[r] = 1 /\ tx'[r] = EmptyTx
  BY DEF Crash
<1>3. \A r \in Request : LocalInv(r)'
  BY <1>2, IdleLocal
<1>4. \A r, q \in Request : r # q => Exclusive(r, q)'
  BY <1>2 DEF Exclusive, EmptyTx
<1>5. TablesAgree' /\ SendsAgree' /\ AckedAgree'
  BY <1>1, <1>2 DEF Inv, db, TablesAgree, ClaimMatchesMessage, Persisted, OneOpenConversation,
       EachIsInAConversation, SendsAgree, JobsOfOneEnqueue, AckedAgree, Known, KeyOf, TenantFor
<1>6. QED
  BY <1>3, <1>4, <1>5 DEF Inv

\* No rows, no jobs and no requests at first.
LEMMA InvInit == Init => Inv
<1> SUFFICES ASSUME Init PROVE Inv
  OBVIOUS
<1>1. TypeOK
  <2>1. << >> \in Seq(Inbound) /\ Len(<< >>) = 0 /\ EmptyTx \in Tx
    BY DEF EmptyTx, Tx
  <2>2. QED
    BY <2>1, BoundAssumption DEF Init, TypeOK, Steps
<1>2. TablesAgree /\ SendsAgree /\ AckedAgree
  BY BoundAssumption DEF Init, TablesAgree, SendsAgree, AckedAgree, ClaimMatchesMessage, Persisted,
         OneOpenConversation, JobsOfOneEnqueue, EachIsInAConversation
<1>3. \A r \in Request : LocalInv(r)
  BY DEF Init, LocalInv, ClaimShape, ContactShape, FreshKeys, PastIsProcessed, EmptyTx, TxSteps
<1>4. \A r, q \in Request : r # q => Exclusive(r, q)
  BY DEF Init, Exclusive, EmptyTx
<1>5. QED
  BY <1>1, <1>2, <1>3, <1>4 DEF Inv

\* Every step of the webhook keeps the invariant.
LEMMA InvStep == Inv /\ [Next]_vars => Inv'
<1> SUFFICES ASSUME Inv, [Next]_vars PROVE Inv'
  OBVIOUS
<1>1. TypeOK'
  BY TypeStep DEF Inv
<1>2. ASSUME NEW r \in Request, NEW w \in Webhook, Receive(r, w) PROVE Inv'
  BY <1>1, <1>2, ReceiveKeepsInv
<1>3. ASSUME NEW r \in Request, Step(r) PROVE Inv'
  BY <1>1, <1>3, ResolveTenantKeepsInv, TxStepKeepsInv, CommitKeepsInv, EnqueueKeepsInv,
     EndKeepsInv DEF Step
<1>4. ASSUME NEW r \in Request, Fail(r) PROVE Inv'
  BY <1>1, <1>4, EndKeepsInv, CommitAnswerLostKeepsInv, RetryKeepsInv DEF Fail
<1>5. CASE Crash
  BY <1>1, <1>5, CrashKeepsInv
<1>6. CASE UNCHANGED vars
  <2>1. SendsAgree'
    BY <1>6 DEF Inv, vars, SendsAgree, JobsOfOneEnqueue, KeyOf, Current, TenantFor
  <2>2. QED
    BY <1>1, <1>6, <2>1, SendingStep DEF vars, db
<1>7. QED
  BY <1>2, <1>3, <1>4, <1>5, <1>6 DEF Next

\* The inductive invariant holds in every reachable state of the webhook.
THEOREM InvHolds == Spec => []Inv
BY InvInit, InvStep, PTL DEF Spec

\* A contact has one open conversation, by the unique key of contacts alone.
THEOREM OneOpenConversationHolds == Spec => []OneOpenConversation
<1>1. Inv => OneOpenConversation
  BY DEF Inv, TablesAgree
<1>2. QED
  BY <1>1, InvHolds, PTL

\* The claim of a message and its row stand or fall together.
THEOREM ClaimMatchesMessageHolds == Spec => []ClaimMatchesMessage
<1>1. Inv => ClaimMatchesMessage
  BY DEF Inv, TablesAgree
<1>2. QED
  BY <1>1, InvHolds, PTL

\* One call of producer.enqueue is made for a message, whatever is delivered again: all
\* its jobs are attempts of that call, and none is sent before the message is persisted.
THEOREM JobsOfOneEnqueueHolds == Spec => [](JobsOfOneEnqueue /\ NoPhantomJob)
<1>1. Inv => JobsOfOneEnqueue /\ NoPhantomJob
  <2> SUFFICES ASSUME Inv PROVE JobsOfOneEnqueue /\ NoPhantomJob
    OBVIOUS
  <2>1. JobsOfOneEnqueue /\ ClaimMatchesMessage
        /\ \A k \in MessageKey : k \notin processed => sends[k] = 0
    BY DEF Inv, SendsAgree, TablesAgree
  <2>2. QED
    BY <2>1 DEF NoPhantomJob, ClaimMatchesMessage
<1>2. QED
  BY <1>1, InvHolds, PTL

\* A 200 means that every message of the payload with a tenant is committed.
THEOREM AnsweredIsPersistedHolds == Spec => []AnsweredIsPersisted
<1>1. Inv => AnsweredIsPersisted
  <2> SUFFICES ASSUME Inv, NEW m \in acked, Known(m) PROVE Persisted(KeyOf(m))
    BY DEF AnsweredIsPersisted
  <2>1. KeyOf(m) \in processed /\ processed \subseteq MessageKey /\ ClaimMatchesMessage
    BY DEF Inv, AckedAgree, TypeOK, TablesAgree
  <2>2. QED
    BY <2>1 DEF ClaimMatchesMessage
<1>2. QED
  BY <1>1, InvHolds, PTL

\* A request at work has the messages of a webhook the guard and the schema let through.
DeliveryIsPayload ==
  \A r \in Request : pc[r] # "idle" => \E w \in Accepted : delivery[r] = Extract(w.body)

\* What has been done when 200 is said: each text of the posted body that is for a known
\* number is committed, wherever in the body it is.
AnswerIsForAll ==
  \A r \in Request : Respond(r) =>
    \E w \in Accepted : /\ Answered(w)'
                        /\ \A m \in Texts(w.body) : Known(m) => Persisted(KeyOf(m))

\* No 200 for a part of a payload.
WholePayloadAnswered == [][AnswerIsForAll]_vars

\* Only Receive gives a request messages; the loop only reads them.
LEMMA DeliveryIsPayloadStep == TypeOK /\ DeliveryIsPayload /\ [Next]_vars => DeliveryIsPayload'
<1> SUFFICES ASSUME TypeOK, DeliveryIsPayload, [Next]_vars PROVE DeliveryIsPayload'
  OBVIOUS
<1>1. pc \in [Request -> Steps] /\ delivery \in [Request -> Seq(Inbound)]
  BY DEF TypeOK
<1> USE DEF DeliveryIsPayload
<1>2. ASSUME NEW r \in Request, NEW w \in Webhook, Receive(r, w) PROVE DeliveryIsPayload'
  <2>1. w \in Accepted /\ delivery'[r] = Extract(w.body)
    BY <1>1, <1>2 DEF Receive, Accepted
  <2>2. \A q \in Request \ {r} : pc'[q] = pc[q] /\ delivery'[q] = delivery[q]
    BY <1>1, <1>2 DEF Receive, Goto
  <2>3. QED
    BY <2>1, <2>2
<1>3. ASSUME NEW r \in Request, End(r) PROVE DeliveryIsPayload'
  BY <1>1, <1>3 DEF End, Goto
<1>4. ASSUME NEW r \in Request, Step(r) PROVE DeliveryIsPayload'
  <2>1. CASE Respond(r)
    BY <1>3, <2>1 DEF Respond
  <2>2. CASE ~Respond(r)
    <3>1. /\ pc[r] # "idle" /\ delivery' = delivery
          /\ \A q \in Request \ {r} : pc'[q] = pc[q]
      BY <1>1, <1>4, <2>2 DEF Step, ResolveTenant, BeginTx, EnsureContact, FindOpen,
         CreateConversation, Claim, InsertMessage, Touch, Commit, Enqueue, NextMessage, Goto
    <3>2. QED
      BY <3>1
  <2>3. QED
    BY <2>1, <2>2
<1>5. ASSUME NEW r \in Request, Fail(r) PROVE DeliveryIsPayload'
  BY <1>3, <1>5 DEF Fail, StatementFails, CommitAnswerLost, EnqueueRetried, EnqueueFails,
                    EnqueueAnswerLost
<1>6. CASE Crash
  BY <1>6 DEF Crash
<1>7. CASE UNCHANGED vars
  BY <1>7 DEF vars
<1>8. QED
  BY <1>2, <1>4, <1>5, <1>6, <1>7 DEF Next

\* Whoever gets 200 has had the whole of its payload persisted.
THEOREM WholePayloadAnsweredHolds == Spec => WholePayloadAnswered
<1>1. Init => DeliveryIsPayload
  BY DEF Init, DeliveryIsPayload
<1>2. ASSUME Inv, DeliveryIsPayload, NEW r \in Request, Respond(r)
      PROVE  \E w \in Accepted : /\ Answered(w)'
                                 /\ \A m \in Texts(w.body) : Known(m) => Persisted(KeyOf(m))
  <2> DEFINE D == Range(delivery[r])
  <2>1. /\ pc[r] = "next" /\ pos[r] > Len(delivery[r])
        /\ pos[r] \in Nat /\ delivery[r] \in Seq(Inbound) /\ Len(delivery[r]) \in Nat
        /\ acked' = acked \cup {delivery[r][i] : i \in 1..Len(delivery[r])}
    BY <1>2 DEF Inv, TypeOK, Respond
  <2>2. PICK w \in Accepted : delivery[r] = Extract(w.body)
    BY <1>2, <2>1 DEF DeliveryIsPayload
  <2>3. Texts(w.body) = D
    <3>1. w \in Webhook /\ Parses(w.body)
      BY <2>2 DEF Accepted, Accepts
    <3>2. QED
      BY <2>2, <3>1, WebhookAssumption, ExtractFindsTexts
  <2>4. D = {delivery[r][i] : i \in 1..Len(delivery[r])}
    BY <2>1 DEF Range
  <2>5. Answered(w)'
    BY <2>1, <2>2, <2>3, <2>4 DEF Answered, TextsOf
  <2>6. ASSUME NEW m \in D, Known(m) PROVE Persisted(KeyOf(m))
    <3>1. PICK i \in 1..Len(delivery[r]) : m = delivery[r][i]
      BY <2>4
    <3>2. KeyOf(m) \in processed
      BY <1>2, <2>1, <2>6, <3>1 DEF Inv, LocalInv, PastIsProcessed
    <3>3. QED
      BY <1>2, <3>2 DEF Inv, TypeOK, TablesAgree, ClaimMatchesMessage
  <2>7. QED
    BY <2>2, <2>3, <2>5, <2>6
<1>3. Inv /\ DeliveryIsPayload => AnswerIsForAll
  BY <1>2 DEF AnswerIsForAll
<1>4. QED
  BY <1>1, <1>3, DeliveryIsPayloadStep, TypeCorrect, InvHolds, PTL
     DEF Spec, WholePayloadAnswered

\* A message and its job are filed under its sender's conversation.
THEOREM FiledUnderItsSenderHolds == Spec => []FiledUnderItsSender
<1>1. Inv => FiledUnderItsSender
  BY DEF Inv, LocalInv, ClaimShape, ContactShape, FiledUnderItsSender, Row, Mine
<1>2. QED
  BY <1>1, InvHolds, PTL

\* A committed message is read by its own tenant and by no other.
THEOREM ReadByItsTenantHolds == Spec => []ReadByItsTenant
<1>1. Inv => ReadByItsTenant
  <2> SUFFICES ASSUME Inv, NEW row \in messages, NEW t \in Tenant
               PROVE  /\ row.key.tenantId = t =>
                           \E c \in Api!List(t) : row \in Api!MessagesOf(t, c.id)
                      /\ row.key.tenantId # t =>
                           \A id \in ConvId : row \notin Api!MessagesOf(t, id)
    BY DEF ReadByItsTenant
  <2>1. ASSUME NEW id \in ConvId, row \in Api!MessagesOf(t, id) PROVE row.key.tenantId = t
    BY <2>1 DEF Api!MessagesOf
  <2>2. ASSUME row.key.tenantId = t
        PROVE  \E c \in Api!List(t) : row \in Api!MessagesOf(t, c.id)
    <3>1. PICK c \in conversations : c.id = row.conversationId /\ c.tenantId = row.key.tenantId
      BY DEF Inv, TablesAgree, EachIsInAConversation
    <3>2. c \in Api!List(t) /\ row \in Api!MessagesOf(t, c.id)
      BY <2>2, <3>1 DEF Api!List, Api!MessagesOf, Api!FindByIdForTenant, Api!Authorized
    <3>3. QED
      BY <3>2
  <2>3. QED
    BY <2>1, <2>2
<1>2. QED
  BY <1>1, InvHolds, PTL

\* The unique key of messages is never hit by an inbound insert.
THEOREM InsertNeverConflictsHolds == Spec => []InsertNeverConflicts
<1>1. Inv => InsertNeverConflicts
  <2> SUFFICES ASSUME Inv, NEW r \in Request, pc[r] = "insert"
               PROVE  /\ ~Persisted(KeyOf(Current(r)))
                      /\ \A q \in Request \ {r} : \A row \in tx[q].messages :
                           row.key # KeyOf(Current(r))
    BY DEF InsertNeverConflicts
  <2>1. TypeOK /\ KeyOf(Current(r)) \in MessageKey
    BY BusyTyped DEF Inv
  <2>2. KeyOf(Current(r)) \in tx[r].processed /\ KeyOf(Current(r)) \notin processed
    BY DEF Inv, LocalInv, ClaimShape, FreshKeys
  <2>3. ~Persisted(KeyOf(Current(r)))
    BY <2>1, <2>2 DEF Inv, TablesAgree, ClaimMatchesMessage
  <2>4. ASSUME NEW q \in Request \ {r}, NEW row \in tx[q].messages
        PROVE  row.key # KeyOf(Current(r))
    <3>1. row.key \in tx[q].processed
      <4>1. ClaimShape(q) /\ pc[q] \in Steps
        BY DEF Inv, LocalInv, TypeOK
      <4>2. Row(q).key = KeyOf(Current(q))
        BY DEF Row
      <4>3. QED
        BY <4>1, <4>2 DEF ClaimShape
    <3>2. tx[r].processed \cap tx[q].processed = {}
      BY DEF Inv, Exclusive
    <3>3. QED
      BY <2>2, <3>1, <3>2
  <2>5. QED
    BY <2>3, <2>4
<1>2. QED
  BY <1>1, InvHolds, PTL

-----------------------------------------------------------------------------
(* Transactions and connections never wait in a circle.                    *)

\* r's statement waits for a lock of q's transaction: the guards of EnsureContact,
\* Claim and Touch.
WaitsFor(r, q) ==
  /\ r # q
  /\ \/ pc[r] = "contact" /\ ContactOf(Current(r)) \in tx[q].contacts
     \/ pc[r] = "claim"   /\ KeyOf(Current(r)) \in tx[q].processed
     \/ pc[r] = "touch"   /\ conv[r] \in tx[q].touched

\* How far a transaction has come.
Progress(r) ==
  CASE pc[r] = "contact" -> 1 [] pc[r] = "open"   -> 2 [] pc[r] = "create" -> 3
    [] pc[r] = "claim"   -> 4 [] pc[r] = "insert" -> 5 [] pc[r] = "touch"  -> 6
    [] pc[r] = "commit"  -> 7 [] OTHER -> 0

\* The row lock of touch is held until the COMMIT that follows it.
TouchShape == \A r \in Request : pc[r] # "commit" => tx[r].touched = {}

WaitsForOneAhead == \A r, q \in Request : WaitsFor(r, q) => Progress(r) < Progress(q)

\* A transaction is open that waits for no lock, or none is and there is a connection
\* for one.
SomebodyGoesOn ==
  \/ \E r \in Request : InTx(r) /\ \A q \in Request : ~WaitsFor(r, q)
  \/ ConnectionFree /\ \A r \in Request : ~InTx(r)

\* Only touch locks the row, right before the COMMIT or the ROLLBACK.
LEMMA TouchShapeStep == TypeOK /\ TouchShape /\ [Next]_vars => TouchShape'
<1> SUFFICES ASSUME TypeOK, TouchShape, [Next]_vars PROVE TouchShape'
  OBVIOUS
<1>1. pc \in [Request -> Steps] /\ tx \in [Request -> Tx]
  BY DEF TypeOK
<1> USE DEF TouchShape
<1>2. ASSUME NEW r \in Request, NEW w \in Webhook, Receive(r, w) PROVE TouchShape'
  BY <1>1, <1>2 DEF Receive, Goto
<1>3. ASSUME NEW r \in Request, End(r) PROVE TouchShape'
  BY <1>1, <1>3 DEF End, Goto, EmptyTx
<1>4. ASSUME NEW r \in Request, Step(r) PROVE TouchShape'
  <2>1. CASE ResolveTenant(r) \/ BeginTx(r) \/ FindOpen(r) \/ Enqueue(r)
    BY <1>1, <2>1 DEF ResolveTenant, BeginTx, FindOpen, Enqueue, NextMessage, Goto
  <2>2. CASE EnsureContact(r)
    BY <1>1, <2>2 DEF EnsureContact, Goto, Tx
  <2>3. CASE CreateConversation(r)
    BY <1>1, <2>3 DEF CreateConversation, Goto, Tx
  <2>4. CASE Claim(r)
    BY <1>1, <2>4 DEF Claim, Goto, Tx
  <2>5. CASE InsertMessage(r)
    BY <1>1, <2>5 DEF InsertMessage, Goto, Tx
  <2>6. CASE Touch(r)
    BY <1>1, <2>6 DEF Touch, Goto, Tx
  <2>7. CASE Commit(r)
    BY <1>1, <2>7 DEF Commit, NextMessage, Goto, EmptyTx
  <2>8. CASE Respond(r)
    BY <1>3, <2>8 DEF Respond
  <2>9. QED
    BY <1>4, <2>1, <2>2, <2>3, <2>4, <2>5, <2>6, <2>7, <2>8 DEF Step
<1>5. ASSUME NEW r \in Request, Fail(r) PROVE TouchShape'
  BY <1>3, <1>5 DEF Fail, StatementFails, CommitAnswerLost, EnqueueRetried, EnqueueFails,
                    EnqueueAnswerLost
<1>6. CASE Crash
  BY <1>6 DEF Crash, EmptyTx
<1>7. CASE UNCHANGED vars
  BY <1>7 DEF vars
<1>8. QED
  BY <1>2, <1>4, <1>5, <1>6, <1>7 DEF Next

\* A transaction that holds the row lock of its conversation has only its COMMIT to do.
THEOREM TouchShapeHolds == Spec => []TouchShape
<1>1. Init => TouchShape
  BY DEF Init, TouchShape, EmptyTx
<1>2. QED
  BY <1>1, TouchShapeStep, TypeCorrect, PTL DEF Spec

\* Every transaction locks the contact, then the claim, then the conversation: who waits
\* for a lock waits for one that is further than itself, so no two wait for each other.
THEOREM WaitsForOneAheadHolds == Spec => []WaitsForOneAhead
<1>1. Inv /\ TouchShape => WaitsForOneAhead
  <2> SUFFICES ASSUME Inv, TouchShape, NEW r \in Request, NEW q \in Request, WaitsFor(r, q)
               PROVE  Progress(r) < Progress(q)
    BY DEF WaitsForOneAhead
  <2>1. LocalInv(q) /\ pc[q] \in Steps
    BY DEF Inv, TypeOK
  <2>2. CASE pc[r] = "contact" /\ tx[q].contacts # {}
    <3>1. pc[q] \in TxSteps \ {"contact"}
      BY <2>1, <2>2 DEF LocalInv, ContactShape
    <3>2. QED
      BY <2>2, <3>1 DEF Progress, TxSteps
  <2>3. CASE pc[r] = "claim" /\ tx[q].processed # {}
    <3>1. pc[q] \in {"insert", "touch", "commit"}
      BY <2>1, <2>3 DEF LocalInv, ClaimShape
    <3>2. QED
      BY <2>3, <3>1 DEF Progress
  <2>4. CASE pc[r] = "touch" /\ tx[q].touched # {}
    BY <2>4 DEF TouchShape, Progress
  <2>5. QED
    BY <2>2, <2>3, <2>4 DEF WaitsFor
<1>2. QED
  BY <1>1, InvHolds, TouchShapeHolds, PTL

\* At every moment a transaction can run its next statement or a request can begin one:
\* neither the locks nor the pool ever bring the webhook to a standstill.
THEOREM SomebodyGoesOnHolds == Spec => []SomebodyGoesOn
<1>1. WaitsForOneAhead => SomebodyGoesOn
  <2> SUFFICES ASSUME WaitsForOneAhead PROVE SomebodyGoesOn
    OBVIOUS
  <2> DEFINE T == {r \in Request : InTx(r)}
             P == {Progress(r) : r \in T}
  <2>1. CASE T = {}
    <3>1. Cardinality(T) = 0
      BY <2>1, FS_EmptySet
    <3>2. QED
      BY <2>1, <3>1, BoundAssumption DEF SomebodyGoesOn, ConnectionFree
  <2>2. CASE T # {}
    <3>1. P \in SUBSET Nat /\ P # {} /\ \A n \in P : n <= 7
      BY <2>2 DEF Progress
    <3>2. Max(P) \in P /\ \A n \in P : Max(P) >= n
      <4> HIDE DEF P
      <4>1. QED
        BY <3>1, MaxIsGreatest
    <3>3. PICK r \in T : Progress(r) = Max(P)
      BY <3>2
    <3>4. ASSUME NEW q \in Request, WaitsFor(r, q) PROVE FALSE
      <4>1. Progress(r) < Progress(q)
        BY <3>3, <3>4 DEF WaitsForOneAhead
      <4>2. Progress(r) \in Nat /\ Progress(q) \in Nat
        BY DEF Progress
      <4>3. InTx(q)
        BY <4>1, <4>2 DEF Progress, InTx, TxSteps
      <4>4. Progress(q) \in P
        BY <4>3
      <4>5. QED
        BY <3>2, <3>3, <4>1, <4>2, <4>4
    <3>5. QED
      BY <3>3, <3>4 DEF SomebodyGoesOn
  <2>3. QED
    BY <2>1, <2>2
<1>2. QED
  BY <1>1, WaitsForOneAheadHolds, PTL

-----------------------------------------------------------------------------
(* The webhook implements module Inbox.                                    *)

\* The stage of a message depends on its claim, its job and its sender alone.
LEMMA StageOf ==
  ASSUME NEW k \in MessageKey
  PROVE  /\ stageOf[k] = "unseen"   <=> k \notin processed
         /\ stageOf[k] = "queued"   <=> k \in processed /\ sends[k] > 0
         /\ stageOf[k] = "accepted" <=> k \in processed /\ ~(sends[k] > 0) /\ AboutToSend(k)
         /\ stageOf[k] = "stranded" <=> k \in processed /\ ~(sends[k] > 0) /\ ~AboutToSend(k)
BY DEF stageOf

\* A message whose claim, job and sender stay the same stays at its stage.
LEMMA StageKept ==
  ASSUME NEW k \in MessageKey, k \in processed' <=> k \in processed, sends'[k] = sends[k],
         AboutToSend(k)' <=> AboutToSend(k)
  PROVE  stageOf'[k] = stageOf[k]
BY DEF stageOf

\* The answered keys are those of the answered payloads.
LEMMA AnswersKept == acked' = acked => answeredKeys' = answeredKeys
BY DEF answeredKeys, Known, KeyOf, TenantFor

\* r's step does not change whether another request is about to send k.
LEMMA OthersAboutToSend ==
  ASSUME NEW r \in Request, \A q \in Request \ {r} : Same(q), NEW k,
         ~(pc[r] = "enqueue" /\ KeyOf(Current(r)) = k),
         ~(pc'[r] = "enqueue" /\ KeyOf(Current(r))' = k)
  PROVE  AboutToSend(k)' <=> AboutToSend(k)
<1>1. \A q \in Request \ {r} : pc'[q] = pc[q] /\ KeyOf(Current(q))' = KeyOf(Current(q))
  BY DEF Same, KeyOf, Current, TenantFor
<1>2. QED
  BY <1>1 DEF AboutToSend

\* A step that neither claims, sends, answers nor starts or stops sending stutters.
LEMMA StutterStep ==
  ASSUME NEW r \in Request, \A q \in Request \ {r} : Same(q),
         pc[r] # "enqueue", pc'[r] # "enqueue",
         processed' = processed, sends' = sends, acked' = acked
  PROVE  UNCHANGED <<stageOf, answeredKeys>>
<1>1. \A k \in MessageKey : stageOf'[k] = stageOf[k]
  BY OthersAboutToSend, StageKept
<1>2. stageOf' = stageOf
  BY <1>1 DEF stageOf
<1>3. QED
  BY <1>2, AnswersKept

\* A step of r that moves the message "key" and no other, and answers nothing.
LEMMA MoveStep ==
  ASSUME NEW key \in MessageKey, NEW from, NEW to, acked' = acked,
         stageOf[key] = from, stageOf'[key] = to,
         \A k \in MessageKey \ {key} : stageOf'[k] = stageOf[k]
  PROVE  Abs!Move({key}, from, to)
<1>1. stageOf' = [k \in MessageKey |-> IF k \in {key} THEN to ELSE stageOf[k]]
  <2>1. stageOf' = [k \in MessageKey |-> stageOf'[k]]
    BY DEF stageOf
  <2>2. QED
    BY <2>1
<1>2. QED
  BY <1>1, AnswersKept DEF Abs!Move

\* COMMIT of a message, whoever learns of it.
LEMMA CommitMoves ==
  ASSUME Inv, Inv', NEW r \in Request, NEW key \in MessageKey, key = KeyOf(Current(r)),
         pc[r] = "commit", Publish(r), tx[r].messages # {},
         sends' = sends, acked' = acked, \A q \in Request \ {r} : Same(q),
         \/ pc'[r] = "enqueue" /\ KeyOf(Current(r))' = key
         \/ pc'[r] = "idle"
  PROVE  Abs!Next
<1>1. /\ key \in MessageKey /\ key \notin processed /\ key \in processed'
      /\ \A k \in MessageKey : k \in processed' /\ k \notin processed => k = key
      /\ processed \subseteq processed'
  BY PublishKeepsTables, BusyTyped DEF Inv, Grow
<1>2. stageOf[key] = "unseen" /\ sends[key] = 0 /\ sends'[key] = 0
  BY <1>1, StageOf DEF Inv, SendsAgree
<1>3. \A k \in MessageKey \ {key} : stageOf'[k] = stageOf[k]
  BY <1>1, OthersAboutToSend, StageKept
<1>4. CASE pc'[r] = "enqueue" /\ KeyOf(Current(r))' = key
  <2>1. stageOf'[key] = "accepted"
    <3>1. AboutToSend(key)'
      BY <1>4 DEF AboutToSend
    <3>2. QED
      BY <1>1, <1>2, <3>1 DEF stageOf
  <2>2. QED
    BY <1>1, <1>2, <1>3, <2>1, MoveStep DEF Abs!Next, Abs!Accept
<1>5. CASE pc'[r] = "idle"
  <2>1. ~AboutToSend(key)'
    <3>1. \A q \in Request : pc'[q] = "enqueue" =>
            KeyOf(Current(q))' = KeyOf(Current(q)) /\ KeyOf(Current(q)) \in processed
      BY <1>5 DEF Inv, LocalInv, ClaimShape, Same, KeyOf, Current, TenantFor
    <3>2. QED
      BY <1>1, <3>1 DEF AboutToSend
  <2>2. stageOf'[key] = "stranded"
    BY <1>1, <1>2, <2>1 DEF stageOf
  <2>3. QED
    BY <1>1, <1>2, <1>3, <2>2, MoveStep DEF Abs!Next, Abs!Mislay
<1>6. QED
  BY <1>4, <1>5

\* A request about to send has a claimed message in hand, that is queued already if an
\* attempt has stored a job.
LEMMA SendingStage ==
  ASSUME Inv, NEW r \in Request, NEW key \in MessageKey, key = KeyOf(Current(r)),
         pc[r] = "enqueue"
  PROVE  /\ key \in processed /\ sends \in [MessageKey -> Nat] /\ AboutToSend(key)
         /\ stageOf[key] = IF sends[key] > 0 THEN "queued" ELSE "accepted"
<1>1. key \in processed /\ sends \in [MessageKey -> Nat]
  BY DEF Inv, LocalInv, ClaimShape, TypeOK
<1>2. AboutToSend(key)
  BY DEF AboutToSend
<1>3. QED
  BY <1>1, <1>2 DEF stageOf

\* SQS stores a job: the first one takes the claimed message to "queued".
LEMMA JobStored ==
  ASSUME Inv, NEW r \in Request, NEW key \in MessageKey, key = KeyOf(Current(r)),
         pc[r] = "enqueue", processed' = processed, acked' = acked,
         sends' = [sends EXCEPT ![key] = sends[key] + 1],
         \A k \in MessageKey \ {key} : AboutToSend(k)' <=> AboutToSend(k)
  PROVE  [Abs!Next]_<<stageOf, answeredKeys>>
<1>1. /\ key \in processed /\ sends \in [MessageKey -> Nat]
      /\ stageOf[key] = IF sends[key] > 0 THEN "queued" ELSE "accepted"
  BY SendingStage
<1>2. sends'[key] > 0 /\ \A k \in MessageKey \ {key} : sends'[k] = sends[k]
  BY <1>1
<1>3. \A k \in MessageKey \ {key} : stageOf'[k] = stageOf[k]
  BY <1>2, StageKept
<1>4. stageOf'[key] = "queued"
  BY <1>1, <1>2 DEF stageOf
<1>5. CASE stageOf[key] = "accepted"
  BY <1>3, <1>4, <1>5, MoveStep DEF Abs!Next, Abs!Queue
<1>6. CASE stageOf[key] = "queued"
  <2>1. \A k \in MessageKey : stageOf'[k] = stageOf[k]
    BY <1>3, <1>4, <1>6
  <2>2. stageOf' = stageOf
    BY <2>1 DEF stageOf
  <2>3. QED
    BY <2>2, AnswersKept
<1>7. QED
  BY <1>1, <1>5, <1>6

\* The request gives its send up: a message without a job is stranded.
LEMMA SendGivenUp ==
  ASSUME Inv, NEW r \in Request, NEW key \in MessageKey, key = KeyOf(Current(r)),
         pc[r] = "enqueue", pc'[r] # "enqueue",
         processed' = processed, acked' = acked, sends' = sends,
         \A q \in Request \ {r} : Same(q)
  PROVE  [Abs!Next]_<<stageOf, answeredKeys>>
<1>1. /\ key \in processed /\ sends \in [MessageKey -> Nat]
      /\ stageOf[key] = IF sends[key] > 0 THEN "queued" ELSE "accepted"
  BY SendingStage
<1>2. ASSUME NEW q \in Request PROVE ~(pc'[q] = "enqueue" /\ KeyOf(Current(q))' = key)
  <2>1. CASE q = r
    BY <2>1
  <2>2. CASE q # r
    <3>1. Exclusive(r, q) /\ Same(q) /\ KeyOf(Current(q))' = KeyOf(Current(q))
      BY <2>2 DEF Inv, Same, KeyOf, Current, TenantFor
    <3>2. QED
      BY <3>1 DEF Exclusive, Same
  <2>3. QED
    BY <2>1, <2>2
<1>3. ~AboutToSend(key)'
  BY <1>2 DEF AboutToSend
<1>4. \A k \in MessageKey \ {key} : stageOf'[k] = stageOf[k]
  BY OthersAboutToSend, StageKept
<1>5. CASE sends[key] > 0
  <2>1. stageOf'[key] = stageOf[key]
    BY <1>1, <1>5 DEF stageOf
  <2>2. \A k \in MessageKey : stageOf'[k] = stageOf[k]
    BY <1>4, <2>1
  <2>3. stageOf' = stageOf
    BY <2>2 DEF stageOf
  <2>4. QED
    BY <2>3, AnswersKept
<1>6. CASE ~(sends[key] > 0)
  <2>1. stageOf[key] = "accepted" /\ stageOf'[key] = "stranded"
    BY <1>1, <1>3, <1>6 DEF stageOf
  <2>2. Abs!Move({key}, "accepted", "stranded")
    BY <1>4, <2>1, MoveStep
  <2>3. QED
    BY <2>2 DEF Abs!Next, Abs!Strand
<1>7. QED
  BY <1>5, <1>6

\* A crash drops every message that was about to be sent, and no other.
LEMMA CrashMoves ==
  ASSUME Inv, Crash
  PROVE  [Abs!Next]_<<stageOf, answeredKeys>>
<1> DEFINE K == {k \in MessageKey : stageOf[k] = "accepted"}
<1>1. processed' = processed /\ sends' = sends /\ acked' = acked
      /\ \A k \in MessageKey : ~AboutToSend(k)'
  BY DEF Crash, db, AboutToSend
<1>2. \A k \in MessageKey : stageOf'[k] = IF k \in K THEN "stranded" ELSE stageOf[k]
  BY <1>1 DEF stageOf
<1>3. stageOf' = [k \in MessageKey |-> IF k \in K THEN "stranded" ELSE stageOf[k]]
  <2>1. stageOf' = [k \in MessageKey |-> stageOf'[k]]
    BY DEF stageOf
  <2>2. QED
    BY <1>2, <2>1
<1>4. answeredKeys' = answeredKeys
  BY <1>1, AnswersKept
<1>5. CASE K = {}
  <2>1. stageOf' = [k \in MessageKey |-> stageOf[k]]
    BY <1>3, <1>5
  <2>2. stageOf' = stageOf
    BY <2>1 DEF stageOf
  <2>3. QED
    BY <1>4, <2>2
<1>6. CASE K # {}
  <2>1. Abs!Move(K, "accepted", "stranded")
    BY <1>3, <1>4, <1>6 DEF Abs!Move
  <2>2. K \in SUBSET MessageKey
    OBVIOUS
  <2>3. QED
    BY <2>1, <2>2 DEF Abs!Next, Abs!Strand
<1>7. QED
  BY <1>5, <1>6

\* A 200 answers messages that Inbox has accepted.
LEMMA RespondAnswers ==
  ASSUME Inv, NEW r \in Request, Respond(r)
  PROVE  Abs!Next
<1> DEFINE D == {delivery[r][i] : i \in 1..Len(delivery[r])}
           K == {KeyOf(m) : m \in {n \in D : Known(n)}}
<1>1. /\ TypeOK /\ LocalInv(r) /\ pc[r] = "next" /\ pos[r] > Len(delivery[r])
      /\ acked' = acked \cup D /\ End(r) /\ processed' = processed /\ sends' = sends
  BY DEF Inv, Respond, db
<1>2. pos[r] \in Nat /\ delivery[r] \in Seq(Inbound) /\ Len(delivery[r]) \in Nat
  BY <1>1 DEF TypeOK
<1>3. \A k \in K : k \in processed
  BY <1>1, <1>2 DEF LocalInv, PastIsProcessed
<1>4. K \in SUBSET MessageKey
  BY <1>1, <1>3 DEF TypeOK
<1>5. \A k \in K : stageOf[k] # "unseen"
  BY <1>3, <1>4, StageOf
<1>6. answeredKeys' = answeredKeys \cup K
  BY <1>1 DEF answeredKeys, Known, KeyOf, TenantFor
<1>7. stageOf' = stageOf
  <2>1. pc'[r] = "idle" /\ \A q \in Request \ {r} : Same(q)
    BY <1>1, EndLocal
  <2>2. \A k \in MessageKey : stageOf'[k] = stageOf[k]
    BY <1>1, <2>1, OthersAboutToSend, StageKept
  <2>3. QED
    BY <2>2 DEF stageOf
<1>8. Abs!Answer(K)
  BY <1>5, <1>6, <1>7 DEF Abs!Answer
<1>9. QED
  BY <1>4, <1>8 DEF Abs!Next

\* Each step maps to a step of Inbox or leaves stages and answers as they are.
LEMMA AbsStep == Inv /\ Inv' /\ [Next]_vars => [Abs!Next]_<<stageOf, answeredKeys>>
<1> SUFFICES ASSUME Inv, Inv', [Next]_vars
             PROVE  [Abs!Next]_<<stageOf, answeredKeys>>
  OBVIOUS
<1>0. TypeOK
  BY DEF Inv
<1>1. ASSUME NEW r \in Request, NEW w \in Webhook, Receive(r, w)
      PROVE  UNCHANGED <<stageOf, answeredKeys>>
  <2>1. pc[r] = "idle" /\ pc'[r] = "next" /\ \A q \in Request \ {r} : Same(q)
    BY <1>0, <1>1 DEF Receive, Goto, TypeOK, Same
  <2>2. QED
    BY <1>1, <2>1, StutterStep DEF Receive, db
<1>2. ASSUME NEW r \in Request, Step(r) PROVE [Abs!Next]_<<stageOf, answeredKeys>>
  <2>1. CASE ResolveTenant(r) \/ BeginTx(r) \/ EnsureContact(r) \/ FindOpen(r)
             \/ CreateConversation(r) \/ Claim(r) \/ InsertMessage(r) \/ Touch(r)
    <3>1. processed' = processed /\ sends' = sends /\ acked' = acked
      BY <2>1 DEF ResolveTenant, BeginTx, EnsureContact, FindOpen, CreateConversation, Claim,
                  InsertMessage, Touch, db
    <3>2. pc[r] # "enqueue" /\ pc'[r] # "enqueue"
      BY <1>0, <2>1 DEF TypeOK, ResolveTenant, NextMessage, BeginTx, EnsureContact, FindOpen,
                  CreateConversation, Claim, InsertMessage, Touch, Goto
    <3>3. \A q \in Request \ {r} : Same(q)
      BY <1>0, <2>1 DEF TypeOK, ResolveTenant, NextMessage, BeginTx, EnsureContact, FindOpen,
                  CreateConversation, Claim, InsertMessage, Touch, Goto, Same
    <3>4. QED
      BY <3>1, <3>2, <3>3, StutterStep
  <2>2. CASE Commit(r)
    <3>1. /\ pc[r] = "commit" /\ Publish(r) /\ sends' = sends /\ acked' = acked
          /\ delivery' = delivery /\ \A q \in Request \ {r} : Same(q)
      BY <1>0, <2>2 DEF TypeOK, Commit, NextMessage, Goto, Same
    <3>2. CASE tx[r].messages # {} /\ Goto(r, "enqueue") /\ UNCHANGED <<pos, conv, attempt>>
      <4>1. pc'[r] = "enqueue" /\ KeyOf(Current(r))' = KeyOf(Current(r))
        BY <1>0, <3>1, <3>2, SameMessage DEF TypeOK, Goto
      <4>2. KeyOf(Current(r)) \in MessageKey
        BY <1>0, <3>1, BusyTyped
      <4>3. QED
        BY <3>1, <3>2, <4>1, <4>2, CommitMoves
    <3>3. CASE tx[r].messages = {} /\ NextMessage(r)
      <4>1. tx[r].processed = {}
        BY <3>1, <3>3 DEF Inv, LocalInv, ClaimShape
      <4>2. processed' = processed /\ pc'[r] = "next"
        BY <1>0, <3>1, <3>3, <4>1 DEF Publish, NextMessage, Goto, TypeOK
      <4>3. QED
        BY <3>1, <4>2, StutterStep
    <3>4. QED
      BY <2>2, <3>2, <3>3 DEF Commit
  <2>3. CASE Enqueue(r)
    <3>1. /\ pc[r] = "enqueue" /\ pc'[r] = "next" /\ processed' = processed /\ acked' = acked
          /\ \A q \in Request \ {r} : Same(q)
          /\ sends' = [sends EXCEPT ![KeyOf(Current(r))] = sends[KeyOf(Current(r))] + 1]
      BY <1>0, <2>3 DEF TypeOK, Enqueue, NextMessage, Goto, Same, db
    <3>2. KeyOf(Current(r)) \in MessageKey
      BY <1>0, <3>1, BusyTyped
    <3>3. \A k \in MessageKey \ {KeyOf(Current(r))} : AboutToSend(k)' <=> AboutToSend(k)
      BY <3>1, OthersAboutToSend
    <3>4. QED
      BY <3>1, <3>2, <3>3, JobStored
  <2>4. CASE Respond(r)
    BY <2>4, RespondAnswers
  <2>5. QED
    BY <1>2, <2>1, <2>2, <2>3, <2>4 DEF Step
<1>3. ASSUME NEW r \in Request, Fail(r) PROVE [Abs!Next]_<<stageOf, answeredKeys>>
  <2>1. ASSUME End(r) PROVE pc'[r] = "idle" /\ \A q \in Request \ {r} : Same(q)
    BY <1>0, <2>1, EndLocal
  <2>2. ASSUME pc[r] = "enqueue" PROVE KeyOf(Current(r)) \in MessageKey
    BY <1>0, <2>2, BusyTyped
  <2>3. CASE StatementFails(r)
    BY <2>1, <2>3, StutterStep DEF StatementFails, TxSteps, db
  <2>4. CASE CommitAnswerLost(r)
    <3>1. pc[r] = "commit" /\ Publish(r) /\ sends' = sends /\ acked' = acked /\ End(r)
      BY <2>4 DEF CommitAnswerLost
    <3>2. CASE tx[r].messages # {}
      <4>1. KeyOf(Current(r)) \in MessageKey
        BY <1>0, <3>1, BusyTyped
      <4>2. QED
        BY <2>1, <3>1, <3>2, <4>1, CommitMoves
    <3>3. CASE tx[r].messages = {}
      <4>1. tx[r].processed = {}
        BY <3>1, <3>3 DEF Inv, LocalInv, ClaimShape
      <4>2. processed' = processed
        BY <3>1, <4>1 DEF Publish
      <4>3. QED
        BY <2>1, <3>1, <4>2, StutterStep
    <3>4. QED
      BY <3>2, <3>3
  <2>5. CASE EnqueueFails(r)
    BY <2>1, <2>2, <2>5, SendGivenUp DEF EnqueueFails, db
  <2>6. CASE EnqueueAnswerLost(r)
    <3>1. /\ pc[r] = "enqueue" /\ processed' = processed /\ acked' = acked /\ End(r)
          /\ sends' = [sends EXCEPT ![KeyOf(Current(r))] = sends[KeyOf(Current(r))] + 1]
      BY <2>6 DEF EnqueueAnswerLost, db
    <3>2. \A k \in MessageKey \ {KeyOf(Current(r))} : AboutToSend(k)' <=> AboutToSend(k)
      BY <2>1, <3>1, OthersAboutToSend
    <3>3. QED
      BY <2>2, <3>1, <3>2, JobStored
  <2>7. CASE EnqueueRetried(r)
    <3>1. /\ pc[r] = "enqueue" /\ processed' = processed /\ acked' = acked
          /\ pc' = pc /\ delivery' = delivery /\ pos' = pos
          /\ \/ sends' = sends
             \/ sends' = [sends EXCEPT ![KeyOf(Current(r))] = sends[KeyOf(Current(r))] + 1]
      BY <2>7 DEF EnqueueRetried, db
    <3>2. \A k \in MessageKey : AboutToSend(k)' <=> AboutToSend(k)
      BY <3>1 DEF AboutToSend, KeyOf, Current, TenantFor
    <3>3. CASE sends' = sends
      <4>1. \A k \in MessageKey : stageOf'[k] = stageOf[k]
        BY <3>1, <3>2, <3>3, StageKept
      <4>2. stageOf' = stageOf
        BY <4>1 DEF stageOf
      <4>3. QED
        BY <3>1, <4>2, AnswersKept
    <3>4. CASE sends' # sends
      BY <2>2, <3>1, <3>2, <3>4, JobStored
    <3>5. QED
      BY <3>3, <3>4
  <2>8. QED
    BY <1>3, <2>3, <2>4, <2>5, <2>6, <2>7 DEF Fail
<1>4. CASE Crash
  BY <1>4, CrashMoves
<1>5. CASE UNCHANGED vars
  <2>1. processed' = processed /\ sends' = sends /\ acked' = acked /\ pc' = pc
        /\ delivery' = delivery /\ pos' = pos
    BY <1>5 DEF vars
  <2>2. \A k \in MessageKey : AboutToSend(k)' <=> AboutToSend(k)
    BY <2>1 DEF AboutToSend, KeyOf, Current, TenantFor
  <2>3. \A k \in MessageKey : stageOf'[k] = stageOf[k]
    BY <2>1, <2>2, StageKept
  <2>4. stageOf' = stageOf
    BY <2>3 DEF stageOf
  <2>5. QED
    BY <2>1, <2>4, AnswersKept
<1>6. QED
  BY <1>1, <1>2, <1>3, <1>4, <1>5 DEF Next

\* POST /webhook keeps the promise of module Inbox: a message is accepted once, gets its
\* jobs only after it was accepted and from the request that did, and is answered only if
\* accepted.
THEOREM WebhookImplementsInbox == Spec => ImplementsInbox
<1>1. Init => Abs!Init
  <2> SUFFICES ASSUME Init PROVE Abs!Init
    OBVIOUS
  <2>1. stageOf = [k \in MessageKey |-> "unseen"]
    BY DEF Init, stageOf
  <2>2. answeredKeys = {}
    BY DEF Init, answeredKeys
  <2>3. QED
    BY <2>1, <2>2 DEF Abs!Init
<1>2. QED
  BY <1>1, AbsStep, InvHolds, PTL DEF Spec, ImplementsInbox, Abs!Spec

=============================================================================
