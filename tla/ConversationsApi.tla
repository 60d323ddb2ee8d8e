-------------------------- MODULE ConversationsApi --------------------------
(***************************************************************************)
(* GET /conversations and GET /conversations/:id/messages: what a caller   *)
(* reads of the committed tables with an X-Tenant-Id header.  Rows are     *)
(* never deleted nor given to another tenant, so the two SELECTs of        *)
(* messagesOf are taken at one time; the order of the rows is abstracted.  *)
(***************************************************************************)
CONSTANT Tenant                     \* ids of the rows of table tenants
VARIABLES conversations, messages   \* committed rows

\* TenantGuard: the header must name a tenant; its id scopes every query.
Authorized(header) == header \in Tenant

\* ConversationsController.list
List(header) ==
  {c \in conversations : Authorized(header) /\ c.tenantId = header}

\* conversations.findByIdForTenant, a set of one row or none
FindByIdForTenant(tenantId, id) ==
  {c \in conversations : c.tenantId = tenantId /\ c.id = id}

\* Bug: the conversation is looked up without the tenant.
MessagesOfConversation(header, id) ==
  {m \in messages : Authorized(header) /\ m.conversationId = id}

\* ConversationsController.messagesOf: none (404) unless the conversation is the
\* tenant's; messages.listByConversation asks for the tenant once more.
MessagesOf(header, id) ==
  {m \in messages : /\ Authorized(header)
                    /\ FindByIdForTenant(header, id) # {}
                    /\ m.key.tenantId = header /\ m.conversationId = id}
=============================================================================
