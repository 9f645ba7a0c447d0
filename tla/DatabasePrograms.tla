-------------------------- MODULE DatabasePrograms --------------------------
(***************************************************************************)
(* What the application does to PostgreSQL, as programs for SessionLocks:  *)
(* the table locks of every statement of src/tryops/db.py in the order it  *)
(* executes them, with its commits, and the connections the API's handlers,*)
(* the metrics scrape and the migration script open around them.  A branch *)
(* that depends on the stored rows or on the request is a Maybe.           *)
(***************************************************************************)
EXTENDS Naturals, Sequences

Lock(mode, tables) == [i \in DOMAIN tables |-> [op |-> "lock", table |-> tables[i], mode |-> mode]]
Read(tables) == Lock("AccessShare", tables)
Write(tables) == Lock("RowExclusive", tables)
Index(tables) == Lock("Share", tables)
Alter(tables) == Lock("AccessExclusive", tables)
Simple(op) == <<[op |-> op]>>
Committed(body) == body \o Simple("commit")
Branch(next) == <<[op |-> "branch", next |-> next]>>
Maybe(body) == Branch({1, 1 + Len(body)}) \o body
Either(a, b) == Branch({1, 2 + Len(a)}) \o a \o Branch({1 + Len(b)}) \o b

-----------------------------------------------------------------------------
\* connect and _ensure_schema, executed for every connection.

\* CREATE TABLE IF NOT EXISTS of an existing table locks nothing.
SchemaScript ==
    Committed(Index(<<"accounts", "user_profiles", "account_members", "account_audit_log",
                      "account_invitations", "requests", "feedback", "artifact_objects">>))

\* ADD COLUMN IF NOT EXISTS locks the table even when the column is there;
\* the indexes that follow are on tables it holds, but for one.
EnsureAccountColumns ==
    Committed(Alter(<<"accounts", "user_profiles", "requests", "feedback", "jobs",
                      "artifact_objects", "models", "audit_log">>)
              \o Index(<<"account_invitations">>))

EnsureDemoAccount == Committed(Write(<<"user_profiles", "accounts", "account_members">>))

BackfillDemoAccount == Committed(Write(<<"requests", "feedback", "jobs", "models", "audit_log">>))

BackfillAvatarImages ==
    Committed(Read(<<"user_profiles">>) \o Maybe(Write(<<"user_profiles">>))
              \o Read(<<"accounts", "user_profiles">>) \o Maybe(Write(<<"accounts">>)))

EnsureSchema ==
    SchemaScript \o EnsureAccountColumns \o EnsureDemoAccount
    \o BackfillDemoAccount \o BackfillAvatarImages

Connect == Simple("enter") \o EnsureSchema \o Simple("leave")

\* conn = db.connect(); try: ... finally: conn.close()
Connection(body) == Connect \o body \o Simple("close")

\* The second _ensure_schema runs without the process's lock.
InitDb == Connection(EnsureSchema)

-----------------------------------------------------------------------------
\* Users and workspaces.

Membership == Read(<<"account_members", "accounts", "user_profiles">>)
ResolveAccount == Membership
ListAccounts == Membership

UpsertUserProfile == Committed(Write(<<"user_profiles">>))

CreateAccount ==
    UpsertUserProfile
    \o Committed(Write(<<"accounts", "account_members", "account_audit_log">>))
    \o ResolveAccount

AcceptPendingInvitations ==
    Maybe(Committed(Read(<<"account_invitations">>)
                    \o Maybe(Read(<<"account_members">>)
                             \o Write(<<"account_members", "account_invitations", "account_audit_log">>))))

\* A user with memberships has them refreshed and a garbled name repaired;
\* a new one gets a workspace.
KnownUser == Committed(Write(<<"account_members">>) \o Maybe(Write(<<"accounts">>))) \o ListAccounts
BootstrapAccount ==
    UpsertUserProfile \o AcceptPendingInvitations \o ListAccounts
    \o Either(KnownUser, CreateAccount)

UpdateAccount ==
    Read(<<"accounts">>) \o Maybe(Committed(Write(<<"accounts">>)) \o Read(<<"accounts">>))

GetAccountMembers == Read(<<"account_members", "user_profiles">>)
SearchUserProfiles == Maybe(Read(<<"user_profiles">>))
ListAccountInvitations == Read(<<"account_invitations">>)

CreateAccountInvitation ==
    Maybe(Read(<<"account_invitations">>)
          \o Maybe(Read(<<"user_profiles">>) \o Maybe(Read(<<"account_members">>))
                   \o Maybe(Committed(Write(<<"account_invitations">>))
                            \o AcceptPendingInvitations
                            \o Read(<<"account_invitations">>))))

RevokeAccountInvitation ==
    Committed(Write(<<"account_invitations", "account_audit_log">>)) \o Read(<<"account_invitations">>)

UpdateAccountMember ==
    Read(<<"account_members">>)
    \o Maybe(Committed(Write(<<"account_members">>)) \o Read(<<"account_members">>))

-----------------------------------------------------------------------------
\* Requests, jobs, artifacts, feedback, models, reports.

InsertRequest == Committed(Write(<<"requests">>))
ListRequests == Read(<<"requests">>)
UpsertJobSnapshot == Committed(Write(<<"jobs">>))
ReadJobs == Read(<<"jobs">>)
InsertArtifactObject == Committed(Write(<<"artifact_objects">>))
ReadArtifact == Read(<<"artifact_objects">>)
UpdateRequestOutput == Committed(Write(<<"requests">>))
UpdateJobResult == Committed(Write(<<"jobs">>))
InsertFeedback == Committed(Write(<<"feedback">>))
UpsertModel == Committed(Write(<<"models">>))
ListModels == Read(<<"models">>)
InsertAudit == Committed(Write(<<"audit_log">>))
RequestAggregate == Read(<<"requests">>)

DashboardSummary == RequestAggregate \o Read(<<"feedback", "models">>) \o RequestAggregate
AccountQuotaSummary == Read(<<"accounts", "tryops_quota_usage">>)
AccountDashboardSummary ==
    Read(<<"accounts">>)
    \o Maybe(Read(<<"requests", "feedback">>) \o ListRequests \o ListModels \o RequestAggregate
             \o AccountQuotaSummary \o GetAccountMembers)

-----------------------------------------------------------------------------
\* The handlers of the API and the tools, each over the connections it opens
\* one after the other; a refusal skips what is left of the handler.

\* _bootstrap_or_demo_account, for a signed-in user.
SignedInAccount == Connection(BootstrapAccount \o ListAccounts \o Maybe(ResolveAccount))

\* The same for an API key, whose workspace is the demo account: when its
\* membership is not active, init_db opens a second connection.
DemoAccount == Connection(ResolveAccount \o Maybe(InitDb \o ResolveAccount))

BootstrapOrDemoAccount == Either(SignedInAccount, DemoAccount)

\* A user's handler resolves the account first; one of an owner then asks
\* for the role.  An administrator's only asks for the scope.
ForUser(work) == Maybe(BootstrapOrDemoAccount \o work)
ForOwner(work) == ForUser(Maybe(work))
ForAdmin(work) == Maybe(work)

BootstrapHandler == ForUser(<<>>)
CreateAccountHandler == ForAdmin(Connection(CreateAccount \o ListAccounts))
UpdateAccountHandler == ForOwner(Connection(UpdateAccount))
AccountDashboardHandler == ForUser(Connection(AccountDashboardSummary))
AccountQuotaHandler == ForUser(Connection(AccountQuotaSummary))
MembersHandler == ForUser(Connection(GetAccountMembers))
SearchHandler == ForOwner(Connection(SearchUserProfiles))
InvitationsHandler == ForOwner(Connection(ListAccountInvitations))
InviteHandler == ForOwner(Connection(CreateAccountInvitation))
RevokeHandler == ForOwner(Connection(RevokeAccountInvitation))
UpdateMemberHandler == ForOwner(Connection(UpdateAccountMember))
HistoryHandler == ForAdmin(Connection(ListRequests))
\* The account is resolved on a connection of its own while this one is open.
FeedbackHandler == Connection(Maybe(BootstrapOrDemoAccount) \o InsertFeedback \o InsertAudit)
DashboardHandler == ForAdmin(Connection(DashboardSummary))
ModelsHandler == ForAdmin(Connection(ListModels))
PromoteModelHandler == ForAdmin(Connection(UpsertModel \o InsertAudit))
PersistJobSnapshot == Connection(UpsertJobSnapshot)
ReadPersistedJobs == Connection(ReadJobs)
ArtifactRecord == Connection(ReadArtifact)
RecordRequest == Connection(InsertRequest)
StoreUpload == Connection(InsertArtifactObject)
StoreOutputs == Connection(InsertArtifactObject \o Maybe(InsertArtifactObject)
                           \o Maybe(InsertArtifactObject) \o InsertArtifactObject)

\* render_persistent_prometheus_metrics: four reads in one transaction.
ScrapeMetrics == Connection(RequestAggregate \o Read(<<"tryops_quota_usage", "accounts", "account_members">>))

\* The migration script, for one legacy row.
MigrateArtifacts ==
    Connection(ListRequests
               \o Maybe(ReadArtifact \o Maybe(InsertArtifactObject)
                        \o UpdateRequestOutput \o UpdateJobResult
                        \o Maybe(InsertArtifactObject)))
=============================================================================
