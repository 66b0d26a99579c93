------------------------------ MODULE Accounts -----------------------------
(***************************************************************************)
(* Signing up and logging in with Supabase as the auth provider.           *)
(*                                                                         *)
(* An account lives in two places: at the provider, reached over HTTP, and *)
(* in the local tables.  Signup is a saga: create the provider's account,  *)
(* write user, organisation and membership in one transaction, and delete  *)
(* the account again if the transaction fails.  Login signs in at the      *)
(* provider and then brings the local row in line; a user from the time of *)
(* local passwords is moved to the provider on the way.                    *)
(*                                                                         *)
(* Every SQL statement and every HTTP call is one action.  Requests carry  *)
(* the right password: with a wrong one a request changes nothing.         *)
(***************************************************************************)
EXTENDS Integers

CONSTANTS
    NRequests,     \* bound: requests in one behaviour
    Email, Slug,
    LegacyUsers,   \* the users that still have a local password at the start
    OldOrg,        \* the organisation they belong to
    Faults         \* "refused", "unacked", "crash", as in StatusPipeline

ASSUME AccountsAssumption ==
    /\ LegacyUsers \subseteq Email /\ OldOrg \in Slug
    /\ NRequests \in Nat
    /\ Faults \subseteq {"refused", "unacked", "crash"}

Request == 1 .. NRequests              \* in the order they arrive

VARIABLES
    (* the database and the provider *)
    users,      \* per e-mail: no row, a row with a password, or the linked account
    orgs,       \* organizations, by slug
    members,    \* members, as pairs of e-mail and slug
    accounts,   \* the provider's account for an e-mail, or 0
    issued,     \* accounts the provider has created so far
    (* the requests *)
    pc,         \* the call a request makes next, or how it was answered
    form,       \* what it asks for
    id,         \* supabaseUser.ID
    tx,         \* what its open transaction has done, not yet committed
    (* history *)
    hurried,    \* a login and a signup for one e-mail have overlapped
    troubled    \* a signup was cut off once the account was there, a commit was
                \* not acknowledged, or a clean-up failed

store == <<users, orgs, members, accounts, issued>>
local == <<form, id, tx>>
vars  == <<store, pc, local, hurried, troubled>>

NoRow    == 0
Password == -1                         \* password_hash set, no auth_user_id
Account  == 1 .. NRequests

Form == [kind : {"signup"}, email : Email, slug : Slug]
            \cup [kind : {"login"}, email : Email]

NoForm == [kind |-> "none"]

Answers == {"created", "loggedIn", "refused"}

email(r) == form[r].email
slug(r)  == form[r].slug

At(r, call)  == pc[r] = call
Running(r)   == pc[r] \notin {"new"} \cup Answers
SigningUp(r) == form[r].kind = "signup"

Init ==
    /\ users = [e \in Email |-> IF e \in LegacyUsers THEN Password ELSE NoRow]
    /\ orgs = IF LegacyUsers = {} THEN {} ELSE {OldOrg}
    /\ members = LegacyUsers \X {OldOrg}
    /\ accounts = [e \in Email |-> 0]
    /\ issued = 0
    /\ pc = [r \in Request |-> "new"]
    /\ form = [r \in Request |-> NoForm]
    /\ id = [r \in Request |-> 0]
    /\ tx = [r \in Request |-> {}]
    /\ hurried = FALSE /\ troubled = FALSE

(* ---------------------------- how calls end ---------------------------- *)

WriteOutcome == {"ok"} \cup (Faults \cap {"refused", "unacked"})
ReadOutcome  == {"ok"} \cup (Faults \cap {"refused"})

Applied(o) == o # "refused"

Note(trouble) == troubled' = (troubled \/ trouble)

Goto(r, call) == pc' = [pc EXCEPT ![r] = call] /\ UNCHANGED local

\* The mistake of a missing defer tx.Rollback.
Answer_NoRollback(r, a) ==
    /\ pc' = [pc EXCEPT ![r] = a]
    /\ UNCHANGED local

\* The request is answered; a transaction that is still open is rolled back.
Answer(r, a) ==
    /\ pc' = [pc EXCEPT ![r] = a]
    /\ form' = [form EXCEPT ![r] = NoForm]
    /\ id' = [id EXCEPT ![r] = 0]
    /\ tx' = [tx EXCEPT ![r] = {}]

\* The mistake of giving up without deleting the account that was created.
Abandon_Orphan(r) == Answer(r, "refused")

\* The mistake of deleting the account when a login fails, too.
Abandon_DeletesAlways(r) == Goto(r, "cleanup")

\* An error once the provider's account exists.  A signup deletes the account
\* first, while its transaction, rolled back by a defer, is still open.
Abandon(r) ==
    \/ ~SigningUp(r) /\ Answer(r, "refused")
    \/ SigningUp(r) /\ Goto(r, "cleanup")

\* Goes on with what is known about the provider's account.
WithAccount(r, account, call) ==
    /\ id' = [id EXCEPT ![r] = account]
    /\ pc' = [pc EXCEPT ![r] = call]
    /\ UNCHANGED <<form, tx>>

Does(r, what, call) ==
    /\ tx' = [tx EXCEPT ![r] = @ \cup {what}]
    /\ pc' = [pc EXCEPT ![r] = call]
    /\ UNCHANGED <<form, id>>

\* Another transaction holds the row or the unique key: the statement waits.
UserLocked(r) == \E q \in Request \ {r} : "user" \in tx[q] /\ email(q) = email(r)
SlugLocked(r) == \E q \in Request \ {r} : "org" \in tx[q] /\ slug(q) = slug(r)

(* ------------------------------- requests ------------------------------ *)

Start(r) ==
    /\ At(r, "new") /\ \A q \in 1 .. r - 1 : ~At(q, "new")
    /\ \E f \in Form :
        /\ form' = [form EXCEPT ![r] = f]
        /\ pc' = [pc EXCEPT ![r] = IF f.kind = "signup" THEN "checkEmail" ELSE "signIn"]
        /\ hurried' = (hurried \/ \E q \in Request :
               Running(q) /\ email(q) = f.email /\ form[q].kind # f.kind)
    /\ UNCHANGED <<id, tx>>
    /\ UNCHANGED <<store, troubled>>

\* signupWithSupabase looks for a local user with this e-mail ...
CheckEmail(r) ==
    /\ At(r, "checkEmail")
    /\ \E o \in ReadOutcome :
        \/ o # "ok" /\ Answer(r, "refused")
        \/ o = "ok" /\ users[email(r)] # NoRow /\ Answer(r, "refused")
        \/ o = "ok" /\ users[email(r)] = NoRow /\ Goto(r, "checkSlug")
    /\ UNCHANGED <<store, hurried, troubled>>

\* ... and for an organisation with this slug, ...
ensureSlugAvailable(r) ==
    /\ At(r, "checkSlug")
    /\ \E o \in ReadOutcome :
        \/ o # "ok" /\ Answer(r, "refused")
        \/ o = "ok" /\ slug(r) \in orgs /\ Answer(r, "refused")
        \/ o = "ok" /\ slug(r) \notin orgs /\ Goto(r, "createAccount")
    /\ UNCHANGED <<store, hurried, troubled>>

\* ... then creates the account.  A login that moves a user to the provider
\* does the same, and signs in if the account is there already (EnsureUser).
CreateUser(r) ==
    /\ At(r, "createAccount")
    /\ \E o \in WriteOutcome :
        /\ Note(SigningUp(r) /\ o = "unacked")
        /\ \/ /\ accounts[email(r)] # 0
              /\ \/ o # "ok" /\ Answer(r, "refused")
                 \/ o = "ok" /\ SigningUp(r) /\ Answer(r, "refused")
                 \/ o = "ok" /\ ~SigningUp(r) /\ Goto(r, "ensureSignIn")
              /\ UNCHANGED <<accounts, issued>>
           \/ /\ accounts[email(r)] = 0
              /\ issued' = issued + (IF Applied(o) THEN 1 ELSE 0)
              /\ accounts' = IF Applied(o)
                             THEN [accounts EXCEPT ![email(r)] = issued + 1]
                             ELSE accounts
              /\ \/ o # "ok" /\ Answer(r, "refused")
                 \/ /\ o = "ok"
                    /\ WithAccount(r, issued + 1,
                                   IF SigningUp(r) THEN "begin" ELSE "link")
    /\ UNCHANGED <<users, orgs, members, hurried>>

SignInWithPassword(r) ==
    /\ pc[r] \in {"signIn", "ensureSignIn"}
    /\ \E o \in ReadOutcome :
        \/ o # "ok" /\ Answer(r, "refused")
        \/ /\ o = "ok" /\ accounts[email(r)] # 0
           /\ WithAccount(r, accounts[email(r)],
                          IF At(r, "signIn") THEN "byIdentity" ELSE "link")
        \/ /\ o = "ok" /\ accounts[email(r)] = 0 /\ At(r, "signIn")
           /\ Goto(r, "legacyLookup")
        \/ /\ o = "ok" /\ accounts[email(r)] = 0 /\ At(r, "ensureSignIn")
           /\ Answer(r, "refused")
    /\ UNCHANGED <<store, hurried, troubled>>

\* migrateLegacyUserToSupabase: only a local password can be moved.
LegacyLookup(r) ==
    /\ At(r, "legacyLookup")
    /\ \E o \in ReadOutcome :
        \/ o # "ok" /\ Answer(r, "refused")
        \/ o = "ok" /\ users[email(r)] = Password /\ Goto(r, "createAccount")
        \/ o = "ok" /\ users[email(r)] # Password /\ Answer(r, "refused")
    /\ UNCHANGED <<store, hurried, troubled>>

Begin(r) ==
    /\ At(r, "begin")
    /\ \E o \in ReadOutcome :
        \/ o # "ok" /\ Abandon(r)
        \/ o = "ok" /\ Does(r, "begin", "byIdentity")
    /\ UNCHANGED <<store, hurried, troubled>>

(* syncSupabaseUser: inside the transaction of a signup, statement by        *)
(* statement for a login.                                                    *)

GetByAuthIdentity(r) ==
    /\ At(r, "byIdentity")
    /\ \E o \in ReadOutcome :
        \/ o # "ok" /\ Abandon(r)
        \/ o = "ok" /\ Goto(r, IF users[email(r)] = id[r] THEN "link" ELSE "byEmail")
    /\ UNCHANGED <<store, hurried, troubled>>

GetByEmail(r) ==
    /\ At(r, "byEmail")
    /\ \E o \in ReadOutcome :
        \/ o # "ok" /\ Abandon(r)
        \/ o = "ok" /\ Goto(r, IF users[email(r)] # NoRow THEN "link" ELSE "insertUser")
    /\ UNCHANGED <<store, hurried, troubled>>

\* A write to the user's row: part of the transaction, or effective at once.
WriteUser(r, o, call) ==
    /\ ~UserLocked(r)
    /\ users' = IF Applied(o) /\ ~SigningUp(r)
                THEN [users EXCEPT ![email(r)] = id[r]] ELSE users
    /\ \/ o # "ok" /\ Abandon(r)
       \/ o = "ok" /\ SigningUp(r) /\ Does(r, "user", call)
       \/ o = "ok" /\ ~SigningUp(r) /\ Goto(r, call)

AfterSync(r) == IF SigningUp(r) THEN "createOrg" ELSE "getOrgs"

\* A duplicate key aborts the transaction of a signup: its retry can only fail.
CreateFromAuth(r) ==
    /\ At(r, "insertUser") /\ ~UserLocked(r)
    /\ \/ /\ users[email(r)] = NoRow
          /\ \E o \in WriteOutcome : WriteUser(r, o, AfterSync(r))
       \/ /\ users[email(r)] # NoRow
          /\ \/ SigningUp(r) /\ Does(r, "abort", "retryIdentity")
             \/ ~SigningUp(r) /\ Goto(r, "retryIdentity")
          /\ UNCHANGED users
    /\ UNCHANGED <<orgs, members, accounts, issued, hurried, troubled>>

RetryByAuthIdentity(r) ==
    /\ At(r, "retryIdentity")
    /\ \E o \in ReadOutcome :
        \/ (o # "ok" \/ "abort" \in tx[r]) /\ Abandon(r)
        \/ /\ o = "ok" /\ "abort" \notin tx[r]
           /\ Goto(r, IF users[email(r)] = id[r] THEN AfterSync(r) ELSE "retryEmail")
    /\ UNCHANGED <<store, hurried, troubled>>

RetryByEmail(r) ==
    /\ At(r, "retryEmail")
    /\ \E o \in ReadOutcome :
        \/ (o # "ok" \/ users[email(r)] = NoRow) /\ Abandon(r)
        \/ o = "ok" /\ users[email(r)] # NoRow /\ Goto(r, "link")
    /\ UNCHANGED <<store, hurried, troubled>>

\* The row gets the account and loses its password.
LinkAuthIdentity(r) ==
    /\ At(r, "link")
    /\ \E o \in WriteOutcome : WriteUser(r, o, AfterSync(r))
    /\ UNCHANGED <<orgs, members, accounts, issued, hurried, troubled>>

(* The rest of a signup, and of a login.                                     *)

\* The mistake of having no unique index on the slug.
CreateOrg_NotUnique(r) ==
    /\ At(r, "createOrg")
    /\ \E o \in ReadOutcome :
        \/ o # "ok" /\ Abandon(r)
        \/ o = "ok" /\ Does(r, "org", "addMember")
    /\ UNCHANGED <<store, hurried, troubled>>

\* The mistake of inserting the organisation through the pool, not through tx.
CreateOrg_Outside(r) ==
    /\ At(r, "createOrg") /\ ~SlugLocked(r)
    /\ \E o \in ReadOutcome :
        \/ (o # "ok" \/ slug(r) \in orgs) /\ Abandon(r) /\ UNCHANGED orgs
        \/ /\ o = "ok" /\ slug(r) \notin orgs
           /\ orgs' = orgs \cup {slug(r)} /\ Goto(r, "addMember")
    /\ UNCHANGED <<users, members, accounts, issued, hurried, troubled>>

CreateOrg(r) ==
    /\ At(r, "createOrg") /\ ~SlugLocked(r)
    /\ \E o \in ReadOutcome :
        \/ o # "ok" /\ Abandon(r)
        \/ o = "ok" /\ slug(r) \in orgs /\ Abandon(r)
        \/ o = "ok" /\ slug(r) \notin orgs /\ Does(r, "org", "addMember")
    /\ UNCHANGED <<store, hurried, troubled>>

AddMember(r) ==
    /\ At(r, "addMember")
    /\ \E o \in ReadOutcome :
        \/ o # "ok" /\ Abandon(r)
        \/ o = "ok" /\ Does(r, "member", "commit")
    /\ UNCHANGED <<store, hurried, troubled>>

\* A commit whose acknowledgement is lost counts as failed.
Commit(r) ==
    /\ At(r, "commit")
    /\ \E o \in WriteOutcome :
        /\ Note(o = "unacked")
        /\ users' = IF Applied(o) THEN [users EXCEPT ![email(r)] = id[r]] ELSE users
        /\ orgs' = IF Applied(o) THEN orgs \cup {slug(r)} ELSE orgs
        /\ members' = IF Applied(o) /\ "member" \in tx[r]
                      THEN members \cup {<<email(r), slug(r)>>} ELSE members
        /\ \/ o = "ok" /\ Answer(r, "created")
           \/ /\ o # "ok"
              /\ pc' = [pc EXCEPT ![r] = "cleanup"]
              /\ tx' = [tx EXCEPT ![r] = {}]
              /\ UNCHANGED <<form, id>>
    /\ UNCHANGED <<accounts, issued, hurried>>

\* The mistake of trying the signup once more after the clean-up, for ever.
DeleteUser_TriesAgain(r) ==
    /\ At(r, "cleanup")
    /\ accounts' = [accounts EXCEPT ![email(r)] = 0]
    /\ tx' = [tx EXCEPT ![r] = {}]
    /\ pc' = [pc EXCEPT ![r] = "createAccount"]
    /\ UNCHANGED <<users, orgs, members, issued, form, id, hurried, troubled>>

\* cleanupSupabaseUser: an error is ignored.
DeleteUser(r) ==
    /\ At(r, "cleanup")
    /\ \E o \in WriteOutcome :
        /\ accounts' = IF Applied(o) /\ accounts[email(r)] = id[r]
                       THEN [accounts EXCEPT ![email(r)] = 0] ELSE accounts
        /\ Note(o = "refused")
    /\ Answer(r, "refused")
    /\ UNCHANGED <<users, orgs, members, issued, hurried>>

\* buildAuthResponse
GetUserOrgs(r) ==
    /\ At(r, "getOrgs")
    /\ \E o \in ReadOutcome : Answer(r, IF o = "ok" THEN "loggedIn" ELSE "refused")
    /\ UNCHANGED <<store, hurried, troubled>>

\* The process stops or the client leaves: the database rolls back.
Crash(r) ==
    /\ "crash" \in Faults /\ Running(r)
    /\ Answer(r, "refused")
    /\ Note(SigningUp(r) /\ id[r] # 0)
    /\ UNCHANGED <<store, hurried>>

Step(r) ==
    \/ CheckEmail(r) \/ ensureSlugAvailable(r) \/ CreateUser(r)
    \/ SignInWithPassword(r) \/ LegacyLookup(r) \/ Begin(r)
    \/ GetByAuthIdentity(r) \/ GetByEmail(r) \/ CreateFromAuth(r)
    \/ RetryByAuthIdentity(r) \/ RetryByEmail(r) \/ LinkAuthIdentity(r)
    \/ CreateOrg(r) \/ AddMember(r) \/ Commit(r) \/ DeleteUser(r)
    \/ GetUserOrgs(r)

Next == \E r \in Request : Start(r) \/ Step(r) \/ Crash(r)

Spec == Init /\ [][Next]_vars

\* The database and the provider answer every call (the client has a time-out of
\* 15 s for the provider), and a lock is released when its transaction ends.
FairSpec == Spec /\ \A r \in Request : WF_vars(Step(r))

(* ------------------------------ properties ----------------------------- *)

TypeOK ==
    /\ users \in [Email -> {NoRow, Password} \cup Account]
    /\ orgs \subseteq Slug /\ members \subseteq Email \X Slug
    /\ accounts \in [Email -> Account \cup {0}]
    /\ issued \in 0 .. NRequests
    /\ pc \in [Request -> {"new", "checkEmail", "checkSlug", "createAccount", "begin",
                           "signIn", "ensureSignIn", "legacyLookup", "byIdentity",
                           "byEmail", "insertUser", "retryIdentity", "retryEmail",
                           "link", "createOrg", "addMember", "commit", "cleanup",
                           "getOrgs"} \cup Answers]
    /\ form \in [Request -> Form \cup {NoForm}]
    /\ id \in [Request -> Account \cup {0}]
    /\ tx \in [Request -> SUBSET {"begin", "user", "org", "member", "abort"}]
    /\ hurried \in BOOLEAN /\ troubled \in BOOLEAN

Quiet == \A r \in Request : ~Running(r)

Free(e) == users[e] = NoRow /\ accounts[e] = 0

\* The owner of e can log in, and then sees an organisation.
Usable(e) ==
    /\ users[e] = Password \/ (users[e] \in Account /\ accounts[e] = users[e])
    /\ \E s \in Slug : <<e, s>> \in members

\* The saga is all or nothing: whatever statements fail and however signups for
\* different e-mails race for a slug, an e-mail ends up usable or free.
AllOrNothing ==
    (Quiet /\ ~hurried /\ ~troubled) => \A e \in Email : Usable(e) \/ Free(e)

\* The client that is told "created" has an account, and its organisation is
\* its own, even with every fault and every race.
CreatedMeansUsable ==
    [][ \A r \in Request :
          (Running(r) /\ pc'[r] = "created") =>
              /\ users'[email(r)] = id[r] /\ accounts'[email(r)] = id[r]
              /\ \A e \in Email : <<e, slug(r)>> \in members' <=> e = email(r) ]_vars

\* An organisation is never without an owner, crash or not.
OrgsHaveOwners ==
    \A s \in orgs : \E e \in Email : <<e, s>> \in members /\ users[e] # NoRow

\* A user from the time of local passwords can log in at every moment of the
\* migration: the password only goes once the account is there to stay.
LegacyKeepsAccess ==
    \A e \in LegacyUsers :
        users[e] = Password \/ (users[e] \in Account /\ accounts[e] = users[e])

\* No request waits for ever: the locks of the transactions form no cycle.
RequestsEnd == \A r \in Request : Running(r) ~> pc[r] \in Answers
=============================================================================
