--------------------------- MODULE AccountsProofs --------------------------
(***************************************************************************)
(* Theorems of Accounts for any number of requests, every set of e-mails,  *)
(* slugs and legacy users, and every combination of faults.                *)
(***************************************************************************)
EXTENDS Accounts, FiniteSetTheorems, TLAPS

(* ------------------------ the inductive invariant ---------------------- *)

\* The lines before the provider is asked for an account, those of a request
\* that knows its account, and those that only signups or only logins reach.
Waiting    == {"new", "checkEmail", "checkSlug", "signIn", "legacyLookup", "createAccount"}
Linking    == {"begin", "byIdentity", "byEmail", "insertUser", "retryIdentity",
               "retryEmail", "link", "createOrg", "addMember", "commit"}
SignupOnly == {"checkEmail", "checkSlug", "begin", "createOrg", "addMember", "commit",
               "cleanup"}
LoginOnly  == {"signIn", "ensureSignIn", "legacyLookup", "getOrgs"}

Lines == Waiting \cup Linking \cup SignupOnly \cup LoginOnly \cup Answers

TxPart == {"begin", "user", "org", "member", "abort"}

LocalOK ==
    /\ pc \in [Request -> Lines]
    /\ form \in [Request -> Form \cup {NoForm}]
    /\ id \in [Request -> Account \cup {0}]
    /\ tx \in [Request -> SUBSET TxPart]

StoreOK ==
    /\ users \in [Email -> {NoRow, Password} \cup Account]
    /\ orgs \subseteq Slug /\ members \subseteq Email \X Slug
    /\ accounts \in [Email -> Account \cup {0}]
    /\ issued \in 0 .. NRequests
    /\ hurried \in BOOLEAN /\ troubled \in BOOLEAN

\* A signup that has an account of its own.
Holding(r) == SigningUp(r) /\ id[r] # 0

\* What a request has at hand on each line.
LineOK(r) ==
    /\ ~Running(r) => form[r] = NoForm /\ id[r] = 0 /\ tx[r] = {}
    /\ Running(r) => form[r] \in Form
    /\ pc[r] \in SignupOnly => SigningUp(r)
    /\ pc[r] \in LoginOnly => ~SigningUp(r)
    /\ pc[r] \in Linking \cup {"cleanup"} => id[r] # 0
    /\ Holding(r) => pc[r] \in Linking \cup {"cleanup"}
    /\ pc[r] \in Waiting => id[r] = 0
    /\ tx[r] # {} => Holding(r)
    /\ pc[r] \in {"addMember", "commit"} => "org" \in tx[r]
    /\ pc[r] = "commit" => "member" \in tx[r]

TypeInv == LocalOK /\ StoreOK /\ \A r \in Request : LineOK(r)

\* The requests that may still have an account created.
ToIssue == {r \in Request : pc[r] \in Waiting}

\* Accounts are numbered as they are created, each for another request, and the
\* account of a signup is the one the provider has for the e-mail.
IdsInv ==
    /\ issued + Cardinality(ToIssue) <= NRequests
    /\ \A e \in Email : accounts[e] <= issued
    /\ \A r \in Request : id[r] <= issued
    /\ \A q, r \in Request : Holding(q) /\ Holding(r) /\ id[q] = id[r] => q = r
    /\ \A r \in Request : Holding(r) => accounts[email(r)] = id[r]

\* A slug is inserted by one transaction at a time, and free until its commit.
OrgsInv ==
    /\ members \subseteq Email \X orgs
    /\ \A r \in Request : "org" \in tx[r] => slug(r) \notin orgs
    /\ \A q, r \in Request :
           "org" \in tx[q] /\ "org" \in tx[r] /\ slug(q) = slug(r) => q = r
    /\ OrgsHaveOwners

\* No signup gets past the check of a legacy user's e-mail, and the account a
\* login has for one is the provider's.
LegacyInv ==
    /\ LegacyKeepsAccess
    /\ \A e \in LegacyUsers : <<e, OldOrg>> \in members
    /\ \A e \in Email \ LegacyUsers : users[e] # Password
    /\ \A r \in Request : Running(r) /\ email(r) \in LegacyUsers =>
          /\ SigningUp(r) => pc[r] = "checkEmail"
          /\ ~SigningUp(r) /\ pc[r] \in Linking => accounts[email(r)] = id[r]

Clean == ~hurried /\ ~troubled

\* A signup has created the account of e and not yet its row.
SagaOpen(e) ==
    users[e] = NoRow /\ \E r \in Request : Holding(r) /\ email(r) = e

\* As long as logins and signups for one e-mail keep apart and no trouble has
\* been noted, every e-mail is usable, free, or in the middle of a signup; a
\* login that got as far as the account is the login of a usable one.
CleanInv ==
    /\ ~hurried => \A q, r \in Request :
           Running(q) /\ Running(r) /\ email(q) = email(r) => form[q].kind = form[r].kind
    /\ Clean =>
        /\ \A e \in Email : Usable(e) \/ Free(e) \/ SagaOpen(e)
        /\ \A r \in Request : Holding(r) => users[email(r)] = NoRow
        /\ \A r \in Request : Running(r) /\ ~SigningUp(r) =>
            /\ pc[r] \in {"createAccount", "ensureSignIn"} \cup Linking => Usable(email(r))
            /\ pc[r] \in Linking => accounts[email(r)] = id[r]

AccountsInv == TypeInv /\ IdsInv /\ OrgsInv /\ LegacyInv /\ CleanInv

(* ------------------------- the moves of a request ---------------------- *)

\* What a step of r does to the locals: theirs stay, its own change.
OthersKeep(r) ==
    \A q \in Request \ {r} : /\ pc'[q] = pc[q] /\ form'[q] = form[q]
                             /\ id'[q] = id[q] /\ tx'[q] = tx[q]

Ends(r) ==
    /\ LocalOK' /\ OthersKeep(r)
    /\ pc'[r] \in Answers /\ form'[r] = NoForm /\ id'[r] = 0 /\ tx'[r] = {}

Goes(r, line, i, t) ==
    /\ LocalOK' /\ OthersKeep(r)
    /\ pc'[r] = line /\ form'[r] = form[r] /\ id'[r] = i /\ tx'[r] = t

\* An answer leaves the others alone and the request with nothing.
LEMMA AnswerEnds ==
    ASSUME LocalOK, NEW r \in Request, NEW a \in Answers, Answer(r, a)
    PROVE  Ends(r)
BY DEF LocalOK, Answer, Ends, OthersKeep, Lines

\* Going on to another call keeps all that r has at hand.
LEMMA GotoGoes ==
    ASSUME LocalOK, NEW r \in Request, NEW line \in Lines, Goto(r, line)
    PROVE  Goes(r, line, id[r], tx[r])
BY DEF LocalOK, Goto, Goes, OthersKeep, local

\* An error once the account is there ends a login, and sends a signup to its
\* clean-up with its transaction still open.
LEMMA AbandonGoes ==
    ASSUME LocalOK, NEW r \in Request, Abandon(r)
    PROVE  \/ ~SigningUp(r) /\ Ends(r)
           \/ SigningUp(r) /\ Goes(r, "cleanup", id[r], tx[r])
<1>1. "refused" \in Answers /\ "cleanup" \in Lines
  BY DEF Answers, Lines, SignupOnly
<1> QED BY <1>1, AnswerEnds, GotoGoes DEF Abandon

\* Going on with an account.
LEMMA WithAccountGoes ==
    ASSUME LocalOK, NEW r \in Request, NEW line \in Lines, NEW i \in Account,
           WithAccount(r, i, line)
    PROVE  Goes(r, line, i, tx[r])
BY DEF LocalOK, WithAccount, Goes, OthersKeep

\* A statement of the transaction adds to what it has done.
LEMMA DoesGoes ==
    ASSUME LocalOK, NEW r \in Request, NEW line \in Lines, NEW what \in TxPart,
           Does(r, what, line)
    PROVE  Goes(r, line, id[r], tx[r] \cup {what})
BY DEF LocalOK, Does, Goes, OthersKeep

\* An answered request has nothing at hand.
LEMMA EndsLineOK ==
    ASSUME NEW r, Ends(r)
    PROVE  LineOK(r)'
BY DEF Ends, LineOK, Running, Answers, NoForm, SignupOnly, LoginOnly, Linking, Waiting,
       Holding, SigningUp

(* ---------------------- what each step comes down to ------------------- *)

\* r goes on, or has been refused, without a call that changed anything.  What
\* it knows is as old as the call it makes.
Quietly(r) ==
    /\ UNCHANGED <<store, hurried>> /\ (troubled => troubled') /\ troubled' \in BOOLEAN
    /\ Running(r)
    /\ \/ Ends(r) /\ (Holding(r) => troubled')
       \/ \E line \in Lines \ Answers, t \in SUBSET TxPart :
            /\ Goes(r, line, id[r], t) /\ line # "new"
            /\ line \in Waiting => pc[r] \in Waiting
            /\ line \in Linking => pc[r] \in Linking
            /\ line = "ensureSignIn" => pc[r] = "createAccount"
            /\ (line = "createAccount" /\ ~SigningUp(r)) => users[email(r)] = Password
            /\ pc[r] = "checkEmail" => users[email(r)] = NoRow
            /\ ("org" \in t /\ "org" \notin tx[r]) => slug(r) \notin orgs /\ ~SlugLocked(r)

\* A login writes its account into the user's row.
WritesRow(r) ==
    /\ ~SigningUp(r) /\ pc[r] \in Linking
    /\ users' = [users EXCEPT ![email(r)] = id[r]]
    /\ UNCHANGED <<orgs, members, accounts, issued, hurried, troubled>>
    /\ Ends(r) \/ Goes(r, "getOrgs", id[r], tx[r])

\* The provider creates an account; r learns of it, or gives up without.
Issues(r) ==
    /\ pc[r] = "createAccount" /\ accounts[email(r)] = 0
    /\ issued' = issued + 1
    /\ accounts' = [accounts EXCEPT ![email(r)] = issued + 1]
    /\ UNCHANGED <<users, orgs, members, hurried>>
    /\ (troubled => troubled') /\ troubled' \in BOOLEAN
    /\ \/ Ends(r) /\ (SigningUp(r) => troubled')
       \/ Goes(r, IF SigningUp(r) THEN "begin" ELSE "link", issued + 1, tx[r])

\* A login is told the account.
Learns(r) ==
    /\ pc[r] \in {"signIn", "ensureSignIn"} /\ accounts[email(r)] # 0
    /\ UNCHANGED <<store, hurried, troubled>>
    /\ \E line \in {"byIdentity", "link"} :
           /\ Goes(r, line, accounts[email(r)], tx[r])
           /\ line = "link" => pc[r] = "ensureSignIn"

\* The transaction of a signup takes effect.
Commits(r) ==
    /\ pc[r] = "commit"
    /\ users' = [users EXCEPT ![email(r)] = id[r]]
    /\ orgs' = orgs \cup {slug(r)}
    /\ members' = members \cup {<<email(r), slug(r)>>}
    /\ UNCHANGED <<accounts, issued, hurried>>
    /\ (troubled => troubled') /\ troubled' \in BOOLEAN
    /\ \/ Ends(r)
       \/ Goes(r, "cleanup", id[r], {}) /\ troubled'

\* The clean-up takes effect.
CleansUp(r) ==
    /\ pc[r] = "cleanup" /\ Ends(r)
    /\ accounts' = [accounts EXCEPT ![email(r)] = 0]
    /\ UNCHANGED <<users, orgs, members, issued, hurried, troubled>>

Effect(r) == \/ Quietly(r) \/ WritesRow(r) \/ Issues(r) \/ Learns(r)
             \/ Commits(r) \/ CleansUp(r)

\* What holds of the next line keeps r in order.
LEMMA GoesLineOK ==
    ASSUME NEW r, Running(r), LineOK(r), NEW line, NEW i, NEW t, Goes(r, line, i, t),
           line \notin {"new"} \cup Answers,
           line \in SignupOnly => SigningUp(r),
           line \in LoginOnly => ~SigningUp(r),
           line \in Linking \cup {"cleanup"} => i # 0,
           SigningUp(r) /\ i # 0 => line \in Linking \cup {"cleanup"},
           line \in Waiting => i = 0,
           t # {} => SigningUp(r) /\ i # 0,
           line \in {"addMember", "commit"} => "org" \in t,
           line = "commit" => "member" \in t
    PROVE  LineOK(r)'
BY DEF Goes, LineOK, Running, SigningUp, Holding

\* Being refused without a loss, and going on without a gain.
LEMMA QuietEnd ==
    ASSUME TypeInv, NEW r \in Request, Running(r), Ends(r), ~Holding(r),
           UNCHANGED <<store, hurried, troubled>>
    PROVE  Effect(r) /\ LineOK(r)'
BY EndsLineOK DEF Effect, Quietly, TypeInv, StoreOK

\* Going on without a gain: what the next line needs is at hand already.
LEMMA QuietGoing ==
    ASSUME TypeInv, NEW r \in Request, Running(r),
           UNCHANGED <<store, hurried>>, troubled => troubled', troubled' \in BOOLEAN,
           NEW line \in Lines \ Answers, NEW t \in SUBSET TxPart,
           Goes(r, line, id[r], t), line # "new",
           line \in SignupOnly => SigningUp(r),
           line \in LoginOnly => ~SigningUp(r),
           line \in Waiting => pc[r] \in Waiting,
           line \in Linking => pc[r] \in Linking,
           line = "cleanup" => id[r] # 0,
           Holding(r) => line \in Linking \cup {"cleanup"},
           t # {} => Holding(r),
           line \in {"addMember", "commit"} => "org" \in t,
           line = "commit" => "member" \in t,
           line = "ensureSignIn" => pc[r] = "createAccount",
           (line = "createAccount" /\ ~SigningUp(r)) => users[email(r)] = Password,
           pc[r] = "checkEmail" => users[email(r)] = NoRow,
           ("org" \in t /\ "org" \notin tx[r]) => slug(r) \notin orgs /\ ~SlugLocked(r)
    PROVE  Effect(r) /\ LineOK(r)'
<1>1. LineOK(r)
  BY DEF TypeInv
<1>2. /\ line \in Linking \cup {"cleanup"} => id[r] # 0
      /\ line \in Waiting => id[r] = 0
  BY <1>1 DEF LineOK
<1>3. LineOK(r)'
  BY <1>1, <1>2, GoesLineOK DEF Holding
<1>4. Quietly(r)
  BY DEF Quietly
<1> QED BY <1>3, <1>4 DEF Effect

\* signupWithSupabase looks for the e-mail: of an e-mail with a row it refuses.
LEMMA CheckEmailEffect ==
    ASSUME TypeInv, NEW r \in Request, CheckEmail(r)
    PROVE  Effect(r) /\ LineOK(r)'
<1>1. LocalOK /\ LineOK(r) /\ pc[r] = "checkEmail" /\ Running(r)
  BY DEF TypeInv, CheckEmail, At, Running, Answers
<1>2. SigningUp(r) /\ id[r] = 0 /\ tx[r] = {}
  BY <1>1 DEF LineOK, SignupOnly, Waiting, Holding
<1>3. \/ Ends(r)
      \/ users[email(r)] = NoRow /\ Goes(r, "checkSlug", id[r], tx[r])
  BY <1>1, AnswerEnds, GotoGoes DEF CheckEmail, Answers, Lines, Waiting
<1>4. UNCHANGED <<store, hurried, troubled>> /\ troubled \in BOOLEAN
  BY DEF CheckEmail, TypeInv, StoreOK
<1>5. CASE Ends(r)
  BY <1>1, <1>2, <1>4, <1>5, QuietEnd DEF Holding
<1>6. CASE users[email(r)] = NoRow /\ Goes(r, "checkSlug", id[r], tx[r])
  BY <1>1, <1>2, <1>4, <1>6, QuietGoing
     DEF Lines, Answers, SignupOnly, LoginOnly, Linking, Waiting, Holding
<1> QED BY <1>3, <1>5, <1>6

\* ensureSlugAvailable: only the answer for a taken slug differs.
LEMMA EnsureSlugEffect ==
    ASSUME TypeInv, NEW r \in Request, ensureSlugAvailable(r)
    PROVE  Effect(r) /\ LineOK(r)'
<1>1. LocalOK /\ LineOK(r) /\ pc[r] = "checkSlug" /\ Running(r)
  BY DEF TypeInv, ensureSlugAvailable, At, Running, Answers
<1>2. SigningUp(r) /\ id[r] = 0 /\ tx[r] = {}
  BY <1>1 DEF LineOK, SignupOnly, Waiting, Holding
<1>3. Ends(r) \/ Goes(r, "createAccount", id[r], tx[r])
  BY <1>1, AnswerEnds, GotoGoes DEF ensureSlugAvailable, Answers, Lines, Waiting
<1>4. UNCHANGED <<store, hurried, troubled>> /\ troubled \in BOOLEAN
  BY DEF ensureSlugAvailable, TypeInv, StoreOK
<1>5. CASE Ends(r)
  BY <1>1, <1>2, <1>4, <1>5, QuietEnd DEF Holding
<1>6. CASE Goes(r, "createAccount", id[r], tx[r])
  BY <1>1, <1>2, <1>4, <1>6, QuietGoing
     DEF Lines, Answers, SignupOnly, LoginOnly, Linking, Waiting, Holding
<1> QED BY <1>3, <1>5, <1>6

\* migrateLegacyUserToSupabase goes on only with a row that has a password.
LEMMA LegacyLookupEffect ==
    ASSUME TypeInv, NEW r \in Request, LegacyLookup(r)
    PROVE  Effect(r) /\ LineOK(r)'
<1>1. LocalOK /\ LineOK(r) /\ pc[r] = "legacyLookup" /\ Running(r)
  BY DEF TypeInv, LegacyLookup, At, Running, Answers
<1>2. ~SigningUp(r) /\ id[r] = 0 /\ tx[r] = {}
  BY <1>1 DEF LineOK, LoginOnly, Waiting, Holding
<1>3. \/ Ends(r)
      \/ users[email(r)] = Password /\ Goes(r, "createAccount", id[r], tx[r])
  BY <1>1, AnswerEnds, GotoGoes DEF LegacyLookup, Answers, Lines, Waiting
<1>4. UNCHANGED <<store, hurried, troubled>> /\ troubled \in BOOLEAN
  BY DEF LegacyLookup, TypeInv, StoreOK
<1>5. CASE Ends(r)
  BY <1>1, <1>2, <1>4, <1>5, QuietEnd DEF Holding
<1>6. CASE users[email(r)] = Password /\ Goes(r, "createAccount", id[r], tx[r])
  BY <1>1, <1>2, <1>4, <1>6, QuietGoing
     DEF Lines, Answers, SignupOnly, LoginOnly, Linking, Waiting, Holding
<1> QED BY <1>3, <1>5, <1>6

\* buildAuthResponse only answers.
LEMMA GetUserOrgsEffect ==
    ASSUME TypeInv, NEW r \in Request, GetUserOrgs(r)
    PROVE  Effect(r) /\ LineOK(r)'
<1>1. LocalOK /\ LineOK(r) /\ pc[r] = "getOrgs" /\ Running(r)
  BY DEF TypeInv, GetUserOrgs, At, Running, Answers
<1>2. ~Holding(r)
  BY <1>1 DEF LineOK, LoginOnly, Holding
<1>3. Ends(r)
  BY <1>1, AnswerEnds DEF GetUserOrgs, Answers
<1>4. UNCHANGED <<store, hurried, troubled>>
  BY DEF GetUserOrgs
<1> QED BY <1>1, <1>2, <1>3, <1>4, QuietEnd

\* Giving up with an account at hand.
LEMMA AbandonEffect ==
    ASSUME TypeInv, NEW r \in Request, pc[r] \in Linking, Abandon(r),
           UNCHANGED <<store, hurried, troubled>>
    PROVE  Effect(r) /\ LineOK(r)'
<1>1. LocalOK /\ LineOK(r) /\ Running(r) /\ troubled \in BOOLEAN /\ id[r] # 0
      /\ tx[r] \in SUBSET TxPart
  BY DEF TypeInv, StoreOK, LocalOK, LineOK, Running, Answers, Linking
<1>2. \/ ~SigningUp(r) /\ Ends(r)
      \/ SigningUp(r) /\ Goes(r, "cleanup", id[r], tx[r])
  BY <1>1, AbandonGoes
<1>3. CASE ~SigningUp(r) /\ Ends(r)
  BY <1>1, <1>3, QuietEnd DEF Holding
<1>4. CASE SigningUp(r) /\ Goes(r, "cleanup", id[r], tx[r])
  <2>1. Holding(r)
    BY <1>1, <1>4 DEF Holding
  <2> QED BY <1>1, <1>4, <2>1, QuietGoing
          DEF Lines, Answers, SignupOnly, LoginOnly, Linking, Waiting
<1> QED BY <1>2, <1>3, <1>4

\* Going on with an account at hand and the same transaction.
LEMMA LinkingGoes ==
    ASSUME TypeInv, NEW r \in Request, pc[r] \in Linking,
           NEW line \in {"byEmail", "insertUser", "retryIdentity", "retryEmail", "link",
                         "createOrg", "getOrgs"},
           NEW t \in SUBSET TxPart, Goes(r, line, id[r], t),
           line = "createOrg" => SigningUp(r),
           line = "getOrgs" => ~SigningUp(r),
           t # tx[r] => SigningUp(r) /\ "org" \notin t,
           UNCHANGED <<store, hurried, troubled>>
    PROVE  Effect(r) /\ LineOK(r)'
<1>1. LocalOK /\ LineOK(r) /\ Running(r) /\ troubled \in BOOLEAN /\ id[r] # 0
  BY DEF TypeInv, StoreOK, LineOK, Running, Answers, Linking
<1>2. t # {} => Holding(r)
  BY <1>1 DEF LineOK, Holding
<1>3. /\ line \in Lines \ Answers /\ line \notin {"new", "ensureSignIn", "createAccount"}
      /\ line \notin Waiting /\ line \notin {"addMember", "commit"}
      /\ line \in SignupOnly => SigningUp(r)
      /\ line \in LoginOnly => ~SigningUp(r)
      /\ Holding(r) => line \in Linking
      /\ pc[r] # "checkEmail"
  BY DEF Lines, Answers, SignupOnly, LoginOnly, Linking, Waiting, Holding
<1>4. ("org" \in t /\ "org" \notin tx[r]) => FALSE
  OBVIOUS
<1> QED BY <1>1, <1>2, <1>3, <1>4, QuietGoing

\* Begin opens the transaction of a signup.
LEMMA BeginEffect ==
    ASSUME TypeInv, NEW r \in Request, Begin(r)
    PROVE  Effect(r) /\ LineOK(r)'
<1>1. LocalOK /\ LineOK(r) /\ pc[r] = "begin" /\ Running(r) /\ pc[r] \in Linking
  BY DEF TypeInv, Begin, At, Running, Answers, Linking
<1>2. Holding(r) /\ tx[r] \in SUBSET TxPart
  BY <1>1 DEF LineOK, SignupOnly, Holding, LocalOK
<1>3. UNCHANGED <<store, hurried, troubled>> /\ troubled \in BOOLEAN
  BY DEF Begin, TypeInv, StoreOK
<1>4. Abandon(r) \/ Goes(r, "byIdentity", id[r], tx[r] \cup {"begin"})
  BY <1>1, DoesGoes DEF Begin, Lines, Linking, TxPart
<1>5. CASE Abandon(r)
  BY <1>1, <1>3, <1>5, AbandonEffect
<1>6. CASE Goes(r, "byIdentity", id[r], tx[r] \cup {"begin"})
  <2>1. tx[r] \cup {"begin"} \in SUBSET TxPart
    BY <1>2 DEF TxPart
  <2> QED BY <1>1, <1>2, <1>3, <1>6, <2>1, QuietGoing
          DEF Lines, Answers, SignupOnly, LoginOnly, Linking, Waiting
<1> QED BY <1>4, <1>5, <1>6

\* The reads of syncSupabaseUser: of its two ways on, or giving up.
LEMMA LookupsEffect ==
    ASSUME TypeInv, NEW r \in Request,
           \/ GetByAuthIdentity(r) \/ GetByEmail(r)
           \/ RetryByAuthIdentity(r) \/ RetryByEmail(r)
    PROVE  Effect(r) /\ LineOK(r)'
<1>1. LocalOK /\ pc[r] \in Linking /\ tx[r] \in SUBSET TxPart
  BY DEF TypeInv, LocalOK, GetByAuthIdentity, GetByEmail, RetryByAuthIdentity,
         RetryByEmail, At, Linking
<1>2. UNCHANGED <<store, hurried, troubled>>
  BY DEF GetByAuthIdentity, GetByEmail, RetryByAuthIdentity, RetryByEmail
<1>3. \/ Abandon(r)
      \/ \E line \in {"byEmail", "insertUser", "retryEmail", "link"} : Goto(r, line)
      \/ Goto(r, AfterSync(r))
  BY DEF GetByAuthIdentity, GetByEmail, RetryByAuthIdentity, RetryByEmail
<1>4. CASE Abandon(r)
  BY <1>1, <1>2, <1>4, AbandonEffect
<1>5. CASE \E line \in {"byEmail", "insertUser", "retryEmail", "link"} : Goto(r, line)
  <2>1. PICK line \in {"byEmail", "insertUser", "retryEmail", "link"} : Goto(r, line)
    BY <1>5
  <2>2. Goes(r, line, id[r], tx[r])
    BY <1>1, <2>1, GotoGoes DEF Lines, Linking
  <2> QED BY <1>1, <1>2, <2>2, LinkingGoes
<1>6. CASE Goto(r, AfterSync(r))
  <2>1. PICK line \in {"createOrg", "getOrgs"} :
          line = AfterSync(r) /\ Goes(r, line, id[r], tx[r])
    BY <1>1, <1>6, GotoGoes DEF AfterSync, Lines, Linking, LoginOnly
  <2> QED BY <1>1, <1>2, <2>1, LinkingGoes DEF AfterSync
<1> QED BY <1>3, <1>4, <1>5, <1>6

\* A write to the user's row: of a transaction, or of a login.
LEMMA WriteUserEffect ==
    ASSUME TypeInv, NEW r \in Request, pc[r] \in Linking, NEW o \in WriteOutcome,
           WriteUser(r, o, AfterSync(r)),
           UNCHANGED <<orgs, members, accounts, issued, hurried, troubled>>
    PROVE  Effect(r) /\ LineOK(r)'
<1>1. LocalOK /\ LineOK(r) /\ Running(r) /\ tx[r] \in SUBSET TxPart /\ id[r] # 0
  BY DEF TypeInv, LocalOK, LineOK, Running, Answers, Linking
<1>2. CASE users' = users
  <2>1. UNCHANGED <<store, hurried, troubled>>
    BY <1>2 DEF store
  <2>2. \/ Abandon(r)
        \/ SigningUp(r) /\ Does(r, "user", "createOrg")
        \/ ~SigningUp(r) /\ Goto(r, "getOrgs")
    BY DEF WriteUser, AfterSync
  <2>3. CASE Abandon(r)
    BY <2>1, <2>3, AbandonEffect
  <2>4. CASE SigningUp(r) /\ Does(r, "user", "createOrg")
    <3>1. Goes(r, "createOrg", id[r], tx[r] \cup {"user"})
      BY <1>1, <2>4, DoesGoes DEF Lines, Linking, TxPart
    <3>2. tx[r] \cup {"user"} \in SUBSET TxPart /\ "createOrg" \in Linking
      BY <1>1 DEF TxPart, Linking
    <3>3. Holding(r) /\ troubled \in BOOLEAN
      BY <1>1, <2>4 DEF Holding, TypeInv, StoreOK
    <3> QED BY <1>1, <2>1, <2>4, <3>1, <3>2, <3>3, QuietGoing
            DEF Lines, Answers, SignupOnly, LoginOnly, Linking, Waiting
  <2>5. CASE ~SigningUp(r) /\ Goto(r, "getOrgs")
    <3>1. Goes(r, "getOrgs", id[r], tx[r])
      BY <1>1, <2>5, GotoGoes DEF Lines, LoginOnly
    <3> QED BY <1>1, <2>1, <2>5, <3>1, LinkingGoes
  <2> QED BY <2>2, <2>3, <2>4, <2>5
<1>3. CASE users' # users
  <2>1. /\ ~SigningUp(r) /\ users' = [users EXCEPT ![email(r)] = id[r]]
        /\ Abandon(r) \/ Goto(r, "getOrgs")
    BY <1>3 DEF WriteUser, AfterSync
  <2>2. Ends(r) \/ Goes(r, "getOrgs", id[r], tx[r])
    BY <1>1, <2>1, AbandonGoes, GotoGoes DEF Lines, LoginOnly
  <2>3. WritesRow(r)
    BY <2>1, <2>2 DEF WritesRow
  <2>4. Goes(r, "getOrgs", id[r], tx[r]) => LineOK(r)'
    <3>1. tx[r] = {}
      BY <1>1, <2>1 DEF LineOK, Holding
    <3> QED BY <1>1, <2>1, <3>1, GoesLineOK
            DEF Answers, SignupOnly, LoginOnly, Linking, Waiting
  <2> QED BY <2>2, <2>3, <2>4, EndsLineOK DEF Effect
<1> QED BY <1>2, <1>3

\* The insert of syncSupabaseUser: a row written, or a duplicate key.
LEMMA CreateFromAuthEffect ==
    ASSUME TypeInv, NEW r \in Request, CreateFromAuth(r)
    PROVE  Effect(r) /\ LineOK(r)'
<1>1. LocalOK /\ LineOK(r) /\ Running(r) /\ pc[r] \in Linking /\ id[r] # 0
      /\ tx[r] \in SUBSET TxPart /\ pc[r] = "insertUser" /\ troubled \in BOOLEAN
  BY DEF TypeInv, StoreOK, LocalOK, LineOK, Running, Answers, Linking, CreateFromAuth, At
<1>2. UNCHANGED <<orgs, members, accounts, issued, hurried, troubled>>
  BY DEF CreateFromAuth
<1>3. CASE \E o \in WriteOutcome : WriteUser(r, o, AfterSync(r))
  BY <1>1, <1>2, <1>3, WriteUserEffect
<1>4. CASE SigningUp(r) /\ Does(r, "abort", "retryIdentity") /\ UNCHANGED users
  <2>1. Goes(r, "retryIdentity", id[r], tx[r] \cup {"abort"})
    BY <1>1, <1>4, DoesGoes DEF Lines, Linking, TxPart
  <2>2. tx[r] \cup {"abort"} \in SUBSET TxPart /\ UNCHANGED store /\ Holding(r)
    BY <1>1, <1>2, <1>4 DEF TxPart, store, Holding
  <2> QED BY <1>1, <1>2, <1>4, <2>1, <2>2, QuietGoing
          DEF Lines, Answers, SignupOnly, LoginOnly, Linking, Waiting
<1>5. CASE ~SigningUp(r) /\ Goto(r, "retryIdentity") /\ UNCHANGED users
  <2>1. Goes(r, "retryIdentity", id[r], tx[r])
    BY <1>1, <1>5, GotoGoes DEF Lines, Linking
  <2>2. UNCHANGED <<store, hurried, troubled>>
    BY <1>2, <1>5 DEF store
  <2> QED BY <1>1, <1>5, <2>1, <2>2, LinkingGoes
<1> QED BY <1>3, <1>4, <1>5 DEF CreateFromAuth

\* LinkAuthIdentity writes the row of its user.
LEMMA LinkEffect ==
    ASSUME TypeInv, NEW r \in Request, LinkAuthIdentity(r)
    PROVE  Effect(r) /\ LineOK(r)'
<1>1. pc[r] \in Linking
  BY DEF LinkAuthIdentity, At, Linking
<1> QED BY <1>1, WriteUserEffect DEF LinkAuthIdentity

\* The slug goes into the transaction when it is free and no one waits with it.
LEMMA CreateOrgEffect ==
    ASSUME TypeInv, NEW r \in Request, CreateOrg(r)
    PROVE  Effect(r) /\ LineOK(r)'
<1>1. LocalOK /\ LineOK(r) /\ pc[r] = "createOrg" /\ Running(r) /\ pc[r] \in Linking
      /\ troubled \in BOOLEAN
  BY DEF TypeInv, StoreOK, CreateOrg, At, Running, Answers, Linking
<1>2. Holding(r) /\ SigningUp(r) /\ tx[r] \in SUBSET TxPart
  BY <1>1 DEF LineOK, SignupOnly, Holding, LocalOK
<1>3. UNCHANGED <<store, hurried, troubled>> /\ ~SlugLocked(r)
  BY DEF CreateOrg
<1>4. \/ Abandon(r)
      \/ slug(r) \notin orgs /\ Goes(r, "addMember", id[r], tx[r] \cup {"org"})
  BY <1>1, DoesGoes DEF CreateOrg, Lines, Linking, TxPart
<1>5. CASE Abandon(r)
  BY <1>1, <1>3, <1>5, AbandonEffect
<1>6. CASE slug(r) \notin orgs /\ Goes(r, "addMember", id[r], tx[r] \cup {"org"})
  <2>1. tx[r] \cup {"org"} \in SUBSET TxPart
    BY <1>2 DEF TxPart
  <2> QED BY <1>1, <1>2, <1>3, <1>6, <2>1, QuietGoing
          DEF Lines, Answers, SignupOnly, LoginOnly, Linking, Waiting
<1> QED BY <1>4, <1>5, <1>6

\* The membership goes into the transaction, after the organisation.
LEMMA AddMemberEffect ==
    ASSUME TypeInv, NEW r \in Request, AddMember(r)
    PROVE  Effect(r) /\ LineOK(r)'
<1>1. LocalOK /\ LineOK(r) /\ pc[r] = "addMember" /\ Running(r) /\ pc[r] \in Linking
      /\ troubled \in BOOLEAN
  BY DEF TypeInv, StoreOK, AddMember, At, Running, Answers, Linking
<1>2. Holding(r) /\ SigningUp(r) /\ tx[r] \in SUBSET TxPart /\ "org" \in tx[r]
  BY <1>1 DEF LineOK, SignupOnly, Holding, LocalOK
<1>3. UNCHANGED <<store, hurried, troubled>>
  BY DEF AddMember
<1>4. Abandon(r) \/ Goes(r, "commit", id[r], tx[r] \cup {"member"})
  BY <1>1, DoesGoes DEF AddMember, Lines, Linking, TxPart
<1>5. CASE Abandon(r)
  BY <1>1, <1>3, <1>5, AbandonEffect
<1>6. CASE Goes(r, "commit", id[r], tx[r] \cup {"member"})
  <2>1. tx[r] \cup {"member"} \in SUBSET TxPart
    BY <1>2 DEF TxPart
  <2> QED BY <1>1, <1>2, <1>3, <1>6, <2>1, QuietGoing
          DEF Lines, Answers, SignupOnly, LoginOnly, Linking, Waiting
<1> QED BY <1>4, <1>5, <1>6

\* A request that may still have an account created leaves room for it.
LEMMA RoomToIssue ==
    ASSUME TypeInv, IdsInv, NEW r \in Request, pc[r] \in Waiting
    PROVE  issued + 1 \in Account
<1>1. IsFiniteSet(Request)
  BY FS_Interval, AccountsAssumption DEF Request
<1>2. IsFiniteSet(ToIssue) /\ r \in ToIssue
  BY <1>1, FS_Subset DEF ToIssue
<1>3. Cardinality(ToIssue) \in Nat /\ Cardinality(ToIssue) # 0
  BY <1>2, FS_CardinalityType, FS_EmptySet
<1> QED BY <1>3, AccountsAssumption DEF IdsInv, TypeInv, StoreOK, Account

\* CreateUser and EnsureUser: an account, none, or one nobody was told of.
LEMMA CreateUserEffect ==
    ASSUME TypeInv, IdsInv, NEW r \in Request, CreateUser(r)
    PROVE  Effect(r) /\ LineOK(r)'
<1>1. LocalOK /\ LineOK(r) /\ pc[r] = "createAccount" /\ Running(r) /\ pc[r] \in Waiting
      /\ troubled \in BOOLEAN
  BY DEF TypeInv, StoreOK, CreateUser, At, Running, Answers, Waiting
<1>2. id[r] = 0 /\ tx[r] = {} /\ ~Holding(r)
  BY <1>1 DEF LineOK, Holding
<1>3. issued + 1 \in Account /\ issued \in Nat
  BY <1>1, RoomToIssue DEF TypeInv, StoreOK
<1>4. UNCHANGED <<users, orgs, members, hurried>>
  BY DEF CreateUser
<1>5. PICK o \in WriteOutcome :
        /\ Note(SigningUp(r) /\ o = "unacked")
        /\ \/ /\ accounts[email(r)] # 0
              /\ \/ Answer(r, "refused")
                 \/ ~SigningUp(r) /\ Goto(r, "ensureSignIn")
              /\ UNCHANGED <<accounts, issued>>
           \/ /\ accounts[email(r)] = 0
              /\ issued' = issued + (IF Applied(o) THEN 1 ELSE 0)
              /\ accounts' = IF Applied(o)
                             THEN [accounts EXCEPT ![email(r)] = issued + 1]
                             ELSE accounts
              /\ \/ o # "ok" /\ Answer(r, "refused")
                 \/ /\ o = "ok"
                    /\ WithAccount(r, issued + 1,
                                   IF SigningUp(r) THEN "begin" ELSE "link")
  BY DEF CreateUser
<1>6. (troubled => troubled') /\ troubled' \in BOOLEAN
      /\ (SigningUp(r) /\ o = "unacked" => troubled')
  BY <1>1, <1>5 DEF Note
<1>7. Answer(r, "refused") => Ends(r)
  BY <1>1, AnswerEnds DEF Answers
<1>8. CASE accounts[email(r)] # 0 \/ ~Applied(o)
  <2>1. UNCHANGED <<accounts, issued>>
    BY <1>3, <1>5, <1>8
  <2>2. UNCHANGED <<store, hurried>>
    BY <1>4, <2>1 DEF store
  <2>3. Ends(r) \/ (~SigningUp(r) /\ Goes(r, "ensureSignIn", id[r], tx[r]))
    BY <1>1, <1>5, <1>7, <1>8, GotoGoes DEF Applied, Lines, LoginOnly
  <2>4. CASE Ends(r)
    BY <1>1, <1>2, <1>6, <2>2, <2>4, EndsLineOK DEF Effect, Quietly
  <2>5. CASE ~SigningUp(r) /\ Goes(r, "ensureSignIn", id[r], tx[r])
    BY <1>1, <1>2, <1>6, <2>2, <2>5, QuietGoing
       DEF Lines, Answers, SignupOnly, LoginOnly, Linking, Waiting
  <2> QED BY <2>3, <2>4, <2>5
<1>9. CASE accounts[email(r)] = 0 /\ Applied(o)
  <2> DEFINE line == IF SigningUp(r) THEN "begin" ELSE "link"
  <2>1. issued' = issued + 1 /\ accounts' = [accounts EXCEPT ![email(r)] = issued + 1]
    BY <1>5, <1>9
  <2>2. \/ o = "unacked" /\ Ends(r)
        \/ Goes(r, line, issued + 1, tx[r])
    <3>1. line \in Lines
      BY DEF Lines, Linking
    <3>2. \/ o # "ok" /\ Answer(r, "refused")
          \/ WithAccount(r, issued + 1, line)
      BY <1>5, <1>9
    <3> HIDE DEF line
    <3> QED BY <1>1, <1>3, <1>7, <1>9, <3>1, <3>2, WithAccountGoes
            DEF WriteOutcome, Applied
  <2>3. Issues(r)
    BY <1>1, <1>4, <1>6, <1>9, <2>1, <2>2 DEF Issues
  <2>4. Goes(r, line, issued + 1, tx[r]) => LineOK(r)'
    BY <1>1, <1>2, <1>3, GoesLineOK
       DEF Answers, SignupOnly, LoginOnly, Linking, Waiting, Account
  <2> QED BY <2>2, <2>3, <2>4, EndsLineOK DEF Effect
<1> QED BY <1>8, <1>9

\* A login signs in with the account the provider has, or goes on without.
LEMMA SignInEffect ==
    ASSUME TypeInv, NEW r \in Request, SignInWithPassword(r)
    PROVE  Effect(r) /\ LineOK(r)'
<1>1. LocalOK /\ LineOK(r) /\ pc[r] \in {"signIn", "ensureSignIn"} /\ Running(r)
  BY DEF TypeInv, SignInWithPassword, At, Running, Answers
<1>2. ~SigningUp(r) /\ tx[r] = {} /\ ~Holding(r)
  BY <1>1 DEF LineOK, LoginOnly, Holding
<1>3. UNCHANGED <<store, hurried, troubled>> /\ troubled \in BOOLEAN
  BY DEF SignInWithPassword, TypeInv, StoreOK
<1>4. accounts[email(r)] \in Account \cup {0}
  <2>1. email(r) \in Email
    BY <1>1 DEF LineOK, Form, email
  <2> QED BY <2>1 DEF TypeInv, StoreOK
<1>5. \/ Ends(r)
      \/ /\ accounts[email(r)] # 0
         /\ Goes(r, IF At(r, "signIn") THEN "byIdentity" ELSE "link",
                 accounts[email(r)], tx[r])
      \/ At(r, "signIn") /\ Goes(r, "legacyLookup", id[r], tx[r])
  BY <1>1, <1>4, AnswerEnds, GotoGoes, WithAccountGoes
     DEF SignInWithPassword, Answers, Lines, Linking, LoginOnly
<1>6. CASE Ends(r)
  BY <1>1, <1>2, <1>3, <1>6, QuietEnd
<1>7. CASE At(r, "signIn") /\ Goes(r, "legacyLookup", id[r], tx[r])
  BY <1>1, <1>2, <1>3, <1>7, QuietGoing
     DEF Lines, Answers, SignupOnly, LoginOnly, Linking, Waiting, At
<1>8. CASE /\ accounts[email(r)] # 0
           /\ Goes(r, IF At(r, "signIn") THEN "byIdentity" ELSE "link",
                   accounts[email(r)], tx[r])
  <2>1. PICK line \in {"byIdentity", "link"} :
          /\ Goes(r, line, accounts[email(r)], tx[r])
          /\ line = "link" => pc[r] = "ensureSignIn"
    BY <1>1, <1>8 DEF At
  <2>2. LineOK(r)'
    BY <1>1, <1>2, <1>8, <2>1, GoesLineOK
       DEF Answers, SignupOnly, LoginOnly, Linking, Waiting
  <2> QED BY <1>1, <1>3, <1>8, <2>1, <2>2 DEF Effect, Learns
<1> QED BY <1>5, <1>6, <1>7, <1>8

\* The commit takes effect as a whole or not at all, and only its answer tells.
LEMMA CommitEffect ==
    ASSUME TypeInv, NEW r \in Request, Commit(r)
    PROVE  Effect(r) /\ LineOK(r)'
<1>1. LocalOK /\ LineOK(r) /\ pc[r] = "commit" /\ Running(r) /\ pc[r] \in Linking
      /\ troubled \in BOOLEAN
  BY DEF TypeInv, StoreOK, Commit, At, Running, Answers, Linking
<1>2. Holding(r) /\ SigningUp(r) /\ "member" \in tx[r] /\ id[r] # 0
  BY <1>1 DEF LineOK, SignupOnly, Holding
<1>3. PICK o \in WriteOutcome :
        /\ Note(o = "unacked")
        /\ users' = IF Applied(o) THEN [users EXCEPT ![email(r)] = id[r]] ELSE users
        /\ orgs' = IF Applied(o) THEN orgs \cup {slug(r)} ELSE orgs
        /\ members' = IF Applied(o)
                      THEN members \cup {<<email(r), slug(r)>>} ELSE members
        /\ \/ o = "ok" /\ Answer(r, "created")
           \/ /\ o # "ok"
              /\ pc' = [pc EXCEPT ![r] = "cleanup"]
              /\ tx' = [tx EXCEPT ![r] = {}]
              /\ UNCHANGED <<form, id>>
  BY <1>2 DEF Commit
<1>4. UNCHANGED <<accounts, issued, hurried>>
  BY DEF Commit
<1>5. (troubled => troubled') /\ troubled' \in BOOLEAN /\ (o = "unacked" => troubled')
  BY <1>1, <1>3 DEF Note
<1>6. (o = "ok" /\ Ends(r)) \/ (o # "ok" /\ Goes(r, "cleanup", id[r], {}))
  <2>1. o = "ok" /\ Answer(r, "created") => Ends(r)
    BY <1>1, AnswerEnds DEF Answers
  <2>2. (/\ pc' = [pc EXCEPT ![r] = "cleanup"]
         /\ tx' = [tx EXCEPT ![r] = {}]
         /\ UNCHANGED <<form, id>>) => Goes(r, "cleanup", id[r], {})
    BY <1>1 DEF LocalOK, Goes, OthersKeep, Lines, SignupOnly
  <2> QED BY <1>3, <2>1, <2>2
<1>7. LineOK(r)'
  <2>1. Goes(r, "cleanup", id[r], {}) => LineOK(r)'
    BY <1>1, <1>2, GoesLineOK DEF Answers, SignupOnly, LoginOnly, Linking, Waiting
  <2> QED BY <1>6, <2>1, EndsLineOK
<1>8. CASE Applied(o)
  BY <1>1, <1>3, <1>4, <1>5, <1>6, <1>7, <1>8 DEF Effect, Commits, WriteOutcome, Applied
<1>9. CASE ~Applied(o)
  <2>1. UNCHANGED <<store, hurried>>
    BY <1>3, <1>4, <1>9 DEF store
  <2>2. Goes(r, "cleanup", id[r], {})
    BY <1>6, <1>9 DEF Applied
  <2> QED BY <1>1, <1>2, <1>5, <2>1, <2>2, QuietGoing
          DEF Lines, Answers, SignupOnly, LoginOnly, Linking, Waiting
<1> QED BY <1>8, <1>9

\* cleanupSupabaseUser deletes the account that the signup has created.
LEMMA DeleteUserEffect ==
    ASSUME TypeInv, IdsInv, NEW r \in Request, DeleteUser(r)
    PROVE  Effect(r) /\ LineOK(r)'
<1>1. LocalOK /\ LineOK(r) /\ pc[r] = "cleanup" /\ Running(r) /\ troubled \in BOOLEAN
  BY DEF TypeInv, StoreOK, DeleteUser, At, Running, Answers
<1>2. SigningUp(r)
  BY <1>1 DEF LineOK, SignupOnly
<1>3. PICK o \in WriteOutcome :
        /\ accounts' = IF Applied(o) /\ accounts[email(r)] = id[r]
                       THEN [accounts EXCEPT ![email(r)] = 0] ELSE accounts
        /\ Note(o = "refused")
  BY DEF DeleteUser
<1>4. UNCHANGED <<users, orgs, members, issued, hurried>>
  BY DEF DeleteUser
<1>5. Ends(r)
  BY <1>1, AnswerEnds DEF DeleteUser, Answers
<1>6. CASE Applied(o) /\ Holding(r)
  <2>1. accounts[email(r)] = id[r]
    BY <1>6 DEF IdsInv
  <2> QED BY <1>1, <1>3, <1>4, <1>5, <1>6, <2>1, EndsLineOK
          DEF Effect, CleansUp, Note, Applied
<1>7. CASE ~Applied(o)
  BY <1>1, <1>3, <1>4, <1>5, <1>7, EndsLineOK DEF Effect, Quietly, Note, Applied, store
<1>8. Holding(r)
  BY <1>1, <1>2 DEF LineOK, Holding
<1> QED BY <1>6, <1>7, <1>8

\* A crash ends the request; of a signup with an account it is trouble.
LEMMA CrashEffect ==
    ASSUME TypeInv, NEW r \in Request, Crash(r)
    PROVE  Effect(r) /\ LineOK(r)'
<1>1. LocalOK /\ Running(r) /\ troubled \in BOOLEAN
  BY DEF TypeInv, StoreOK, Crash
<1>2. Ends(r)
  BY <1>1, AnswerEnds DEF Crash, Answers
<1> QED BY <1>1, <1>2, EndsLineOK DEF Crash, Effect, Quietly, Note, Holding

\* Every step of a request is one of the six, and leaves it in order.
LEMMA StepEffect ==
    ASSUME TypeInv, IdsInv, NEW r \in Request, Step(r) \/ Crash(r)
    PROVE  Effect(r) /\ LineOK(r)'
BY CheckEmailEffect, EnsureSlugEffect, CreateUserEffect, SignInEffect,
   LegacyLookupEffect, BeginEffect, LookupsEffect, CreateFromAuthEffect, LinkEffect,
   CreateOrgEffect, AddMemberEffect, CommitEffect, DeleteUserEffect,
   GetUserOrgsEffect, CrashEffect
   DEF Step

(* ------------------ what a step leaves of the others ------------------- *)

\* Whatever r does, the others keep what they have, and r its form as long as it
\* runs.
LEMMA WhoRuns ==
    ASSUME TypeInv, NEW r \in Request, Effect(r), NEW q \in Request
    PROVE  /\ LocalOK'
           /\ q # r => /\ pc'[q] = pc[q] /\ form'[q] = form[q]
                       /\ id'[q] = id[q] /\ tx'[q] = tx[q]
           /\ Running(r)
           /\ q = r => Ends(r) \/ (Running(q)' /\ form'[q] = form[q])
<1>1. Running(r)
  BY DEF Effect, Quietly, WritesRow, Issues, Learns, Commits, CleansUp, Running,
         Answers, Linking
<1>2. LocalOK' /\ OthersKeep(r)
  BY DEF Effect, Quietly, WritesRow, Issues, Learns, Commits, CleansUp, Ends, Goes
<1>3. Ends(r) \/ (Running(r)' /\ form'[r] = form[r])
  BY DEF Effect, Quietly, WritesRow, Issues, Learns, Commits, CleansUp, Goes, Running,
         Answers, Lines
<1> QED BY <1>1, <1>2, <1>3 DEF OthersKeep

\* A request that runs after a step ran before it, with the same form.
LEMMA StillRuns ==
    ASSUME TypeInv, NEW r \in Request, Effect(r), NEW q \in Request, Running(q)'
    PROVE  Running(q) /\ form'[q] = form[q]
<1>1. Ends(r) => ~Running(r)'
  BY DEF Ends, Running
<1> QED BY <1>1, WhoRuns DEF Running

\* A signup holds an account: as before, or since the provider created it.
LEMMA WhoHolds ==
    ASSUME TypeInv, NEW r \in Request, Effect(r), NEW q \in Request, Holding(q)'
    PROVE  /\ form'[q] = form[q]
           /\ \/ Holding(q) /\ id'[q] = id[q]
              \/ /\ q = r /\ Issues(r) /\ SigningUp(r)
                 /\ id'[r] = issued + 1 /\ pc'[r] = "begin"
<1>1. Ends(r) => ~Holding(r)'
  BY DEF Ends, Holding, SigningUp, NoForm
<1>2. CASE q # r
  BY <1>2, WhoRuns DEF Holding, SigningUp
<1>3. CASE q = r
  <2>1. form'[r] = form[r] /\ ~Ends(r)
    BY <1>1, <1>3, WhoRuns
  <2>2. SigningUp(r)
    BY <1>3, <2>1 DEF Holding, SigningUp
  <2>3. CASE Issues(r)
    BY <1>3, <2>1, <2>2, <2>3 DEF Issues, Goes
  <2>4. CASE Quietly(r) \/ Commits(r)
    BY <1>3, <2>1, <2>2, <2>4 DEF Quietly, Commits, Goes, Holding, SigningUp
  <2>5. CASE Learns(r)
    <3>1. pc[r] \in LoginOnly
      BY <2>5 DEF Learns, LoginOnly
    <3> QED BY <2>2, <3>1 DEF TypeInv, LineOK
  <2> QED BY <2>1, <2>2, <2>3, <2>4, <2>5 DEF Effect, WritesRow, CleansUp
<1> QED BY <1>2, <1>3

\* A transaction that has inserted a slug: before, or now that it was free.
LEMMA WhoHasOrg ==
    ASSUME TypeInv, NEW r \in Request, Effect(r), NEW q \in Request, "org" \in tx'[q]
    PROVE  /\ form'[q] = form[q]
           /\ \/ "org" \in tx[q]
              \/ q = r /\ Quietly(r) /\ slug(r) \notin orgs /\ ~SlugLocked(r)
           /\ q = r => ~Commits(r)
<1>1. Ends(r) => tx'[r] = {}
  BY DEF Ends
<1>2. CASE q # r
  BY <1>2, WhoRuns
<1>3. CASE q = r
  BY <1>1, <1>3, WhoRuns
     DEF Effect, Quietly, WritesRow, Issues, Learns, Commits, CleansUp, Goes
<1> QED BY <1>2, <1>3

\* A step keeps every local and every row in its type.
LEMMA EffectTypeInv ==
    ASSUME TypeInv, IdsInv, NEW r \in Request, Effect(r), LineOK(r)'
    PROVE  TypeInv'
<1>1. LocalOK'
  BY WhoRuns
<1>2. ASSUME NEW q \in Request
      PROVE  LineOK(q)'
  <2>1. CASE q = r
    BY <2>1
  <2>2. CASE q # r
    <3>1. /\ pc'[q] = pc[q] /\ form'[q] = form[q] /\ id'[q] = id[q] /\ tx'[q] = tx[q]
          /\ LineOK(q)
      BY <2>2, WhoRuns DEF TypeInv
    <3> QED BY <3>1 DEF LineOK, Running, Holding, SigningUp
  <2> QED BY <2>1, <2>2
<1>3. StoreOK'
  <2>1. Running(r) /\ form[r] \in Form /\ id[r] \in Account \cup {0}
    BY WhoRuns DEF TypeInv, LineOK, LocalOK
  <2>2. email(r) \in Email /\ (SigningUp(r) => slug(r) \in Slug)
    BY <2>1 DEF Form, email, slug, SigningUp
  <2>3. CASE Quietly(r)
    BY <2>3 DEF Quietly, store, TypeInv, StoreOK
  <2>4. CASE WritesRow(r)
    <3>1. id[r] # 0
      BY <2>4 DEF TypeInv, LineOK, WritesRow
    <3> QED BY <2>1, <2>2, <2>4, <3>1 DEF WritesRow, TypeInv, StoreOK
  <2>5. CASE Issues(r)
    <3>1. issued + 1 \in Account
      BY <2>5, RoomToIssue DEF Issues, Waiting
    <3> QED BY <2>2, <2>5, <3>1 DEF Issues, TypeInv, StoreOK, Account
  <2>6. CASE Learns(r)
    BY <2>6 DEF Learns, store, TypeInv, StoreOK
  <2>7. CASE Commits(r)
    <3>1. id[r] # 0 /\ SigningUp(r)
      BY <2>7 DEF TypeInv, LineOK, Commits, Linking, SignupOnly
    <3> QED BY <2>1, <2>2, <2>7, <3>1 DEF Commits, TypeInv, StoreOK
  <2>8. CASE CleansUp(r)
    BY <2>2, <2>8 DEF CleansUp, TypeInv, StoreOK
  <2> QED BY <2>3, <2>4, <2>5, <2>6, <2>7, <2>8 DEF Effect
<1> QED BY <1>1, <1>2, <1>3 DEF TypeInv

\* An account is created by a request that can create no second one.
LEMMA EffectRoom ==
    ASSUME TypeInv, IdsInv, NEW r \in Request, Effect(r)
    PROVE  issued' + Cardinality(ToIssue') <= NRequests
<1> DEFINE S == ToIssue
           T == ToIssue'
<1>1. IsFiniteSet(Request) /\ Request' = Request
  BY FS_Interval, AccountsAssumption DEF Request
<1>2. IsFiniteSet(S)
  BY <1>1, FS_Subset DEF ToIssue
<1>3. T \subseteq S /\ (Issues(r) => r \in S \ T)
  <2>1. ASSUME NEW q \in Request, q \in T
        PROVE  q \in S /\ (q = r => ~Issues(r))
    <3>1. CASE q # r
      BY <2>1, <3>1, WhoRuns DEF ToIssue
    <3>2. CASE q = r
      BY <2>1, <3>2, WhoRuns
         DEF ToIssue, Effect, Quietly, WritesRow, Issues, Learns, Commits, CleansUp, Ends,
             Goes, Waiting, Answers
    <3> QED BY <3>1, <3>2
  <2>2. Issues(r) => r \in S
    BY DEF Issues, ToIssue, Waiting
  <2> QED BY <1>1, <2>1, <2>2 DEF ToIssue
<1> HIDE DEF S, T
<1>4. /\ IsFiniteSet(T) /\ Cardinality(S) \in Nat /\ Cardinality(T) \in Nat
      /\ Cardinality(T) <= Cardinality(S)
      /\ T # S => Cardinality(T) < Cardinality(S)
  BY <1>2, <1>3, FS_Subset, FS_CardinalityType
<1>5. issued \in Nat /\ issued + Cardinality(S) <= NRequests /\ NRequests \in Nat
  BY AccountsAssumption DEF TypeInv, StoreOK, IdsInv, S
<1>6. issued' = issued \/ (Issues(r) /\ issued' = issued + 1)
  BY DEF Effect, Quietly, WritesRow, Issues, Learns, Commits, CleansUp, store
<1>7. issued' + Cardinality(T) <= NRequests
  BY <1>3, <1>4, <1>5, <1>6
<1> QED BY <1>7 DEF T

(* ------------------- numbers, slugs and legacy users ------------------- *)

\* What a step does to the provider's accounts.
LEMMA EffectOnAccounts ==
    ASSUME NEW r \in Request, Effect(r)
    PROVE  \/ accounts' = accounts /\ issued' = issued
           \/ /\ Issues(r) /\ accounts[email(r)] = 0
              /\ accounts' = [accounts EXCEPT ![email(r)] = issued + 1]
              /\ issued' = issued + 1
           \/ /\ CleansUp(r) /\ accounts' = [accounts EXCEPT ![email(r)] = 0]
              /\ issued' = issued
BY DEF Effect, Quietly, WritesRow, Issues, Learns, Commits, CleansUp, store

\* The e-mail of a request that runs is one of the e-mails, and so on.
LEMMA FormOK ==
    ASSUME TypeInv, NEW q \in Request, Running(q)
    PROVE  /\ email(q) \in Email /\ (SigningUp(q) => slug(q) \in Slug)
           /\ accounts[email(q)] \in Account \cup {0} /\ id[q] \in Account \cup {0}
BY DEF TypeInv, LineOK, LocalOK, StoreOK, Form, email, slug, SigningUp

\* A signup with an account is still at work.
LEMMA HoldsRunning ==
    ASSUME TypeInv, NEW q \in Request, Holding(q)
    PROVE  Running(q) /\ pc[q] \in Linking \cup {"cleanup"} /\ id[q] \in Account
BY DEF TypeInv, LineOK, LocalOK, Holding, Linking, Running, Answers

\* No step gives two signups one account, or takes the account of a signup that
\* still needs it: the clean-up deletes its own.
LEMMA EffectIdsInv ==
    ASSUME TypeInv, IdsInv, NEW r \in Request, Effect(r), LineOK(r)'
    PROVE  IdsInv'
<1>1. issued \in Nat /\ (issued' = issued \/ issued' = issued + 1)
      /\ (Issues(r) => issued' = issued + 1)
  BY EffectOnAccounts DEF TypeInv, StoreOK, Issues
<1>2. Running(r) /\ LocalOK' /\ TypeInv'
  BY WhoRuns, EffectTypeInv
<1>3. ASSUME NEW e \in Email
      PROVE  accounts'[e] <= issued'
  <2>1. accounts[e] \in Int /\ accounts[e] <= issued /\ accounts \in [Email -> Account \cup {0}]
    BY DEF TypeInv, StoreOK, IdsInv, Account
  <2> QED BY <1>1, <2>1, EffectOnAccounts
<1>4. ASSUME NEW q \in Request
      PROVE  id'[q] <= issued'
  <2>1. id[q] \in Int /\ id[q] <= issued
    BY DEF TypeInv, LocalOK, IdsInv, Account
  <2>2. CASE q # r
    BY <1>1, <2>1, <2>2, WhoRuns
  <2>3. CASE q = r
    <3>1. accounts[email(r)] \in Int /\ accounts[email(r)] <= issued
      BY <1>2, FormOK DEF IdsInv, Account
    <3>2. id'[q] \in {0, id[q], issued + 1, accounts[email(r)]}
          /\ (id'[q] = issued + 1 => Issues(r) \/ id'[q] \in {0, id[q], accounts[email(r)]})
      BY <2>3 DEF Effect, Quietly, WritesRow, Issues, Learns, Commits, CleansUp, Ends, Goes
    <3> QED BY <1>1, <2>1, <3>1, <3>2
  <2> QED BY <2>2, <2>3
<1>5. ASSUME NEW p \in Request, NEW q \in Request, Holding(p)', Holding(q)', id'[p] = id'[q]
      PROVE  p = q
  <2>1. \A s \in Request : id[s] <= issued /\ id[s] \in Int
    BY DEF IdsInv, TypeInv, LocalOK, Account
  <2>2. (Holding(p) /\ id'[p] = id[p]) \/ (p = r /\ id'[r] = issued + 1)
    BY <1>5, WhoHolds
  <2>3. (Holding(q) /\ id'[q] = id[q]) \/ (q = r /\ id'[r] = issued + 1)
    BY <1>5, WhoHolds
  <2>4. ~(id[p] = issued + 1) /\ ~(id[q] = issued + 1)
    BY <1>1, <2>1
  <2> QED BY <1>5, <2>2, <2>3, <2>4 DEF IdsInv
<1>6. ASSUME NEW q \in Request, Holding(q)'
      PROVE  accounts'[email(q)'] = id'[q]
  <2>1. email(q)' = email(q) /\ accounts \in [Email -> Account \cup {0}]
    BY <1>6, WhoHolds DEF email, TypeInv, StoreOK
  <2>2. CASE q = r /\ Issues(r) /\ id'[r] = issued + 1
    BY <1>2, <2>1, <2>2, FormOK DEF Issues
  <2>3. CASE Holding(q) /\ id'[q] = id[q]
    <3>1. accounts[email(q)] = id[q] /\ id[q] # 0 /\ Running(q) /\ email(q) \in Email
      BY <2>3, HoldsRunning, FormOK DEF IdsInv, Holding
    <3>2. CASE accounts' = accounts
      BY <2>1, <2>3, <3>1, <3>2
    <3>3. CASE Issues(r)
      BY <1>2, <2>1, <2>3, <3>1, <3>3, FormOK DEF Issues
    <3>4. CASE CleansUp(r)
      <4>1. Holding(r)
        BY <3>4 DEF CleansUp, TypeInv, LineOK, SignupOnly, Holding
      <4>2. r # q
        <5>1. ~Holding(r)'
          BY <3>4 DEF CleansUp, Ends, Holding, SigningUp, NoForm
        <5> QED BY <1>6, <5>1
      <4>3. email(r) # email(q)
        BY <2>3, <3>1, <4>1, <4>2 DEF IdsInv
      <4> QED BY <1>2, <2>1, <2>3, <3>1, <3>4, <4>3, FormOK DEF CleansUp
    <3> QED BY <3>2, <3>3, <3>4, EffectOnAccounts
  <2> QED BY <1>6, <2>2, <2>3, WhoHolds
<1>7. Request' = Request
  BY DEF Request
<1> QED BY <1>3, <1>4, <1>5, <1>6, <1>7, EffectRoom DEF IdsInv

\* The unique key on the slug: an organisation is inserted once, and appears
\* together with its owner.
LEMMA EffectOrgsInv ==
    ASSUME TypeInv, OrgsInv, NEW r \in Request, Effect(r), LineOK(r)'
    PROVE  OrgsInv'
<1>1. Running(r) /\ email(r) \in Email
  BY WhoRuns, FormOK
<1>2. Commits(r) => /\ id[r] # 0 /\ "org" \in tx[r] /\ SigningUp(r)
  BY DEF Commits, TypeInv, LineOK, Linking, SignupOnly
<1>3. \/ UNCHANGED <<orgs, members>>
      \/ /\ Commits(r) /\ orgs' = orgs \cup {slug(r)}
         /\ members' = members \cup {<<email(r), slug(r)>>}
  BY DEF Effect, Quietly, WritesRow, Issues, Learns, Commits, CleansUp, store
<1>4. members' \subseteq Email \X orgs'
  BY <1>1, <1>3 DEF OrgsInv
<1>5. ASSUME NEW q \in Request, "org" \in tx'[q]
      PROVE  slug(q)' \notin orgs'
  <2>1. slug(q)' = slug(q) /\ slug(q) \notin orgs
    BY <1>5, WhoHasOrg DEF OrgsInv, slug
  <2>2. Commits(r) => slug(q) # slug(r)
    <3>1. Commits(r) => q # r /\ "org" \in tx[q]
      BY <1>5, WhoHasOrg, WhoRuns
    <3> QED BY <1>2, <3>1 DEF OrgsInv
  <2> QED BY <1>3, <2>1, <2>2
<1>6. ASSUME NEW p \in Request, NEW q \in Request, "org" \in tx'[p], "org" \in tx'[q],
             slug(p)' = slug(q)'
      PROVE  p = q
  <2>1. slug(p)' = slug(p) /\ slug(q)' = slug(q)
    BY <1>6, WhoHasOrg DEF slug
  <2>2. "org" \in tx[p] \/ (p = r /\ ~SlugLocked(r))
    BY <1>6, WhoHasOrg
  <2>3. "org" \in tx[q] \/ (q = r /\ ~SlugLocked(r))
    BY <1>6, WhoHasOrg
  <2> QED BY <1>6, <2>1, <2>2, <2>3 DEF OrgsInv, SlugLocked
<1>7. OrgsHaveOwners'
  <2>1. \A e \in Email : users[e] # NoRow => users'[e] # NoRow
    <3>1. WritesRow(r) => id[r] # 0
      BY DEF WritesRow, TypeInv, LineOK
    <3>2. \/ users' = users
          \/ users' = [users EXCEPT ![email(r)] = id[r]] /\ id[r] # 0
      BY <1>2, <3>1
         DEF Effect, Quietly, WritesRow, Issues, Learns, Commits, CleansUp, store
    <3> QED BY <3>2 DEF TypeInv, StoreOK, NoRow
  <2>2. ASSUME NEW s \in orgs'
        PROVE  \E e \in Email : <<e, s>> \in members' /\ users'[e] # NoRow
    <3>1. CASE s \in orgs
      <4>1. PICK e \in Email : <<e, s>> \in members /\ users[e] # NoRow
        BY <3>1 DEF OrgsInv, OrgsHaveOwners
      <4> QED BY <1>3, <2>1, <4>1
    <3>2. CASE s \notin orgs
      <4>1. Commits(r) /\ s = slug(r) /\ <<email(r), s>> \in members'
        BY <1>3, <2>2, <3>2
      <4>2. users'[email(r)] # NoRow
        BY <1>1, <1>2, <4>1 DEF Commits, TypeInv, StoreOK, NoRow
      <4> QED BY <1>1, <4>1, <4>2
    <3> QED BY <3>1, <3>2
  <2> QED BY <2>2 DEF OrgsHaveOwners
<1>8. Request' = Request
  BY DEF Request
<1> QED BY <1>4, <1>5, <1>6, <1>7, <1>8 DEF OrgsInv

\* What a step does to the users: a login writes its own row, a signup commits.
LEMMA EffectOnUsers ==
    ASSUME NEW r \in Request, Effect(r)
    PROVE  \/ users' = users /\ members' = members
           \/ /\ WritesRow(r) /\ users' = [users EXCEPT ![email(r)] = id[r]]
              /\ members' = members /\ accounts' = accounts
           \/ /\ Commits(r) /\ users' = [users EXCEPT ![email(r)] = id[r]]
              /\ members' = members \cup {<<email(r), slug(r)>>} /\ accounts' = accounts
BY DEF Effect, Quietly, WritesRow, Issues, Learns, Commits, CleansUp, store

\* The signups that create, commit or delete are none of a legacy user.
LEMMA SagaIsNotLegacy ==
    ASSUME TypeInv, LegacyInv, NEW r \in Request, SigningUp(r),
           Commits(r) \/ CleansUp(r) \/ Issues(r) \/ Holding(r)
    PROVE  email(r) \notin LegacyUsers
<1>1. Running(r) /\ pc[r] # "checkEmail"
  BY DEF Commits, CleansUp, Issues, TypeInv, LineOK, Holding, Linking, Running, Answers
<1> QED BY <1>1 DEF LegacyInv

\* The password of a legacy user is replaced only by the account that the
\* provider has for the e-mail, and no signup deletes that one.
LEMMA EffectLegacyAccess ==
    ASSUME TypeInv, LegacyInv, NEW r \in Request, Effect(r), LineOK(r)'
    PROVE  LegacyKeepsAccess'
<1>1. Running(r) /\ email(r) \in Email /\ id[r] \in Account \cup {0}
  BY WhoRuns, FormOK
<1>2. ASSUME NEW e \in LegacyUsers
      PROVE  users'[e] = Password \/ (users'[e] \in Account /\ accounts'[e] = users'[e])
  <2>1. /\ users[e] = Password \/ (users[e] \in Account /\ accounts[e] = users[e])
        /\ e \in Email /\ users[e] \in {NoRow, Password} \cup Account
        /\ users \in [Email -> {NoRow, Password} \cup Account]
        /\ accounts \in [Email -> Account \cup {0}]
    BY AccountsAssumption DEF LegacyInv, LegacyKeepsAccess, TypeInv, StoreOK
  <2>2. CASE WritesRow(r)
    <3>1. id[r] # 0 /\ accounts' = accounts /\ users' = [users EXCEPT ![email(r)] = id[r]]
          /\ ~SigningUp(r) /\ pc[r] \in Linking
      BY <2>2 DEF WritesRow, TypeInv, LineOK
    <3>2. e = email(r) => accounts[e] = id[r]
      BY <1>1, <3>1 DEF LegacyInv
    <3> QED BY <1>1, <2>1, <3>1, <3>2
  <2>3. CASE Commits(r)
    <3>1. SigningUp(r)
      BY <2>3 DEF Commits, TypeInv, LineOK, SignupOnly
    <3>2. e # email(r)
      BY <2>3, <3>1, SagaIsNotLegacy
    <3> QED BY <1>1, <2>1, <2>3, <3>2 DEF Commits
  <2>4. CASE users' = users
    <3>1. CASE Issues(r)
      <4>1. accounts' = [accounts EXCEPT ![email(r)] = issued + 1]
            /\ accounts[email(r)] = 0
        BY <3>1 DEF Issues
      <4>2. CASE e = email(r)
        BY <2>1, <2>4, <4>1, <4>2 DEF Account
      <4>3. CASE e # email(r)
        BY <2>1, <2>4, <4>1, <4>3
      <4> QED BY <4>2, <4>3
    <3>2. CASE CleansUp(r)
      <4>1. SigningUp(r)
        BY <3>2 DEF CleansUp, TypeInv, LineOK, SignupOnly
      <4>2. e # email(r)
        BY <3>2, <4>1, SagaIsNotLegacy
      <4> QED BY <1>1, <2>1, <2>4, <3>2, <4>2 DEF CleansUp
    <3>3. CASE accounts' = accounts
      BY <2>1, <2>4, <3>3
    <3> QED BY <3>1, <3>2, <3>3, EffectOnAccounts
  <2> QED BY <2>2, <2>3, <2>4, EffectOnUsers
<1> QED BY <1>2 DEF LegacyKeepsAccess

\* ... and so does everything that keeps it so.
LEMMA EffectLegacyInv ==
    ASSUME TypeInv, IdsInv, LegacyInv, NEW r \in Request, Effect(r), LineOK(r)'
    PROVE  LegacyInv'
<1>1. Running(r) /\ email(r) \in Email /\ id[r] \in Account \cup {0} /\ TypeInv'
  BY WhoRuns, FormOK, EffectTypeInv
<1>2. LegacyKeepsAccess'
  BY EffectLegacyAccess
<1>3. \A e \in LegacyUsers : <<e, OldOrg>> \in members'
  BY EffectOnUsers DEF LegacyInv
<1>4. ASSUME NEW e \in Email \ LegacyUsers
      PROVE  users'[e] # Password
  <2>1. WritesRow(r) \/ Commits(r) => id[r] \in Account
    BY <1>1 DEF WritesRow, Commits, TypeInv, LineOK, Linking
  <2>2. users[e] # Password /\ users \in [Email -> {NoRow, Password} \cup Account]
    BY DEF LegacyInv, TypeInv, StoreOK
  <2> QED BY <1>1, <2>1, <2>2, EffectOnUsers DEF Account, Password
<1>5. ASSUME NEW q \in Request, Running(q)', email(q)' \in LegacyUsers
      PROVE  /\ SigningUp(q)' => pc'[q] = "checkEmail"
             /\ (~SigningUp(q)' /\ pc'[q] \in Linking) => accounts'[email(q)'] = id'[q]
  <2>1. /\ Running(q) /\ form'[q] = form[q] /\ email(q)' = email(q)
        /\ SigningUp(q)' <=> SigningUp(q)
    BY <1>5, StillRuns DEF email, SigningUp
  <2>2. /\ email(q) \in Email /\ accounts[email(q)] \in Account \cup {0}
        /\ accounts \in [Email -> Account \cup {0}] /\ email(q) \in LegacyUsers
    BY <1>5, <2>1, FormOK DEF TypeInv, StoreOK
  <2>3. CASE SigningUp(q)
    <3>1. pc[q] = "checkEmail" /\ users[email(q)] # NoRow
      BY <2>1, <2>2, <2>3 DEF LegacyInv, LegacyKeepsAccess, NoRow, Password, Account
    <3>2. CASE q # r
      BY <2>1, <2>3, <3>1, <3>2, WhoRuns
    <3>3. CASE q = r
      <4>1. Quietly(r)
        BY <3>1, <3>3 DEF Effect, WritesRow, Issues, Learns, Commits, CleansUp, Linking
      <4>2. ~Ends(r)
        BY <1>5, <3>3 DEF Ends, Running
      <4> QED BY <3>1, <3>3, <4>1, <4>2 DEF Quietly
    <3> QED BY <3>2, <3>3
  <2>4. CASE ~SigningUp(q) /\ pc'[q] \in Linking
    <3>1. CASE q # r
      <4>1. pc[q] \in Linking /\ id'[q] = id[q] /\ accounts[email(q)] = id[q] /\ id[q] # 0
        BY <2>1, <2>2, <2>4, <3>1, WhoRuns DEF LegacyInv, TypeInv, LineOK
      <4>2. Issues(r) => email(r) # email(q)
        BY <4>1 DEF Issues
      <4>3. CleansUp(r) => email(r) # email(q)
        <5>1. CleansUp(r) => SigningUp(r)
          BY DEF CleansUp, TypeInv, LineOK, SignupOnly
        <5> QED BY <2>2, <5>1, SagaIsNotLegacy
      <4> QED BY <1>1, <2>1, <2>2, <2>4, <4>1, <4>2, <4>3, EffectOnAccounts
    <3>2. CASE q = r
      <4>1. ~Ends(r)
        BY <1>5, <3>2 DEF Ends, Running
      <4>2. CASE Quietly(r)
        <5>1. pc[r] \in Linking /\ id'[r] = id[r] /\ accounts' = accounts
          BY <2>4, <3>2, <4>1, <4>2 DEF Quietly, Goes, store
        <5> QED BY <2>1, <2>2, <2>4, <3>2, <5>1 DEF LegacyInv
      <4>3. CASE Issues(r)
        BY <1>1, <2>1, <2>2, <2>4, <3>2, <4>1, <4>3 DEF Issues, Goes
      <4>4. CASE Learns(r)
        BY <2>1, <2>4, <3>2, <4>4 DEF Learns, Goes, store
      <4>5. ~WritesRow(r) /\ ~Commits(r) /\ ~CleansUp(r)
        BY <2>4, <3>2, <4>1 DEF WritesRow, Commits, CleansUp, Goes, Linking
      <4> QED BY <4>2, <4>3, <4>4, <4>5 DEF Effect
    <3> QED BY <3>1, <3>2
  <2> QED BY <2>1, <2>3, <2>4
<1>6. Request' = Request
  BY DEF Request
<1> QED BY <1>2, <1>3, <1>4, <1>5, <1>6 DEF LegacyInv

(* --------------------- the saga, as long as it is clean ---------------- *)

\* While logins and signups keep apart, a login has no signup for its e-mail
\* beside it.
LEMMA KeptApart ==
    ASSUME TypeInv, CleanInv, ~hurried, NEW q \in Request, NEW r \in Request,
           Running(q), Running(r), SigningUp(q), ~SigningUp(r)
    PROVE  email(q) # email(r)
BY DEF CleanInv, SigningUp, email

\* The row of an e-mail without an account, when a signup gets to create it.
LEMMA NoRowYet ==
    ASSUME TypeInv, LegacyInv, CleanInv, Clean, NEW r \in Request, Issues(r), SigningUp(r)
    PROVE  users[email(r)] = NoRow
<1>1. email(r) \in Email /\ email(r) \notin LegacyUsers /\ accounts[email(r)] = 0
  <2>1. Running(r)
    BY DEF Issues, Running, Answers
  <2> QED BY <2>1, FormOK, SagaIsNotLegacy DEF Issues
<1>2. users[email(r)] # Password
  BY <1>1 DEF LegacyInv
<1>3. ~Usable(email(r))
  BY <1>1, <1>2 DEF Usable, Account
<1> QED BY <1>1, <1>3 DEF CleanInv, Free, SagaOpen

\* A usable e-mail stays so, whoever of its logins is at work.
LEMMA UsableStays ==
    ASSUME TypeInv, LegacyInv, CleanInv, Clean, NEW r \in Request, Effect(r),
           ~SigningUp(r) \/ Quietly(r), NEW e \in Email, Usable(e)
    PROVE  Usable(e)'
<1>1. /\ Running(r) /\ email(r) \in Email /\ id[r] \in Account \cup {0}
      /\ users \in [Email -> {NoRow, Password} \cup Account]
      /\ accounts \in [Email -> Account \cup {0}]
  BY WhoRuns, FormOK DEF TypeInv, StoreOK
<1>2. CASE Quietly(r) \/ Learns(r)
  BY <1>2 DEF Quietly, Learns, store, Usable
<1>3. CASE WritesRow(r)
  <2>1. accounts[email(r)] = id[r] /\ id[r] # 0 /\ members' = members
    BY <1>1, <1>3 DEF WritesRow, CleanInv, TypeInv, LineOK
  <2> QED BY <1>1, <1>3, <2>1 DEF WritesRow, Usable
<1>4. CASE Issues(r)
  BY <1>1, <1>4 DEF Issues, Usable, Account
<1>5. ~Quietly(r) => ~Commits(r) /\ ~CleansUp(r)
  BY DEF Commits, CleansUp, TypeInv, LineOK, SignupOnly
<1> QED BY <1>2, <1>3, <1>4, <1>5 DEF Effect

\* Every e-mail stays usable, free, or in the middle of a signup.
LEMMA EveryEmailStays ==
    ASSUME TypeInv, IdsInv, LegacyInv, CleanInv, Clean, Clean', NEW r \in Request,
           Effect(r), NEW e \in Email
    PROVE  Usable(e)' \/ Free(e)' \/ SagaOpen(e)'
<1>1. /\ Running(r) /\ email(r) \in Email /\ id[r] \in Account \cup {0}
      /\ users \in [Email -> {NoRow, Password} \cup Account]
      /\ accounts \in [Email -> Account \cup {0}] /\ ~hurried /\ Request' = Request
  BY WhoRuns, FormOK DEF TypeInv, StoreOK, Clean, Request
<1>2. Usable(e) \/ Free(e) \/ SagaOpen(e)
  BY DEF CleanInv
<1>3. CASE Quietly(r)
  <2>1. Usable(e) => Usable(e)'
    BY <1>3 DEF Quietly, store, Usable
  <2>2. Free(e) => Free(e)'
    BY <1>3 DEF Quietly, store, Free
  <2>3. ASSUME SagaOpen(e)
        PROVE  SagaOpen(e)'
    <3>1. PICK q \in Request : users[e] = NoRow /\ Holding(q) /\ email(q) = e
      BY <2>3 DEF SagaOpen
    <3>2. form'[q] = form[q] /\ id'[q] = id[q]
      <4>1. CASE q = r
        <5>1. \E line \in Lines, t \in SUBSET TxPart : Goes(r, line, id[r], t)
          BY <1>3, <3>1, <4>1 DEF Quietly, Clean
        <5> QED BY <4>1, <5>1 DEF Goes
      <4>2. CASE q # r
        BY <4>2, WhoRuns
      <4> QED BY <4>1, <4>2
    <3>3. Holding(q)' /\ email(q)' = e
      BY <3>1, <3>2 DEF Holding, SigningUp, email
    <3>4. users' = users
      BY <1>3 DEF Quietly, store
    <3> QED BY <1>1, <3>1, <3>3, <3>4 DEF SagaOpen
  <2> QED BY <1>2, <2>1, <2>2, <2>3
<1>4. CASE ~SigningUp(r) /\ ~Quietly(r)
  <2>1. Usable(e) => Usable(e)'
    BY <1>4, UsableStays
  <2>2. ~Commits(r) /\ ~CleansUp(r)
    BY <1>4 DEF Commits, CleansUp, TypeInv, LineOK, SignupOnly
  <2>3. CASE Free(e) \/ SagaOpen(e)
    <3>1. WritesRow(r) \/ Issues(r) => Usable(email(r))
      BY <1>1, <1>4 DEF WritesRow, Issues, CleanInv
    <3>2. e # email(r) => users'[e] = users[e] /\ accounts'[e] = accounts[e]
      BY <1>1, <2>2, EffectOnUsers, EffectOnAccounts
    <3>3. e = email(r) => Usable(e)' \/ (users' = users /\ accounts' = accounts)
      BY <1>4, <2>2, <3>1, UsableStays DEF Effect, Learns, store
    <3>4. Free(e) => Free(e)' \/ Usable(e)'
      BY <3>2, <3>3 DEF Free
    <3>5. ASSUME SagaOpen(e)
          PROVE  SagaOpen(e)' \/ Usable(e)'
      <4>1. PICK q \in Request : users[e] = NoRow /\ Holding(q) /\ email(q) = e
        BY <3>5 DEF SagaOpen
      <4>2. q # r
        BY <1>4, <4>1 DEF Holding
      <4>3. Holding(q)' /\ email(q)' = e
        BY <4>1, <4>2, WhoRuns DEF Holding, SigningUp, email
      <4>4. Usable(e)' \/ users'[e] = NoRow
        BY <3>2, <3>3, <4>1
      <4> QED BY <1>1, <4>3, <4>4 DEF SagaOpen
    <3> QED BY <2>3, <3>4, <3>5
  <2> QED BY <1>2, <2>1, <2>3
<1>5. CASE SigningUp(r) /\ ~Quietly(r)
  <2>1. Issues(r) \/ Commits(r) \/ CleansUp(r)
    BY <1>5 DEF Effect, WritesRow, Learns, TypeInv, LineOK, LoginOnly
  <2>2. CASE e # email(r)
    <3>1. users'[e] = users[e] /\ accounts'[e] = accounts[e] /\ members \subseteq members'
      BY <1>1, <2>1, <2>2 DEF Issues, Commits, CleansUp
    <3>2. Usable(e) => Usable(e)'
      BY <3>1 DEF Usable
    <3>3. Free(e) => Free(e)'
      BY <3>1 DEF Free
    <3>4. ASSUME SagaOpen(e)
          PROVE  SagaOpen(e)'
      <4>1. PICK q \in Request : users[e] = NoRow /\ Holding(q) /\ email(q) = e
        BY <3>4 DEF SagaOpen
      <4>2. Holding(q)' /\ email(q)' = e
        BY <2>2, <4>1, WhoRuns DEF Holding, SigningUp, email
      <4> QED BY <1>1, <3>1, <4>1, <4>2 DEF SagaOpen
    <3> QED BY <1>2, <3>2, <3>3, <3>4
  <2>3. CASE e = email(r) /\ Issues(r)
    <3>1. users'[e] = NoRow
      BY <1>5, <2>3, NoRowYet DEF Issues
    <3>2. form'[r] = form[r] /\ id'[r] = issued + 1 /\ issued \in Nat
      BY <1>5, <2>3 DEF Issues, Goes, Clean, TypeInv, StoreOK
    <3>3. Holding(r)' /\ email(r)' = e
      BY <1>5, <2>3, <3>2 DEF Holding, SigningUp, email
    <3> QED BY <1>1, <3>1, <3>3 DEF SagaOpen
  <2>4. CASE e = email(r) /\ Commits(r)
    <3>1. /\ accounts' = accounts /\ accounts[e] = id[r] /\ id[r] \in Account
          /\ slug(r) \in Slug
      <4>1. Holding(r)
        BY <1>5, <2>4 DEF Commits, TypeInv, LineOK, Linking, Holding
      <4> QED BY <1>1, <1>5, <2>4, <4>1, HoldsRunning, FormOK DEF IdsInv, Commits
    <3>2. users'[e] = id[r] /\ <<e, slug(r)>> \in members'
      BY <1>1, <2>4 DEF Commits
    <3> QED BY <3>1, <3>2 DEF Usable
  <2>5. CASE e = email(r) /\ CleansUp(r)
    <3>1. Holding(r)
      BY <1>5, <2>5 DEF CleansUp, TypeInv, LineOK, Holding
    <3> QED BY <1>1, <2>5, <3>1 DEF CleansUp, CleanInv, Free
  <2> QED BY <2>1, <2>2, <2>3, <2>4, <2>5
<1> QED BY <1>3, <1>4, <1>5

\* A signup that holds an account has no row yet.
LEMMA HolderHasNoRow ==
    ASSUME TypeInv, IdsInv, LegacyInv, CleanInv, Clean, Clean', NEW r \in Request,
           Effect(r), NEW q \in Request, Holding(q)'
    PROVE  users'[email(q)'] = NoRow
<1>1. form'[q] = form[q] /\ email(q)' = email(q)
  BY WhoHolds DEF email
<1>2. CASE q = r /\ Issues(r) /\ SigningUp(r)
  BY <1>1, <1>2, NoRowYet DEF Issues
<1>3. CASE Holding(q)
  <2>1. /\ users[email(q)] = NoRow /\ Running(q) /\ Running(r) /\ SigningUp(q) /\ ~hurried
        /\ email(q) \in Email /\ email(r) \in Email
        /\ users \in [Email -> {NoRow, Password} \cup Account]
    BY <1>3, HoldsRunning, WhoRuns, FormOK DEF CleanInv, Holding, Clean, TypeInv, StoreOK
  <2>2. CASE WritesRow(r)
    <3>1. email(q) # email(r)
      BY <2>1, <2>2, KeptApart DEF WritesRow
    <3> QED BY <1>1, <2>1, <2>2, <3>1 DEF WritesRow
  <2>3. CASE Commits(r)
    <3>1. Holding(r) /\ Ends(r)
      BY <2>3 DEF Commits, Clean, TypeInv, LineOK, Linking, SignupOnly, Holding
    <3>2. q # r
      BY <3>1 DEF Ends, Holding, SigningUp, NoForm
    <3>3. email(q) # email(r)
      BY <1>3, <3>1, <3>2 DEF IdsInv
    <3> QED BY <1>1, <2>1, <2>3, <3>3 DEF Commits
  <2> QED BY <1>1, <2>1, <2>2, <2>3, EffectOnUsers
<1> QED BY <1>2, <1>3, WhoHolds

\* A login that got as far as the account is the login of a usable e-mail.
LEMMA LoginIsUsable ==
    ASSUME TypeInv, IdsInv, LegacyInv, CleanInv, Clean, Clean', NEW r \in Request,
           Effect(r), NEW q \in Request, Running(q)', ~SigningUp(q)'
    PROVE  /\ pc'[q] \in {"createAccount", "ensureSignIn"} \cup Linking => Usable(email(q))'
           /\ pc'[q] \in Linking => accounts'[email(q)'] = id'[q]
<1>1. /\ Running(q) /\ form'[q] = form[q] /\ email(q)' = email(q) /\ ~SigningUp(q)
      /\ Running(r) /\ ~hurried
  BY StillRuns, WhoRuns DEF email, SigningUp, Clean
<1>2. /\ email(q) \in Email /\ email(r) \in Email
      /\ id[q] \in Account \cup {0} /\ accounts[email(q)] \in Account \cup {0}
      /\ accounts \in [Email -> Account \cup {0}]
  BY <1>1, FormOK DEF TypeInv, StoreOK
<1> DEFINE e == email(q)
<1>3. SigningUp(r) => email(r) # email(q)
  BY <1>1, KeptApart
<1>4. ASSUME Usable(e)
      PROVE  Usable(email(q))'
  <2>1. CASE ~SigningUp(r) \/ Quietly(r)
    <3>1. /\ users'[e] = Password \/ (users'[e] \in Account /\ accounts'[e] = users'[e])
          /\ \E s \in Slug : <<e, s>> \in members'
      <4> HIDE DEF e
      <4> QED BY <1>2, <1>4, <2>1, UsableStays DEF Usable, e
    <3> QED BY <1>1, <3>1 DEF Usable
  <2>2. CASE SigningUp(r)
    <3>1. /\ users'[e] = users[e] /\ accounts'[e] = accounts[e] /\ members \subseteq members'
          /\ email(q)' = email(q)
      <4>1. users \in [Email -> {NoRow, Password} \cup Account]
        BY DEF TypeInv, StoreOK
      <4> QED BY <1>1, <1>2, <1>3, <2>2, <4>1, EffectOnUsers, EffectOnAccounts
    <3> QED BY <1>1, <1>2, <1>4, <3>1 DEF Usable
  <2> QED BY <2>1, <2>2
<1>5. CASE q # r
  <2>1. pc'[q] = pc[q] /\ id'[q] = id[q]
    BY <1>5, WhoRuns
  <2>2. pc[q] \in {"createAccount", "ensureSignIn"} \cup Linking => Usable(e)
    BY <1>1 DEF CleanInv, Clean
  <2>3. ASSUME pc[q] \in Linking
        PROVE  accounts'[e] = id[q]
    <3>1. accounts[e] = id[q] /\ id[q] # 0
      BY <1>1, <2>3 DEF CleanInv, Clean, TypeInv, LineOK
    <3>2. Issues(r) => email(r) # e
      BY <3>1 DEF Issues
    <3>3. CleansUp(r) => email(r) # e
      BY <1>3 DEF CleansUp, TypeInv, LineOK, SignupOnly
    <3> QED BY <1>2, <3>1, <3>2, <3>3, EffectOnAccounts
  <2> HIDE DEF e
  <2>4. pc'[q] \in {"createAccount", "ensureSignIn"} \cup Linking => Usable(email(q))'
    BY <1>4, <2>1, <2>2
  <2> QED BY <1>1, <2>1, <2>3, <2>4 DEF e
<1>6. CASE q = r
  <2>1. ~Ends(r)
    BY <1>6 DEF Ends, Running
  <2>2. CASE Quietly(r)
    <3>1. PICK line \in Lines :
            /\ pc'[r] = line /\ id'[r] = id[r]
            /\ line \in Linking => pc[r] \in Linking
            /\ line = "ensureSignIn" => pc[r] = "createAccount"
            /\ (line = "createAccount" /\ ~SigningUp(r)) => users[email(r)] = Password
      BY <2>1, <2>2 DEF Quietly, Goes
    <3>2. line = "createAccount" => Usable(e)
      <4>1. line = "createAccount" => users[e] = Password
        BY <1>1, <1>6, <3>1
      <4>2. users[e] = Password => e \in LegacyUsers
        BY <1>2 DEF LegacyInv
      <4>3. OldOrg \in Slug
        BY AccountsAssumption
      <4> QED BY <4>1, <4>2, <4>3 DEF LegacyInv, Usable
    <3>3. pc'[q] \in {"createAccount", "ensureSignIn"} \cup Linking => Usable(e)
      BY <1>1, <1>6, <3>1, <3>2 DEF CleanInv, Clean
    <3>4. pc'[q] \in Linking => accounts'[e] = id'[q]
      BY <1>1, <1>6, <2>2, <3>1 DEF CleanInv, Clean, Quietly, store
    <3> QED BY <1>1, <1>4, <3>3, <3>4
  <2>3. CASE Issues(r)
    <3>1. accounts'[e] = id'[q] /\ Usable(e)
      BY <1>1, <1>2, <1>6, <2>1, <2>3 DEF Issues, Goes, CleanInv, Clean
    <3> QED BY <1>1, <1>4, <3>1
  <2>4. CASE Learns(r)
    <3>1. accounts'[e] = id'[q] /\ accounts[e] # 0
      BY <1>1, <1>6, <2>4 DEF Learns, Goes, store
    <3>2. Usable(e)
      <4>1. ~Free(e)
        BY <3>1 DEF Free
      <4>2. ~SagaOpen(e)
        <5>1. ASSUME NEW p \in Request, Holding(p)
              PROVE  email(p) # e
          BY <1>1, <5>1, HoldsRunning, KeptApart DEF Holding
        <5> QED BY <5>1 DEF SagaOpen
      <4> QED BY <1>2, <4>1, <4>2 DEF CleanInv
    <3> QED BY <1>1, <1>4, <3>1, <3>2
  <2>5. CASE WritesRow(r)
    <3>1. pc'[q] = "getOrgs"
      BY <1>6, <2>1, <2>5 DEF WritesRow, Goes
    <3> QED BY <3>1 DEF Linking
  <2>6. ~Commits(r) /\ ~CleansUp(r)
    BY <1>1, <1>6 DEF Commits, CleansUp, TypeInv, LineOK, SignupOnly
  <2> QED BY <2>2, <2>3, <2>4, <2>5, <2>6 DEF Effect
<1> QED BY <1>5, <1>6

\* As long as no trouble is noted, the saga keeps every e-mail in one of the three
\* states, with the requests that are on their way.
LEMMA EffectCleanInv ==
    ASSUME TypeInv, IdsInv, LegacyInv, CleanInv, NEW r \in Request, Effect(r)
    PROVE  CleanInv'
<1>1. hurried' = hurried /\ (Clean' => Clean) /\ Request' = Request
  BY DEF Effect, Quietly, WritesRow, Issues, Learns, Commits, CleansUp, Clean, Request
<1>2. ASSUME ~hurried', NEW p \in Request, NEW q \in Request, Running(p)', Running(q)',
             email(p)' = email(q)'
      PROVE  form'[p].kind = form'[q].kind
  <2>1. Running(p) /\ form'[p] = form[p] /\ Running(q) /\ form'[q] = form[q]
    BY <1>2, StillRuns
  <2> QED BY <1>1, <1>2, <2>1 DEF CleanInv, email
<1>3. ASSUME Clean', NEW e \in Email
      PROVE  (Usable(e) \/ Free(e) \/ SagaOpen(e))'
  BY <1>1, <1>3, EveryEmailStays
<1>4. ASSUME Clean', NEW q \in Request, Holding(q)'
      PROVE  users'[email(q)'] = NoRow
  BY <1>1, <1>4, HolderHasNoRow
<1>5. ASSUME Clean', NEW q \in Request, Running(q)', ~SigningUp(q)'
      PROVE  /\ pc'[q] \in {"createAccount", "ensureSignIn"} \cup Linking
                    => Usable(email(q))'
             /\ pc'[q] \in Linking => accounts'[email(q)'] = id'[q]
  BY <1>1, <1>5, LoginIsUsable
<1> QED BY <1>1, <1>2, <1>3, <1>4, <1>5 DEF CleanInv

(* ---------------------------- the theorems ----------------------------- *)

\* The initial states: nobody is at work, the legacy users have their password.
LEMMA AccountsInit == Init => AccountsInv
<1> SUFFICES ASSUME Init PROVE AccountsInv
  OBVIOUS
<1> USE AccountsAssumption
<1>1. /\ \A r \in Request : /\ pc[r] = "new" /\ form[r] = NoForm /\ id[r] = 0 /\ tx[r] = {}
                            /\ ~Running(r) /\ ~SigningUp(r) /\ ~Holding(r)
      /\ LocalOK
  BY DEF Init, Running, SigningUp, Holding, NoForm, LocalOK, Lines, Waiting
<1>2. TypeInv
  <2>1. users \in [Email -> {NoRow, Password} \cup Account] /\ orgs \subseteq Slug
    BY DEF Init
  <2>2. members \subseteq Email \X Slug
    BY DEF Init
  <2>3. accounts \in [Email -> Account \cup {0}] /\ issued \in 0 .. NRequests
    BY DEF Init
  <2>4. hurried \in BOOLEAN /\ troubled \in BOOLEAN
    BY DEF Init
  <2>5. \A r \in Request : LineOK(r)
    BY <1>1 DEF LineOK, SignupOnly, LoginOnly, Linking
  <2> QED BY <1>1, <2>1, <2>2, <2>3, <2>4, <2>5 DEF TypeInv, StoreOK
<1>3. IdsInv
  <2>1. IsFiniteSet(Request) /\ Cardinality(Request) = NRequests
    BY FS_Interval DEF Request
  <2>2. Cardinality(ToIssue) <= NRequests /\ Cardinality(ToIssue) \in Nat
    <3>1. ToIssue \subseteq Request
      BY DEF ToIssue
    <3> QED BY <2>1, <3>1, FS_Subset, FS_CardinalityType
  <2> QED BY <1>1, <2>2 DEF Init, IdsInv
<1>4. OrgsInv
  BY <1>1 DEF Init, OrgsInv, OrgsHaveOwners, NoRow, Password
<1>5. LegacyInv
  BY <1>1 DEF Init, LegacyInv, LegacyKeepsAccess, NoRow, Password
<1>6. CleanInv
  <2>1. \A e \in Email : Usable(e) \/ Free(e)
    BY DEF Init, Usable, Free, NoRow, Password
  <2> QED BY <1>1, <2>1 DEF CleanInv
<1> QED BY <1>2, <1>3, <1>4, <1>5, <1>6 DEF AccountsInv

\* A request that arrives has nothing yet; if it meets one of the other kind for
\* the same e-mail, the two have been hurried.
LEMMA StartKeeps ==
    ASSUME AccountsInv, NEW r \in Request, Start(r)
    PROVE  AccountsInv'
<1>1. TypeInv /\ LocalOK /\ StoreOK /\ LineOK(r) /\ pc[r] = "new"
  BY DEF AccountsInv, TypeInv, Start, At
<1>2. id[r] = 0 /\ tx[r] = {} /\ form[r] = NoForm
  BY <1>1 DEF LineOK, Running
<1>3. UNCHANGED <<users, orgs, members, accounts, issued, id, tx, troubled>>
  BY DEF Start, store
<1>4. PICK f \in Form :
        /\ form' = [form EXCEPT ![r] = f]
        /\ pc' = [pc EXCEPT ![r] = IF f.kind = "signup" THEN "checkEmail" ELSE "signIn"]
        /\ hurried' = (hurried \/ \E q \in Request :
               Running(q) /\ email(q) = f.email /\ form[q].kind # f.kind)
  BY DEF Start
<1>5. \A q \in Request \ {r} : pc'[q] = pc[q] /\ form'[q] = form[q]
  BY <1>1, <1>4 DEF LocalOK
<1>6. /\ form'[r] = f /\ pc'[r] = (IF f.kind = "signup" THEN "checkEmail" ELSE "signIn")
      /\ f.kind \in {"signup", "login"} /\ f.email \in Email
  BY <1>1, <1>4 DEF LocalOK, Form
<1>7. \A q \in Request : "org" \in tx'[q] => q # r /\ "org" \in tx[q]
  BY <1>2, <1>3
<1>8. ASSUME NEW q \in Request, Holding(q)'
      PROVE  q # r /\ Holding(q) /\ email(q)' = email(q)
  BY <1>2, <1>3, <1>5, <1>8 DEF Holding, SigningUp, email
<1>9. TypeInv'
  <2>1. LocalOK'
    BY <1>1, <1>3, <1>4 DEF LocalOK, Lines, SignupOnly, LoginOnly
  <2>2. StoreOK'
    BY <1>1, <1>3, <1>4 DEF StoreOK
  <2>3. ASSUME NEW q \in Request
        PROVE  LineOK(q)'
    <3>1. CASE q = r
      BY <1>2, <1>3, <1>4, <1>6, <3>1
         DEF LineOK, Running, SigningUp, Holding, SignupOnly, LoginOnly, Linking, Waiting,
             Answers
    <3>2. CASE q # r
      <4>1. pc'[q] = pc[q] /\ form'[q] = form[q] /\ id'[q] = id[q] /\ tx'[q] = tx[q]
            /\ LineOK(q)
        BY <1>1, <1>3, <1>5, <3>2 DEF TypeInv
      <4> QED BY <4>1 DEF LineOK, Running, Holding, SigningUp
    <3> QED BY <3>1, <3>2
  <2> QED BY <2>1, <2>2, <2>3 DEF TypeInv, Request
<1>10. IdsInv'
  <2>1. ToIssue' = ToIssue
    BY <1>1, <1>5, <1>6 DEF ToIssue, Request, Waiting
  <2>2. \A q \in Request : Holding(q)' => Holding(q) /\ email(q)' = email(q)
    BY <1>8
  <2> QED BY <1>3, <2>1, <2>2 DEF AccountsInv, IdsInv, Request
<1>11. OrgsInv'
  <2>1. \A q \in Request : "org" \in tx'[q] => "org" \in tx[q] /\ slug(q)' = slug(q)
    BY <1>5, <1>7 DEF slug
  <2> QED BY <1>3, <2>1 DEF AccountsInv, OrgsInv, OrgsHaveOwners, Request
<1>12. LegacyInv'
  <2>1. ASSUME NEW q \in Request, Running(q)', email(q)' \in LegacyUsers
        PROVE  /\ SigningUp(q)' => pc'[q] = "checkEmail"
               /\ (~SigningUp(q)' /\ pc'[q] \in Linking) => accounts'[email(q)'] = id'[q]
    <3>1. CASE q = r
      BY <1>6, <3>1 DEF SigningUp, Linking
    <3>2. CASE q # r
      BY <1>3, <1>5, <2>1, <3>2 DEF AccountsInv, LegacyInv, Running, SigningUp, email
    <3> QED BY <3>1, <3>2
  <2> QED BY <1>3, <2>1 DEF AccountsInv, LegacyInv, LegacyKeepsAccess, Request
<1>13. CleanInv'
  <2>1. (~hurried' => ~hurried) /\ (Clean' => Clean) /\ Request' = Request
    BY <1>1, <1>3, <1>4 DEF Clean, Request, StoreOK
  <2>2. ASSUME ~hurried', NEW p \in Request, NEW q \in Request, Running(p)', Running(q)',
               email(p)' = email(q)'
        PROVE  form'[p].kind = form'[q].kind
    <3>1. CASE p # r /\ q # r
      BY <1>5, <2>1, <2>2, <3>1 DEF AccountsInv, CleanInv, Running, email
    <3>2. CASE p = r /\ q = r
      BY <3>2
    <3>3. \A s \in Request \ {r} :
            Running(s) /\ email(s) = f.email => form[s].kind = f.kind
      BY <1>4, <2>2
    <3>4. CASE p = r /\ q # r
      BY <1>5, <1>6, <2>2, <3>3, <3>4 DEF Running, email
    <3>5. CASE p # r /\ q = r
      BY <1>5, <1>6, <2>2, <3>3, <3>5 DEF Running, email
    <3> QED BY <3>1, <3>2, <3>4, <3>5
  <2>3. ASSUME Clean', NEW e \in Email
        PROVE  (Usable(e) \/ Free(e) \/ SagaOpen(e))'
    <3>1. Usable(e) \/ Free(e) \/ SagaOpen(e)
      BY <2>1, <2>3 DEF AccountsInv, CleanInv
    <3>2. ASSUME SagaOpen(e)
          PROVE  SagaOpen(e)'
      <4>1. PICK q \in Request : users[e] = NoRow /\ Holding(q) /\ email(q) = e
        BY <3>2 DEF SagaOpen
      <4>2. q # r
        BY <1>2, <4>1 DEF Holding
      <4>3. Holding(q)' /\ email(q)' = e
        BY <1>3, <1>5, <4>1, <4>2 DEF Holding, SigningUp, email
      <4> QED BY <1>3, <2>1, <4>1, <4>3 DEF SagaOpen
    <3>3. (Usable(e) => Usable(e)') /\ (Free(e) => Free(e)')
      BY <1>3 DEF Usable, Free
    <3> QED BY <3>1, <3>2, <3>3
  <2>4. ASSUME Clean', NEW q \in Request, Holding(q)'
        PROVE  users'[email(q)'] = NoRow
    BY <1>3, <1>8, <2>1, <2>4 DEF AccountsInv, CleanInv
  <2>5. ASSUME Clean', NEW q \in Request, Running(q)', ~SigningUp(q)'
        PROVE  /\ pc'[q] \in {"createAccount", "ensureSignIn"} \cup Linking
                      => Usable(email(q))'
               /\ pc'[q] \in Linking => accounts'[email(q)'] = id'[q]
    <3>1. CASE q = r
      BY <1>6, <3>1 DEF Linking
    <3>2. CASE q # r
      <4>1. /\ pc'[q] = pc[q] /\ id'[q] = id[q] /\ email(q)' = email(q)
            /\ Running(q) /\ ~SigningUp(q)
        BY <1>3, <1>5, <2>5, <3>2 DEF Running, SigningUp, email
      <4>2. Usable(email(q)) => Usable(email(q))'
        BY <1>3, <4>1 DEF Usable
      <4> QED BY <1>3, <2>1, <2>5, <4>1, <4>2 DEF AccountsInv, CleanInv
    <3> QED BY <3>1, <3>2
  <2> QED BY <2>1, <2>2, <2>3, <2>4, <2>5 DEF CleanInv
<1> QED BY <1>9, <1>10, <1>11, <1>12, <1>13 DEF AccountsInv

\* Every reachable state, with every fault and every race, satisfies the
\* inductive invariant.
THEOREM AccountsInvariant == Spec => []AccountsInv
<1>1. AccountsInv /\ [Next]_vars => AccountsInv'
  <2>1. ASSUME AccountsInv, NEW r \in Request, Step(r) \/ Crash(r)
        PROVE  AccountsInv'
    BY <2>1, StepEffect, EffectTypeInv, EffectIdsInv, EffectOrgsInv, EffectLegacyInv,
       EffectCleanInv
       DEF AccountsInv
  <2>2. ASSUME AccountsInv, UNCHANGED vars
        PROVE  AccountsInv'
    <3> USE DEF vars, store, local, Holding, Running, SigningUp, email, slug, Request
    <3>1. TypeInv'
      BY <2>2 DEF AccountsInv, TypeInv, LocalOK, StoreOK, LineOK
    <3>2. IdsInv'
      BY <2>2 DEF AccountsInv, IdsInv, ToIssue
    <3>3. OrgsInv'
      BY <2>2 DEF AccountsInv, OrgsInv, OrgsHaveOwners
    <3>4. LegacyInv'
      BY <2>2 DEF AccountsInv, LegacyInv, LegacyKeepsAccess
    <3>5. CleanInv'
      BY <2>2 DEF AccountsInv, CleanInv, Clean, Usable, Free, SagaOpen
    <3> QED BY <3>1, <3>2, <3>3, <3>4, <3>5 DEF AccountsInv
  <2> QED BY <2>1, <2>2, StartKeeps DEF Next
<1> QED BY <1>1, AccountsInit, PTL DEF Spec

\* The rows, the accounts and the locals of signupWithSupabase and
\* loginWithSupabase keep their types.
THEOREM AccountsTypeCorrect == Spec => []TypeOK
<1>1. AccountsInv => TypeOK
  BY DEF AccountsInv, TypeInv, LocalOK, StoreOK, TypeOK, Lines, Waiting, Linking, SignupOnly,
         LoginOnly, Answers, TxPart
<1> QED BY <1>1, AccountsInvariant, PTL

\* The transaction of signupWithSupabase never leaves an organisation without a
\* member that has a row, whatever crashes.
THEOREM OrgsAlwaysHaveOwners == Spec => []OrgsHaveOwners
<1>1. AccountsInv => OrgsHaveOwners
  BY DEF AccountsInv, OrgsInv
<1> QED BY <1>1, AccountsInvariant, PTL

\* migrateLegacyUserToSupabase: at every moment a legacy user can log in, with the
\* password or with the account that the row is linked to.
THEOREM LegacyNeverLockedOut == Spec => []LegacyKeepsAccess
<1>1. AccountsInv => LegacyKeepsAccess
  BY DEF AccountsInv, LegacyInv
<1> QED BY <1>1, AccountsInvariant, PTL

\* signupWithSupabase and its clean-up: when all requests are answered, none was
\* hurried and no trouble was noted, every e-mail is usable or free.
THEOREM SagaIsAllOrNothing == Spec => []AllOrNothing
<1>1. AccountsInv => AllOrNothing
  <2> SUFFICES ASSUME AccountsInv, Quiet, Clean, NEW e \in Email
               PROVE  Usable(e) \/ Free(e)
    BY DEF AllOrNothing, Clean
  <2>1. ~SagaOpen(e)
    BY HoldsRunning DEF AccountsInv, SagaOpen, Quiet
  <2> QED BY <2>1 DEF AccountsInv, CleanInv
<1> QED BY <1>1, AccountsInvariant, PTL

\* Only a commit that has been acknowledged answers "created".
LEMMA OnlyCommitCreates ==
    ASSUME TypeInv, NEW r \in Request, Start(r) \/ Step(r) \/ Crash(r), pc'[r] = "created",
           Running(r)
    PROVE  Commit(r) /\ pc[r] = "commit"
<1>1. LocalOK
  BY DEF TypeInv
<1>2. pc \in [Request -> Lines]
  BY <1>1 DEF LocalOK
<1>3. ASSUME NEW a, Answer(r, a) PROVE a = "created"
  BY <1>2, <1>3 DEF Answer
<1>4. ASSUME NEW line, Goto(r, line) PROVE line = "created"
  BY <1>2, <1>4 DEF Goto
<1>5. ~Abandon(r)
  BY <1>3, <1>4 DEF Abandon
<1>6. ASSUME NEW line, NEW i, WithAccount(r, i, line) PROVE line = "created"
  BY <1>2, <1>6 DEF WithAccount
<1>7. ASSUME NEW line, NEW w, Does(r, w, line) PROVE line = "created"
  BY <1>2, <1>7 DEF Does
<1>8. ~\E o : WriteUser(r, o, AfterSync(r))
  BY <1>4, <1>5, <1>7 DEF WriteUser, AfterSync
<1>9. ~Start(r)
  BY DEF Start, At, Running
<1>10. ~CheckEmail(r) /\ ~ensureSlugAvailable(r) /\ ~LegacyLookup(r)
  BY <1>3, <1>4 DEF CheckEmail, ensureSlugAvailable, LegacyLookup
<1>11. ~CreateUser(r) /\ ~SignInWithPassword(r)
  BY <1>3, <1>4, <1>6 DEF CreateUser, SignInWithPassword
<1>12. ~Begin(r) /\ ~CreateOrg(r) /\ ~AddMember(r)
  BY <1>5, <1>7 DEF Begin, CreateOrg, AddMember
<1>13. ~GetByAuthIdentity(r) /\ ~GetByEmail(r) /\ ~RetryByAuthIdentity(r) /\ ~RetryByEmail(r)
  BY <1>4, <1>5 DEF GetByAuthIdentity, GetByEmail, RetryByAuthIdentity, RetryByEmail,
                    AfterSync
<1>14. ~CreateFromAuth(r) /\ ~LinkAuthIdentity(r)
  BY <1>4, <1>7, <1>8 DEF CreateFromAuth, LinkAuthIdentity
<1>15. ~DeleteUser(r) /\ ~GetUserOrgs(r) /\ ~Crash(r)
  BY <1>3 DEF DeleteUser, GetUserOrgs, Crash
<1> QED BY <1>9, <1>10, <1>11, <1>12, <1>13, <1>14, <1>15 DEF Step, Commit, At

\* Signup: who is told "created" has a linked account and an organisation that is
\* nobody else's.
THEOREM CreatedIsUsable == Spec => CreatedMeansUsable
<1> DEFINE Promised(r) ==
      (Running(r) /\ pc'[r] = "created") =>
          /\ users'[email(r)] = id[r] /\ accounts'[email(r)] = id[r]
          /\ \A e \in Email : <<e, slug(r)>> \in members' <=> e = email(r)
<1>1. ASSUME AccountsInv, [Next]_vars, NEW r \in Request, Running(r), pc'[r] = "created"
      PROVE  Promised(r)
  <2>1. TypeInv /\ pc'[r] # pc[r]
    BY <1>1 DEF AccountsInv, Running, Answers
  <2>2. PICK q \in Request : Start(q) \/ Step(q) \/ Crash(q)
    BY <1>1, <2>1 DEF Next, vars
  <2>3. q = r
    <3>1. Start(q) /\ q # r => pc'[r] = pc[r]
      BY <2>1 DEF Start, TypeInv, LocalOK
    <3>2. (Step(q) \/ Crash(q)) /\ q # r => pc'[r] = pc[r]
      BY <1>1, <2>1, StepEffect, WhoRuns DEF AccountsInv
    <3> QED BY <2>1, <2>2, <3>1, <3>2
  <2>4. Commit(r) /\ pc[r] = "commit" /\ LineOK(r) /\ LocalOK
    BY <1>1, <2>1, <2>2, <2>3, OnlyCommitCreates DEF TypeInv
  <2>5. /\ Holding(r) /\ "member" \in tx[r] /\ "org" \in tx[r]
        /\ email(r) \in Email
    BY <1>1, <2>1, <2>4, FormOK DEF LineOK, Linking, SignupOnly, Holding
  <2>6. /\ users' = [users EXCEPT ![email(r)] = id[r]] /\ accounts' = accounts
        /\ members' = members \cup {<<email(r), slug(r)>>}
    BY <1>1, <2>4, <2>5 DEF Commit, Applied, LocalOK
  <2>7. accounts[email(r)] = id[r] /\ users'[email(r)] = id[r]
    BY <1>1, <2>1, <2>5, <2>6 DEF AccountsInv, IdsInv, TypeInv, StoreOK
  <2>8. \A e \in Email : <<e, slug(r)>> \notin members
    BY <1>1, <2>5 DEF AccountsInv, OrgsInv
  <2> QED BY <2>5, <2>6, <2>7, <2>8
<1>2. AccountsInv /\ [Next]_vars => [\A r \in Request : Promised(r)]_vars
  BY <1>1
<1> QED BY <1>2, AccountsInvariant, PTL DEF Spec, CreatedMeansUsable
=============================================================================
