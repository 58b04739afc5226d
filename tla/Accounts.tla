------------------------------ MODULE Accounts ------------------------------
(***************************************************************************)
(* Who has an account, whose e-mail address is verified and who is an      *)
(* administrator: first-run setup, registration with a password and a      *)
(* mailed code, sign-in through an OAuth provider, binding a provider to   *)
(* an account, password changes, and administrators' edits.                *)
(*                                                                         *)
(* Only the setup is a transaction.  Every other handler asks the database *)
(* several questions (is there an administrator? is the address free? is   *)
(* the code valid?) and acts on the answers later.                         *)
(***************************************************************************)
EXTENDS Naturals, FiniteSets

CONSTANTS
    Accounts,       \* rows the users table may ever have
    Addresses,      \* e-mail addresses
    Subjects,       \* identities at OAuth providers
    NoOne,          \* no account, no address, no subject
    ClaimedEmail,   \* ClaimedEmail[s]: the address a provider reports, or NoOne
    BootstrapAdmins,\* BOOTSTRAP_ADMIN_EMAILS and BOOTSTRAP_ADMIN_OIDC_SUBS
    Handlers,       \* goroutines that serve requests
    MaxChurn        \* bound: codes and bind links sent, administrators' requests, expiries

ASSUME AccountsAssumption ==
    /\ NoOne \notin Accounts \cup Addresses \cup Subjects
    /\ Addresses \cap Subjects = {}
    /\ ClaimedEmail \in [Subjects -> Addresses \cup {NoOne}]
    /\ BootstrapAdmins \subseteq Addresses \cup Subjects
    /\ MaxChurn \in Nat

VARIABLES
    users,          \* the users table; Unused before a row, Gone after it
    codes,          \* email_verification_codes that are valid: <<address, purpose>>
    binds,          \* oidc_bind_requests: accounts about to bind a provider
    required,       \* system_settings: email_verification_required
    handler,        \* the requests being served
    proven,         \* history: addresses a code or a provider has vouched for
    gap,            \* history: the site has lost its last administrator once
    churn           \* what the bound counts (nothing else reads it)

accountVars == <<users, codes, binds, required, handler, proven, gap, churn>>

(* A provider that reports no address leaves the subject in its place.     *)
AccountEmail(s) == IF ClaimedEmail[s] = NoOne THEN s ELSE ClaimedEmail[s]

(* how is a history field: what the account's creation rests on.           *)
Row == [email: Addresses \cup Subjects, sub: Subjects \cup {NoOne},
        admin: BOOLEAN, verified: BOOLEAN,
        how: {"setup", "code", "unchecked", "provider"}]

Unused == [email |-> NoOne, sub |-> NoOne, admin |-> FALSE, verified |-> FALSE, how |-> "unchecked"]

Gone == [Unused EXCEPT !.how = "code"]

Purposes == {"registration", "password_change"}

Steps == {"idle", "admitted", "coded", "looked", "mark",
          "claimed", "weighed", "link", "create", "promote",
          "bind", "bindable", "password", "admin"}

(* who, addr and sub: what the request is about; admin: what it has found  *)
(* out about its right to be an administrator; coded: it has shown a code. *)
Request == [pc: Steps, who: Accounts \cup {NoOne}, addr: Addresses \cup Subjects \cup {NoOne},
            sub: Subjects \cup {NoOne}, admin: BOOLEAN, coded: BOOLEAN]

Idle == [pc |-> "idle", who |-> NoOne, addr |-> NoOne, sub |-> NoOne,
         admin |-> FALSE, coded |-> FALSE]

AccountsTypeOK ==
    /\ users \in [Accounts -> Row \cup {Unused, Gone}]
    /\ codes \subseteq Addresses \X Purposes
    /\ binds \subseteq Accounts
    /\ required \in BOOLEAN
    /\ handler \in [Handlers -> Request]
    /\ proven \subseteq Addresses
    /\ gap \in BOOLEAN
    /\ churn \in 0 .. MaxChurn

AccountsInit ==
    /\ users = [a \in Accounts |-> Unused]
    /\ codes = {}
    /\ binds = {}
    /\ required \in BOOLEAN
    /\ handler = [h \in Handlers |-> Idle]
    /\ proven = {}
    /\ gap = FALSE
    /\ churn = 0

Live(a) == users[a] \notin {Unused, Gone}

Admins == {a \in Accounts : users[a].admin}

hasAdminUser == Admins # {}

(* The unique indexes of the table.                                        *)
EmailFree(e) == \A a \in Accounts : users[a].email # e

SubFree(s, a) == \A b \in Accounts \ {a} : users[b].sub # s

-----------------------------------------------------------------------------
(* Helpers of the actions.                                                 *)

Becomes(h, q) == handler' = [handler EXCEPT ![h] = q]

Done(h) == Becomes(h, Idle)

GoTo(h, pc) == Becomes(h, [handler[h] EXCEPT !.pc = pc])

(* Every change of the table notes whether the last administrator went.    *)
Store(rows) ==
    /\ users' = rows
    /\ gap' = (gap \/ (hasAdminUser /\ \A a \in Accounts : ~rows[a].admin))

Insert(a, row) == users[a] = Unused /\ Store([users EXCEPT ![a] = row])

(* UPDATE ... WHERE id = a: nothing happens to a row that is gone.         *)
Change(a, row) == Store(IF Live(a) THEN [users EXCEPT ![a] = row] ELSE users)

OnlyRequest == UNCHANGED <<users, codes, binds, required, proven, gap, churn>>

Intervene == churn < MaxChurn /\ churn' = churn + 1

shouldBootstrapAdmin(e, s) == e \in BootstrapAdmins \/ s \in BootstrapAdmins \/ ~hasAdminUser

-----------------------------------------------------------------------------
(* First-run setup: one transaction, so two setups make one administrator. *)

SetupAllowed == ~hasAdminUser

SetupInitialAdmin(e, a) ==
    /\ SetupAllowed
    /\ EmailFree(e)
    /\ Insert(a, [email |-> e, sub |-> NoOne, admin |-> TRUE, verified |-> TRUE, how |-> "setup"])
    /\ UNCHANGED <<codes, binds, required, handler, proven, churn>>

-----------------------------------------------------------------------------
(* Registration with a password.                                           *)

AdmittedBeforeSetup == TRUE                    \* mutant: setup is not required

(* Accounts are opened on a site that has been set up.                     *)
Admitted == hasAdminUser

SendRegistrationEmailCode(e) ==
    /\ Admitted
    /\ EmailFree(e)
    /\ codes' = codes \cup {<<e, "registration">>}
    /\ Intervene
    /\ UNCHANGED <<users, binds, required, handler, proven, gap>>

BeginRegister(h, e) ==
    /\ handler[h] = Idle
    /\ Admitted
    /\ Becomes(h, [Idle EXCEPT !.pc = "admitted", !.addr = e])
    /\ OnlyRequest

verifyEmailCode(e, purpose) == <<e, purpose>> \in codes

(* The setting is read here, and again when the row is written.            *)
CheckCode(h) ==
    LET q == handler[h] IN
    /\ q.pc = "admitted"
    /\ \/ ~required /\ GoTo(h, "coded") /\ UNCHANGED proven
       \/ /\ required /\ verifyEmailCode(q.addr, "registration")
          /\ Becomes(h, [q EXCEPT !.pc = "coded", !.coded = TRUE])
          /\ proven' = proven \cup {q.addr}
       \/ required /\ Done(h) /\ UNCHANGED proven
    /\ UNCHANGED <<users, codes, binds, required, gap, churn>>

LookForAdmin(h) ==
    LET q == handler[h] IN
    /\ q.pc = "coded"
    /\ IF EmailFree(q.addr)
       THEN Becomes(h, [q EXCEPT !.pc = "looked", !.admin = shouldBootstrapAdmin(q.addr, NoOne)])
       ELSE Done(h)
    /\ OnlyRequest

RegisteredRow(q) ==
    [email |-> q.addr, sub |-> NoOne, admin |-> q.admin, verified |-> required,
     how |-> IF q.coded THEN "code" ELSE "unchecked"]

RegisterWithPassword(h, a) ==
    LET q == handler[h] IN
    /\ q.pc = "looked"
    /\ IF EmailFree(q.addr)
       THEN Insert(a, RegisteredRow(q)) /\ GoTo(h, "mark")
       ELSE Done(h) /\ UNCHANGED <<users, gap>>
    /\ UNCHANGED <<codes, binds, required, proven, churn>>

(* The code is marked used; that this failed is ignored, and a second code *)
(* for the same address may be valid all the same.                         *)
markEmailCodeUsed(h) ==
    LET q == handler[h]
        shown == <<q.addr, IF q.who = NoOne THEN "registration" ELSE "password_change">>
    IN
    /\ q.pc = "mark"
    /\ codes' \in {codes} \cup (IF required \/ q.who # NoOne THEN {codes \ {shown}} ELSE {})
    /\ Done(h)
    /\ UNCHANGED <<users, binds, required, proven, gap, churn>>

-----------------------------------------------------------------------------
(* Changing the password with a mailed code.  (With the current password   *)
(* nothing changes that is modelled here.)                                 *)

SendPasswordChangeEmailCode(a) ==
    /\ Live(a) /\ users[a].email \in Addresses
    /\ codes' = codes \cup {<<users[a].email, "password_change">>}
    /\ Intervene
    /\ UNCHANGED <<users, binds, required, handler, proven, gap>>

BeginChangePassword(h, a) ==
    LET e == users[a].email IN
    /\ handler[h] = Idle
    /\ Live(a) /\ e \in Addresses
    /\ verifyEmailCode(e, "password_change")
    /\ Becomes(h, [Idle EXCEPT !.pc = "password", !.who = a, !.addr = e])
    /\ proven' = proven \cup {e}
    /\ UNCHANGED <<users, codes, binds, required, gap, churn>>

ChangePassword(h) ==
    LET q == handler[h] IN
    /\ q.pc = "password"
    /\ Change(q.who, [users[q.who] EXCEPT !.verified = TRUE])
    /\ GoTo(h, "mark")
    /\ UNCHANGED <<codes, binds, required, proven, churn>>

-----------------------------------------------------------------------------
(* Signing in through a provider.                                          *)

Vouch(s) == proven' = proven \cup ({ClaimedEmail[s]} \ {NoOne})

(* verifyOAuthClaims: the provider has answered.                           *)
BeginOAuth(h, s) ==
    /\ handler[h] = Idle
    /\ Admitted
    /\ Becomes(h, [Idle EXCEPT !.pc = "claimed", !.sub = s, !.addr = AccountEmail(s)])
    /\ Vouch(s)
    /\ UNCHANGED <<users, codes, binds, required, gap, churn>>

WeighClaims(h) ==
    LET q == handler[h] IN
    /\ q.pc = "claimed"
    /\ Becomes(h, [q EXCEPT !.pc = "weighed",
                            !.admin = shouldBootstrapAdmin(ClaimedEmail[q.sub], q.sub)])
    /\ OnlyRequest

(* findUserByOIDCSubjectOrEmail: the subject first, then the address.      *)
FindAccount(h) ==
    LET q == handler[h]
        bySub == {a \in Accounts : users[a].sub = q.sub}
        byEmail == {a \in Accounts : users[a].email = q.addr}
    IN
    /\ q.pc = "weighed"
    /\ \/ \E a \in (IF bySub # {} THEN bySub ELSE byEmail) :
            Becomes(h, [q EXCEPT !.pc = "link", !.who = a, !.admin = @ /\ ~users[a].admin])
       \/ bySub \cup byEmail = {} /\ GoTo(h, "create")
    /\ OnlyRequest

(* The account found gets the subject, unless it has it, or another one    *)
(* has got it since.                                                       *)
LinkSubject(h) ==
    LET q == handler[h] IN
    /\ q.pc = "link"
    /\ \/ /\ SubFree(q.sub, q.who)
          /\ Change(q.who, [users[q.who] EXCEPT !.sub = q.sub])
          /\ IF q.admin THEN GoTo(h, "promote") ELSE Done(h)
       \/ ~SubFree(q.sub, q.who) /\ Done(h) /\ UNCHANGED <<users, gap>>
    /\ UNCHANGED <<codes, binds, required, proven, churn>>

CreateFromClaims(h, a) ==
    LET q == handler[h] IN
    /\ q.pc = "create"
    /\ IF EmailFree(q.addr) /\ SubFree(q.sub, NoOne)
       THEN Insert(a, [email |-> q.addr, sub |-> q.sub, admin |-> q.admin,
                       verified |-> ClaimedEmail[q.sub] # NoOne, how |-> "provider"])
       ELSE UNCHANGED <<users, gap>>
    /\ Done(h)
    /\ UNCHANGED <<codes, binds, required, proven, churn>>

(* Any sign-in, and any request of the dashboard, makes its user the first *)
(* administrator of a site that has none.                                  *)
EnsureFirstAdmin(h, a) ==
    /\ handler[h] = Idle
    /\ Live(a) /\ ~hasAdminUser
    /\ Becomes(h, [Idle EXCEPT !.pc = "promote", !.who = a, !.admin = TRUE])
    /\ OnlyRequest

Promote(h) ==
    LET q == handler[h] IN
    /\ q.pc = "promote"
    /\ Change(q.who, [users[q.who] EXCEPT !.admin = TRUE])
    /\ Done(h)
    /\ UNCHANGED <<codes, binds, required, proven, churn>>

-----------------------------------------------------------------------------
(* Binding a provider to an account that is signed in.                     *)

CreateOIDCBindRequest(a) ==
    /\ Live(a)
    /\ binds' = binds \cup {a}
    /\ Intervene
    /\ UNCHANGED <<users, codes, required, handler, proven, gap>>

BeginBind(h, a, s) ==
    /\ handler[h] = Idle
    /\ a \in binds
    /\ Becomes(h, [Idle EXCEPT !.pc = "bind", !.who = a, !.sub = s])
    /\ Vouch(s)
    /\ UNCHANGED <<users, codes, binds, required, gap, churn>>

CheckBind(h) ==
    LET q == handler[h] IN
    /\ q.pc = "bind"
    /\ IF SubFree(q.sub, q.who) /\ Live(q.who) THEN GoTo(h, "bindable") ELSE Done(h)
    /\ OnlyRequest

VerifiedByAnyClaim(row, s) == row.verified \/ ClaimedEmail[s] # NoOne  \* mutant

(* The claim verifies the account's address if it is the same one.         *)
VerifiedByClaim(row, s) == row.verified \/ row.email = ClaimedEmail[s]

HandleOIDCBindCallback(h) ==
    LET q == handler[h] IN
    /\ q.pc = "bindable"
    /\ IF SubFree(q.sub, q.who)
       THEN /\ Change(q.who, [users[q.who] EXCEPT !.sub = q.sub,
                                !.verified = VerifiedByClaim(users[q.who], q.sub)])
            /\ binds' = binds \ {q.who}
       ELSE UNCHANGED <<users, gap, binds>>
    /\ Done(h)
    /\ UNCHANGED <<codes, required, proven, churn>>

-----------------------------------------------------------------------------
(* Administrators, and the clock.                                          *)

(* AuthMiddleware and AdminMiddleware decide on the row of the moment.     *)
BeginAdmin(h, a) ==
    /\ handler[h] = Idle
    /\ users[a].admin
    /\ Becomes(h, [Idle EXCEPT !.pc = "admin", !.who = a])
    /\ Intervene
    /\ UNCHANGED <<users, codes, binds, required, proven, gap>>

Administer(h) ==
    /\ handler[h].pc = "admin"
    /\ Done(h)
    /\ UNCHANGED <<codes, binds, proven, churn>>

UpdateUser(h, a, admin) ==
    /\ Live(a)
    /\ Change(a, [users[a] EXCEPT !.admin = admin])
    /\ Administer(h)
    /\ UNCHANGED required

DeleteUser(h, a) ==
    /\ Live(a)
    /\ Store([users EXCEPT ![a] = Gone])
    /\ Administer(h)
    /\ UNCHANGED required

UpdateSettings(h) ==
    /\ required' = ~required
    /\ Administer(h)
    /\ UNCHANGED <<users, gap>>

Expire ==
    /\ \/ \E c \in codes : codes' = codes \ {c} /\ UNCHANGED binds
       \/ \E a \in binds : binds' = binds \ {a} /\ UNCHANGED codes
    /\ Intervene
    /\ UNCHANGED <<users, required, handler, proven, gap>>

(* Every handler may give up on an error of the database, of the provider  *)
(* or of the mail server, and dies with the process.                       *)
Fail(h) ==
    /\ handler[h] # Idle
    /\ Done(h)
    /\ OnlyRequest

Serve(h) ==
    \/ CheckCode(h) \/ LookForAdmin(h) \/ markEmailCodeUsed(h)
    \/ \E a \in Accounts : RegisterWithPassword(h, a) \/ CreateFromClaims(h, a)
    \/ WeighClaims(h) \/ FindAccount(h) \/ LinkSubject(h) \/ Promote(h)
    \/ CheckBind(h) \/ HandleOIDCBindCallback(h) \/ ChangePassword(h)
    \/ \E a \in Accounts :
         \/ \E admin \in BOOLEAN : UpdateUser(h, a, admin)
         \/ DeleteUser(h, a)
    \/ UpdateSettings(h)
    \/ Fail(h)

Arrive(h) ==
    \/ \E e \in Addresses : BeginRegister(h, e)
    \/ \E s \in Subjects : BeginOAuth(h, s)
    \/ \E a \in Accounts :
         \/ BeginChangePassword(h, a) \/ EnsureFirstAdmin(h, a) \/ BeginAdmin(h, a)
         \/ \E s \in Subjects : BeginBind(h, a, s)

AccountsNext ==
    \/ \E e \in Addresses, a \in Accounts : SetupInitialAdmin(e, a)
    \/ \E e \in Addresses : SendRegistrationEmailCode(e)
    \/ \E a \in Accounts : SendPasswordChangeEmailCode(a) \/ CreateOIDCBindRequest(a)
    \/ \E h \in Handlers : Arrive(h) \/ Serve(h)
    \/ Expire

AccountsSpec == AccountsInit /\ [][AccountsNext]_accountVars

-----------------------------------------------------------------------------
(* Properties.                                                             *)

(* While the site has had an administrator all along, only the setup, an   *)
(* administrator or the configuration makes one: no registration or        *)
(* sign-in that raced with the setup, or that looked before it, does.      *)
(* (The configuration names the account, or the identity it signs in with, *)
(* whose address may differ from the account's, and which another bind may *)
(* have replaced by the time the account is raised.)                       *)
AdminsAppointed ==
    [][\A a \in Accounts :
         users'[a].admin /\ ~users[a].admin =>
           \/ gap
           \/ users'[a].how = "setup" /\ Admins = {}
           \/ \E h \in Handlers : UpdateUser(h, a, TRUE)
           \/ {users'[a].email, users'[a].sub} \cap BootstrapAdmins # {}
           \/ \E h \in Handlers :
                /\ Promote(h) /\ handler[h].who = a
                /\ {handler[h].sub, ClaimedEmail[handler[h].sub]} \cap BootstrapAdmins # {}]_accountVars

(* A verified address was shown to belong to its owner, by a mailed code   *)
(* or by a provider: however the requests interleave, with two exceptions. *)
(* The first administrator's is taken on trust, and so is that of an       *)
(* account whose registration had begun before codes were required.        *)
VerifiedIsProven ==
    \A a \in Accounts :
      Live(a) /\ users[a].verified /\ users[a].how \notin {"setup", "unchecked"}
        => users[a].email \in proven
=============================================================================
