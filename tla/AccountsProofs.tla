--------------------------- MODULE AccountsProofs ---------------------------
(* Theorems about Accounts and, in the last part, about Passkeys, for      *)
(* every value of their constants.                                         *)
EXTENDS Accounts, Passkeys, TLAPS

(* The site has had an administrator.                                      *)
SetUp == gap \/ hasAdminUser

(* Until then there is nobody, and nobody is served.                       *)
QuietBeforeSetup ==
    \/ SetUp
    \/ /\ users = [a \in Accounts |-> Unused]
       /\ handler = [h \in Handlers |-> Idle]
       /\ binds = {}

(* A provider has reported the subject, and its address if it has one.     *)
Reported(s) == s \in Subjects /\ ClaimedEmail[s] \in proven \cup {NoOne}

(* What a request is about, and what it has been shown.                    *)
Shown(q) ==
    /\ q.coded => q.addr \in proven
    /\ q.pc \in {"admitted", "coded", "looked"} => q.addr \in Addresses /\ q.sub = NoOne
    /\ q.pc \in {"claimed", "weighed", "link", "create"} =>
         Reported(q.sub) /\ q.addr = AccountEmail(q.sub)
    /\ q.pc \in {"bind", "bindable"} => q.who \in Accounts /\ Reported(q.sub)
    /\ q.pc \in {"link", "promote", "password"} => q.who \in Accounts
    /\ q.pc = "password" =>
         /\ q.addr \in proven
         /\ users[q.who] # Unused
         /\ Live(q.who) => users[q.who].email = q.addr

(* The configuration names the identity a request signs in with.           *)
NamedIdentity(s) == s \in Subjects /\ {s, ClaimedEmail[s]} \cap BootstrapAdmins # {}

(* Why a request believes that it may make an administrator.               *)
Entitled(q) ==
    /\ q.pc = "looked" /\ q.admin => gap \/ q.addr \in BootstrapAdmins
    /\ q.pc \in {"weighed", "link", "create"} /\ q.admin => gap \/ NamedIdentity(q.sub)
    /\ q.pc = "promote" => gap \/ NamedIdentity(q.sub)

RequestsSound == \A h \in Handlers : Shown(handler[h]) /\ Entitled(handler[h])

(* The inductive invariant.                                                *)
AccountsInv ==
    /\ AccountsTypeOK
    /\ QuietBeforeSetup
    /\ RequestsSound
    /\ VerifiedIsProven

-----------------------------------------------------------------------------
(* Rows of the table, and the requests.                                    *)

Rows == Row \cup {Unused, Gone}

LEMMA EmptyRows == Unused \notin Row /\ Gone \notin Row /\ Unused # Gone
<1>1. NoOne \notin Addresses \cup Subjects
  BY AccountsAssumption
<1>2. Unused.email = NoOne /\ Gone.email = NoOne /\ Unused.how # Gone.how
  BY DEF Unused, Gone
<1>3. \A x \in Row : x.email \in Addresses \cup Subjects
  BY DEF Row
<1> QED
  BY <1>1, <1>2, <1>3

LEMMA LiveIsRow ==
    ASSUME AccountsTypeOK, NEW a \in Accounts
    PROVE  /\ Live(a) <=> users[a] \in Row
           /\ users[a] = Unused \/ users[a] = Gone \/ users[a] \in Row
BY EmptyRows DEF AccountsTypeOK, Live

(* A row is made once, keeps its address, and is deleted once.             *)
RowMoves(a) ==
    \/ users'[a] = users[a]
    \/ users[a] = Unused /\ users'[a] \in Row
    \/ users[a] \in Row /\ users'[a] \in Row /\ users'[a].email = users[a].email
    \/ users[a] \in Row /\ users'[a] = Gone

TableSteady ==
    /\ users' \in [Accounts -> Rows]
    /\ \A a \in Accounts : RowMoves(a)
    /\ gap' \in BOOLEAN
    /\ gap => gap'
    /\ SetUp => SetUp'

LEMMA TableKept ==
    ASSUME AccountsTypeOK, UNCHANGED <<users, gap>>
    PROVE  TableSteady
BY DEF AccountsTypeOK, TableSteady, Rows, RowMoves, SetUp, hasAdminUser, Admins

LEMMA Stored ==
    ASSUME AccountsTypeOK, NEW rows \in [Accounts -> Rows], Store(rows)
    PROVE  users' = rows /\ gap' \in BOOLEAN /\ (gap => gap') /\ (SetUp => SetUp')
<1>1. users' = rows /\ gap' = (gap \/ (hasAdminUser /\ \A a \in Accounts : ~rows[a].admin))
  BY DEF Store
<1>2. gap \in BOOLEAN
  BY DEF AccountsTypeOK
<1>3. hasAdminUser => gap' \/ \E a \in Accounts : rows[a].admin
  BY <1>1
<1>4. (\E a \in Accounts : rows[a].admin) => hasAdminUser'
  BY <1>1 DEF hasAdminUser, Admins
<1>5. SetUp => SetUp'
  BY <1>1, <1>3, <1>4 DEF SetUp
<1>6. gap' \in BOOLEAN /\ (gap => gap')
  BY <1>1, <1>2
<1> QED
  BY <1>1, <1>5, <1>6

LEMMA Inserted ==
    ASSUME AccountsTypeOK, NEW a \in Accounts, NEW row \in Row, Insert(a, row)
    PROVE  users[a] = Unused /\ users' = [users EXCEPT ![a] = row] /\ TableSteady
<1>1. users[a] = Unused /\ Store([users EXCEPT ![a] = row])
  BY DEF Insert
<1>2. users \in [Accounts -> Rows]
  BY DEF AccountsTypeOK, Rows
<1>3. [users EXCEPT ![a] = row] \in [Accounts -> Rows]
  BY <1>2 DEF Rows
<1>4. /\ users' = [users EXCEPT ![a] = row] /\ gap' \in BOOLEAN
      /\ (gap => gap') /\ (SetUp => SetUp')
  BY <1>1, <1>3, Stored
<1>5. \A b \in Accounts : RowMoves(b)
  BY <1>1, <1>2, <1>4 DEF RowMoves
<1> QED
  BY <1>1, <1>3, <1>4, <1>5 DEF TableSteady

LEMMA Changed ==
    ASSUME AccountsTypeOK, NEW a \in Accounts, NEW row,
           Live(a) => row \in Row /\ row.email = users[a].email,
           Change(a, row)
    PROVE  users' = (IF Live(a) THEN [users EXCEPT ![a] = row] ELSE users) /\ TableSteady
<1> DEFINE rows == IF Live(a) THEN [users EXCEPT ![a] = row] ELSE users
<1>1. Store(rows)
  BY DEF Change
<1>2. users \in [Accounts -> Rows]
  BY DEF AccountsTypeOK, Rows
<1>3. rows \in [Accounts -> Rows]
  BY <1>2 DEF Rows
<1>4. users' = rows /\ gap' \in BOOLEAN /\ (gap => gap') /\ (SetUp => SetUp')
  BY <1>1, <1>3, Stored
<1>5. \A b \in Accounts : rows[b] = users[b] \/ (b = a /\ Live(a) /\ rows[b] = row)
  BY <1>2
<1>6. \A b \in Accounts : RowMoves(b)
  <2> SUFFICES ASSUME NEW b \in Accounts PROVE RowMoves(b)
    OBVIOUS
  <2>1. Live(a) <=> users[a] \in Row
    BY LiveIsRow
  <2>2. users'[b] = users[b] \/ (b = a /\ Live(a) /\ users'[b] = row)
    BY <1>4, <1>5
  <2> QED
    BY <2>1, <2>2 DEF RowMoves
<1> QED
  BY <1>3, <1>4, <1>6 DEF TableSteady

LEMMA Deleted ==
    ASSUME AccountsTypeOK, NEW a \in Accounts, Live(a), Store([users EXCEPT ![a] = Gone])
    PROVE  users' = [users EXCEPT ![a] = Gone] /\ TableSteady
<1>1. users \in [Accounts -> Rows]
  BY DEF AccountsTypeOK, Rows
<1>2. [users EXCEPT ![a] = Gone] \in [Accounts -> Rows]
  BY <1>1 DEF Rows
<1>3. /\ users' = [users EXCEPT ![a] = Gone] /\ gap' \in BOOLEAN
      /\ (gap => gap') /\ (SetUp => SetUp')
  BY <1>2, Stored
<1>4. users[a] \in Row
  BY LiveIsRow
<1>5. \A b \in Accounts : RowMoves(b)
  BY <1>1, <1>3, <1>4 DEF RowMoves
<1> QED
  BY <1>2, <1>3, <1>5 DEF TableSteady

(* A vouched address stays vouched, and a request keeps what it rests on.  *)
Steady == TableSteady /\ proven \subseteq proven'

LEMMA ShownKept ==
    ASSUME AccountsTypeOK, Steady, NEW q \in Request, Shown(q)
    PROVE  Shown(q)'
<1>1. proven \subseteq proven'
  BY DEF Steady
<1>2. Reported(q.sub) => Reported(q.sub)'
  BY <1>1 DEF Reported
<1>3. q.addr \in proven => q.addr \in proven'
  BY <1>1
<1>4. ASSUME q.pc = "password"
      PROVE  users'[q.who] # Unused /\ (Live(q.who)' => users'[q.who].email = q.addr)
  <2>1. q.who \in Accounts /\ users[q.who] # Unused
    BY <1>4 DEF Shown
  <2>2. Live(q.who) => users[q.who].email = q.addr
    BY <1>4 DEF Shown
  <2>3. RowMoves(q.who)
    BY <2>1 DEF Steady, TableSteady
  <2>4. Live(q.who) <=> users[q.who] \in Row
    BY <2>1, LiveIsRow
  <2>5. Live(q.who)' <=> users'[q.who] \notin {Unused, Gone}
    BY DEF Live
  <2>6. Live(q.who) <=> users[q.who] \notin {Unused, Gone}
    BY DEF Live
  <2> QED
    BY <2>1, <2>2, <2>3, <2>4, <2>5, <2>6, EmptyRows DEF RowMoves
<1> QED
  BY <1>2, <1>3, <1>4 DEF Shown

LEMMA EntitledKept ==
    ASSUME Steady, NEW q, Entitled(q)
    PROVE  Entitled(q)'
BY DEF Steady, TableSteady, Entitled, NamedIdentity

(* The requests, when one of them moves on.                                *)
LEMMA RequestMoves ==
    ASSUME AccountsTypeOK, Steady, RequestsSound,
           NEW h \in Handlers, NEW q \in Request, Becomes(h, q), Shown(q)', Entitled(q)'
    PROVE  handler' \in [Handlers -> Request] /\ RequestsSound'
<1>1. handler \in [Handlers -> Request] /\ handler' = [handler EXCEPT ![h] = q]
  BY DEF AccountsTypeOK, Becomes
<1>2. handler' \in [Handlers -> Request]
  BY <1>1
<1>3. ASSUME NEW k \in Handlers
      PROVE  Shown(handler[k])' /\ Entitled(handler[k])'
  <2>1. PICK r \in Request : r = handler[k]
    BY <1>1
  <2>2. Shown(r)' /\ Entitled(r)'
    BY <2>1, ShownKept, EntitledKept DEF RequestsSound
  <2>3. handler'[k] = (IF k = h THEN q ELSE r)
    BY <1>1, <2>1
  <2>4. CASE k = h
    BY <2>3, <2>4
  <2>5. CASE k # h
    BY <2>2, <2>3, <2>5
  <2> QED
    BY <2>4, <2>5
<1> QED
  BY <1>2, <1>3 DEF RequestsSound

LEMMA RequestsStay ==
    ASSUME AccountsTypeOK, Steady, RequestsSound, handler' = handler
    PROVE  handler' \in [Handlers -> Request] /\ RequestsSound'
<1>1. handler \in [Handlers -> Request]
  BY DEF AccountsTypeOK
<1>2. ASSUME NEW k \in Handlers
      PROVE  Shown(handler[k])' /\ Entitled(handler[k])'
  <2>1. PICK r \in Request : r = handler[k]
    BY <1>1
  <2>2. Shown(r)' /\ Entitled(r)'
    BY <2>1, ShownKept, EntitledKept DEF RequestsSound
  <2>3. handler'[k] = r
    BY <2>1
  <2> QED
    BY <2>2, <2>3
<1> QED
  BY <1>1, <1>2 DEF RequestsSound

LEMMA IdleSound == Idle \in Request /\ Idle.pc = "idle" /\ Idle.coded = FALSE
BY DEF Idle, Request, Steps

(* A verified address rests on the setup, on a code, on a provider, or on  *)
(* a registration without codes.                                           *)
Backed(x) == x.verified /\ x.how \notin {"setup", "unchecked"} => x.email \in proven

LEMMA RowsBacked ==
    ASSUME AccountsTypeOK, VerifiedIsProven, NEW a \in Accounts, users[a] \in Row
    PROVE  Backed(users[a])
BY LiveIsRow DEF VerifiedIsProven, Backed

LEMMA StillVerified ==
    ASSUME AccountsTypeOK, Steady, VerifiedIsProven,
           \A a \in Accounts : users'[a] = users[a] \/ users'[a] = Gone \/ Backed(users[a])'
    PROVE  VerifiedIsProven'
<1> SUFFICES ASSUME NEW a \in Accounts, Live(a)', users'[a].verified,
                    users'[a].how \notin {"setup", "unchecked"}
             PROVE  users'[a].email \in proven'
  BY DEF VerifiedIsProven
<1>1. users'[a] # Gone
  BY DEF Live
<1>2. CASE users'[a] = users[a]
  <2>1. Live(a)
    BY <1>2 DEF Live
  <2>2. users[a].email \in proven
    BY <1>2, <2>1 DEF VerifiedIsProven
  <2> QED
    BY <1>2, <2>2 DEF Steady
<1>3. CASE Backed(users[a])'
  BY <1>3 DEF Backed
<1> QED
  BY <1>1, <1>2, <1>3

(* Whoever is served, or has an account, comes after the setup.            *)
LEMMA AfterSetup ==
    ASSUME QuietBeforeSetup, NEW h \in Handlers, handler[h] # Idle
    PROVE  SetUp
BY DEF QuietBeforeSetup

LEMMA LiveAfterSetup ==
    ASSUME QuietBeforeSetup, NEW a \in Accounts, Live(a)
    PROVE  SetUp
BY DEF QuietBeforeSetup, Live

LEMMA BoundAfterSetup ==
    ASSUME QuietBeforeSetup, NEW a \in binds
    PROVE  SetUp
BY DEF QuietBeforeSetup

LEMMA StaysSetUp ==
    ASSUME Steady, SetUp
    PROVE  QuietBeforeSetup'
BY DEF Steady, TableSteady, QuietBeforeSetup

-----------------------------------------------------------------------------
(* The steps preserve the invariant: what they have in common.             *)

OthersTyped ==
    /\ codes \subseteq Addresses \X Purposes
    /\ binds \subseteq Accounts
    /\ required \in BOOLEAN
    /\ proven \subseteq Addresses
    /\ churn \in 0 .. MaxChurn

LEMMA OthersHold == AccountsTypeOK => OthersTyped
BY DEF AccountsTypeOK, OthersTyped

LEMMA OthersStay ==
    ASSUME AccountsTypeOK, UNCHANGED <<codes, binds, required, churn>>, proven' \subseteq Addresses
    PROVE  OthersTyped'
BY DEF AccountsTypeOK, OthersTyped

(* A row that a step leaves, deletes, or verifies for a reason.            *)
RowBacked(a) == users'[a] = users[a] \/ users'[a] = Gone \/ Backed(users[a])'

LEMMA StepSound ==
    ASSUME AccountsInv, Steady, SetUp, OthersTyped', \A a \in Accounts : RowBacked(a),
           NEW h \in Handlers, NEW q \in Request, Becomes(h, q), Shown(q)', Entitled(q)'
    PROVE  AccountsInv'
<1>1. AccountsTypeOK /\ RequestsSound /\ VerifiedIsProven
  BY DEF AccountsInv
<1>2. handler' \in [Handlers -> Request] /\ RequestsSound'
  BY <1>1, RequestMoves
<1>3. QuietBeforeSetup'
  BY StaysSetUp
<1>4. VerifiedIsProven'
  BY <1>1, StillVerified DEF RowBacked
<1>5. AccountsTypeOK'
  BY <1>2 DEF Steady, TableSteady, Rows, OthersTyped, AccountsTypeOK
<1> QED
  BY <1>2, <1>3, <1>4, <1>5 DEF AccountsInv

LEMMA StepDone ==
    ASSUME AccountsInv, Steady, SetUp, OthersTyped', \A a \in Accounts : RowBacked(a),
           NEW h \in Handlers, Done(h)
    PROVE  AccountsInv'
<1>1. PICK q \in Request : q = Idle
  BY IdleSound
<1>2. q.pc = "idle" /\ q.coded = FALSE
  BY <1>1, IdleSound
<1>3. Shown(q)' /\ Entitled(q)'
  BY <1>2 DEF Shown, Entitled
<1>4. Becomes(h, q)
  BY <1>1 DEF Done
<1> QED
  BY <1>3, <1>4, StepSound

LEMMA StepAside ==
    ASSUME AccountsInv, Steady, QuietBeforeSetup', OthersTyped',
           \A a \in Accounts : RowBacked(a), handler' = handler
    PROVE  AccountsInv'
<1>1. AccountsTypeOK /\ RequestsSound /\ VerifiedIsProven
  BY DEF AccountsInv
<1>2. handler' \in [Handlers -> Request] /\ RequestsSound'
  BY <1>1, RequestsStay
<1>4. VerifiedIsProven'
  BY <1>1, StillVerified DEF RowBacked
<1>5. AccountsTypeOK'
  BY <1>2 DEF Steady, TableSteady, Rows, OthersTyped, AccountsTypeOK
<1> QED
  BY <1>2, <1>4, <1>5 DEF AccountsInv

(* A step of a request that only asks the database.                        *)
LEMMA Asks ==
    ASSUME AccountsInv, UNCHANGED <<users, codes, binds, required, gap, churn>>,
           proven \subseteq proven', proven' \subseteq Addresses
    PROVE  Steady /\ OthersTyped' /\ \A a \in Accounts : RowBacked(a)
<1>1. AccountsTypeOK
  BY DEF AccountsInv
<1>2. TableSteady
  BY <1>1, TableKept
<1>3. OthersTyped'
  BY <1>1, OthersStay
<1> QED
  BY <1>2, <1>3 DEF Steady, RowBacked

LEMMA OnlyAsks ==
    ASSUME AccountsInv, OnlyRequest
    PROVE  Steady /\ OthersTyped' /\ \A a \in Accounts : RowBacked(a)
<1>1. AccountsTypeOK
  BY DEF AccountsInv
<1> QED
  BY <1>1, Asks DEF OnlyRequest, AccountsTypeOK

LEMMA TheRequest ==
    ASSUME AccountsInv, NEW h \in Handlers
    PROVE  \E q \in Request : q = handler[h] /\ Shown(q) /\ Entitled(q)
BY DEF AccountsInv, AccountsTypeOK, RequestsSound

LEMMA ServedAfterSetup ==
    ASSUME AccountsInv, NEW h \in Handlers, NEW p, p # "idle", handler[h].pc = p
    PROVE  SetUp
<1>1. handler[h] # Idle
  BY IdleSound
<1> QED
  BY <1>1, AfterSetup DEF AccountsInv

LEMMA Turned ==
    ASSUME NEW q \in Request, NEW p \in Steps
    PROVE  LET r == [q EXCEPT !.pc = p] IN
           /\ r \in Request
           /\ r.pc = p /\ r.who = q.who /\ r.addr = q.addr /\ r.sub = q.sub
           /\ r.admin = q.admin /\ r.coded = q.coded
BY DEF Request

-----------------------------------------------------------------------------
(* Registration.                                                           *)

LEMMA BeginRegisterSound ==
    ASSUME AccountsInv, NEW h \in Handlers, NEW e \in Addresses, BeginRegister(h, e)
    PROVE  AccountsInv'
<1>1. PICK q \in Request : q = [Idle EXCEPT !.pc = "admitted", !.addr = e]
  BY DEF Idle, Request, Steps
<1>2. /\ q.pc = "admitted" /\ q.addr = e /\ q.sub = NoOne
      /\ q.coded = FALSE /\ q.admin = FALSE
  BY <1>1 DEF Idle
<1>3. Shown(q)' /\ Entitled(q)'
  BY <1>2 DEF Shown, Entitled
<1>4. Becomes(h, q) /\ SetUp
  BY <1>1 DEF BeginRegister, Admitted, SetUp
<1>5. Steady /\ OthersTyped' /\ \A a \in Accounts : RowBacked(a)
  BY OnlyAsks DEF BeginRegister
<1> QED
  BY <1>3, <1>4, <1>5, StepSound

LEMMA CheckCodeSound ==
    ASSUME AccountsInv, NEW h \in Handlers, CheckCode(h)
    PROVE  AccountsInv'
<1>1. PICK q \in Request : q = handler[h] /\ Shown(q) /\ Entitled(q)
  BY TheRequest
<1>2. q.pc = "admitted" /\ UNCHANGED <<users, codes, binds, required, gap, churn>>
  BY <1>1 DEF CheckCode
<1>3. q.addr \in Addresses /\ q.sub = NoOne
  BY <1>1, <1>2 DEF Shown
<1>4. SetUp
  BY <1>1, <1>2, ServedAfterSetup
<1>5. proven \subseteq Addresses
  BY DEF AccountsInv, AccountsTypeOK
<1>6. CASE GoTo(h, "coded") /\ UNCHANGED proven
  <2>1. PICK r \in Request : r = [q EXCEPT !.pc = "coded"]
    BY Turned DEF Steps
  <2>2. /\ r.pc = "coded" /\ r.addr = q.addr /\ r.sub = q.sub /\ r.coded = q.coded
    BY <2>1 DEF Request
  <2>3. Steady /\ OthersTyped' /\ \A a \in Accounts : RowBacked(a)
    BY <1>2, <1>5, <1>6, Asks
  <2>4. r.coded => r.addr \in proven
    BY <1>1, <2>2 DEF Shown
  <2>5. Shown(r)' /\ Entitled(r)'
    BY <1>3, <1>6, <2>2, <2>4 DEF Shown, Entitled
  <2>6. Becomes(h, r)
    BY <1>1, <1>6, <2>1 DEF GoTo
  <2> QED
    BY <1>4, <2>3, <2>5, <2>6, StepSound
<1>7. CASE /\ Becomes(h, [q EXCEPT !.pc = "coded", !.coded = TRUE])
           /\ proven' = proven \cup {q.addr}
  <2>1. PICK r \in Request : r = [q EXCEPT !.pc = "coded", !.coded = TRUE]
    BY DEF Request, Steps
  <2>2. r.pc = "coded" /\ r.addr = q.addr /\ r.sub = q.sub
    BY <2>1 DEF Request
  <2>3. Steady /\ OthersTyped' /\ \A a \in Accounts : RowBacked(a)
    BY <1>2, <1>3, <1>5, <1>7, Asks
  <2>4. Shown(r)' /\ Entitled(r)'
    BY <1>3, <1>7, <2>2 DEF Shown, Entitled
  <2>5. Becomes(h, r)
    BY <1>7, <2>1
  <2> QED
    BY <1>4, <2>3, <2>4, <2>5, StepSound
<1>8. CASE Done(h) /\ UNCHANGED proven
  <2>1. Steady /\ OthersTyped' /\ \A a \in Accounts : RowBacked(a)
    BY <1>2, <1>5, <1>8, Asks
  <2> QED
    BY <1>4, <1>8, <2>1, StepDone
<1> QED
  BY <1>1, <1>6, <1>7, <1>8 DEF CheckCode

LEMMA LookForAdminSound ==
    ASSUME AccountsInv, NEW h \in Handlers, LookForAdmin(h)
    PROVE  AccountsInv'
<1>1. PICK q \in Request : q = handler[h] /\ Shown(q) /\ Entitled(q)
  BY TheRequest
<1>2. q.pc = "coded" /\ OnlyRequest
  BY <1>1 DEF LookForAdmin
<1>3. q.addr \in Addresses /\ q.sub = NoOne /\ (q.coded => q.addr \in proven)
  BY <1>1, <1>2 DEF Shown
<1>4. SetUp
  BY <1>1, <1>2, ServedAfterSetup
<1>5. Steady /\ OthersTyped' /\ \A a \in Accounts : RowBacked(a)
  BY <1>2, OnlyAsks
<1>6. CASE EmailFree(q.addr)
  <2> DEFINE may == shouldBootstrapAdmin(q.addr, NoOne)
  <2>1. Becomes(h, [q EXCEPT !.pc = "looked", !.admin = may])
    BY <1>1, <1>6 DEF LookForAdmin
  <2>2. may \in BOOLEAN
    BY DEF shouldBootstrapAdmin
  <2>3. may => gap \/ q.addr \in BootstrapAdmins
    BY <1>4, AccountsAssumption DEF shouldBootstrapAdmin, SetUp
  <2> HIDE DEF may
  <2>4. PICK r \in Request : r = [q EXCEPT !.pc = "looked", !.admin = may]
    BY <2>2 DEF Request, Steps
  <2>5. /\ r.pc = "looked" /\ r.admin = may /\ r.addr = q.addr
        /\ r.sub = q.sub /\ r.coded = q.coded
    BY <2>4 DEF Request
  <2>6. Shown(r)'
    BY <1>2, <1>3, <2>5 DEF Shown, OnlyRequest
  <2>7. Entitled(r)'
    BY <1>2, <2>3, <2>5 DEF Entitled, OnlyRequest
  <2> QED
    BY <1>4, <1>5, <2>1, <2>4, <2>6, <2>7, StepSound
<1>7. CASE ~EmailFree(q.addr)
  <2>1. Done(h)
    BY <1>1, <1>7 DEF LookForAdmin
  <2> QED
    BY <1>4, <1>5, <2>1, StepDone
<1> QED
  BY <1>6, <1>7

(* A row that has just been made.                                          *)
LEMMA InsertBacks ==
    ASSUME AccountsTypeOK, NEW a \in Accounts, NEW row \in Row,
           users' = [users EXCEPT ![a] = row], Backed(row)'
    PROVE  \A b \in Accounts : RowBacked(b)
<1>1. users'[a] = row /\ \A b \in Accounts \ {a} : users'[b] = users[b]
  BY DEF AccountsTypeOK
<1>2. Backed(users[a])'
  BY <1>1 DEF Backed
<1> QED
  BY <1>1, <1>2 DEF RowBacked

(* A row that has been changed, unless it is gone.                         *)
LEMMA ChangeBacks ==
    ASSUME AccountsTypeOK, NEW a \in Accounts, NEW row,
           users' = (IF Live(a) THEN [users EXCEPT ![a] = row] ELSE users),
           Live(a) => Backed(row)'
    PROVE  \A b \in Accounts : RowBacked(b)
<1>1. \A b \in Accounts \ {a} : users'[b] = users[b]
  BY DEF AccountsTypeOK
<1>2. CASE Live(a)
  <2>1. users'[a] = row
    BY <1>2 DEF AccountsTypeOK
  <2>2. Backed(users[a])'
    BY <1>2, <2>1 DEF Backed
  <2> QED
    BY <1>1, <2>2 DEF RowBacked
<1>3. CASE ~Live(a)
  BY <1>3 DEF RowBacked
<1> QED
  BY <1>2, <1>3

LEMMA RegisterWithPasswordSound ==
    ASSUME AccountsInv, NEW h \in Handlers, NEW a \in Accounts, RegisterWithPassword(h, a)
    PROVE  AccountsInv'
<1>1. PICK q \in Request : q = handler[h] /\ Shown(q) /\ Entitled(q)
  BY TheRequest
<1>2. q.pc = "looked" /\ UNCHANGED <<codes, binds, required, proven, churn>>
  BY <1>1 DEF RegisterWithPassword
<1>3. q.addr \in Addresses /\ q.sub = NoOne /\ (q.coded => q.addr \in proven)
  BY <1>1, <1>2 DEF Shown
<1>4. SetUp
  BY <1>1, <1>2, ServedAfterSetup
<1>5. AccountsTypeOK
  BY DEF AccountsInv
<1>6. OthersTyped'
  BY <1>2, <1>5, OthersStay DEF AccountsTypeOK
<1>7. CASE Insert(a, RegisteredRow(q)) /\ GoTo(h, "mark")
  <2>1. PICK x \in Row : x = RegisteredRow(q)
    BY <1>3, <1>5 DEF RegisteredRow, Row, Request, AccountsTypeOK
  <2>2. x.email = q.addr /\ x.how = IF q.coded THEN "code" ELSE "unchecked"
    BY <2>1 DEF RegisteredRow
  <2>3. Backed(x)'
    BY <1>2, <1>3, <2>2 DEF Backed
  <2>4. users' = [users EXCEPT ![a] = x] /\ TableSteady
    BY <1>5, <1>7, <2>1, Inserted
  <2>5. Steady
    BY <1>2, <2>4 DEF Steady
  <2>6. \A b \in Accounts : RowBacked(b)
    BY <1>5, <2>3, <2>4, InsertBacks
  <2>7. PICK r \in Request : r = [q EXCEPT !.pc = "mark"]
    BY Turned DEF Steps
  <2>8. r.pc = "mark" /\ r.addr = q.addr /\ r.coded = q.coded
    BY <2>7 DEF Request
  <2>9. Shown(r)' /\ Entitled(r)'
    BY <1>2, <1>3, <2>8 DEF Shown, Entitled
  <2>10. Becomes(h, r)
    BY <1>1, <1>7, <2>7 DEF GoTo
  <2> QED
    BY <1>4, <1>6, <2>5, <2>6, <2>9, <2>10, StepSound
<1>8. CASE Done(h) /\ UNCHANGED <<users, gap>>
  <2>1. Steady
    BY <1>2, <1>5, <1>8, TableKept DEF Steady
  <2>2. \A b \in Accounts : RowBacked(b)
    BY <1>8 DEF RowBacked
  <2> QED
    BY <1>4, <1>6, <1>8, <2>1, <2>2, StepDone
<1> QED
  BY <1>1, <1>7, <1>8 DEF RegisterWithPassword

LEMMA MarkSound ==
    ASSUME AccountsInv, NEW h \in Handlers, markEmailCodeUsed(h)
    PROVE  AccountsInv'
<1>1. handler[h].pc = "mark" /\ Done(h) /\ UNCHANGED <<users, binds, required, proven, gap, churn>>
  BY DEF markEmailCodeUsed
<1>2. codes' \subseteq codes
  BY DEF markEmailCodeUsed
<1>3. AccountsTypeOK
  BY DEF AccountsInv
<1>4. OthersTyped'
  BY <1>1, <1>2, <1>3 DEF AccountsTypeOK, OthersTyped
<1>5. Steady
  BY <1>1, <1>3, TableKept DEF Steady
<1>6. \A b \in Accounts : RowBacked(b)
  BY <1>1 DEF RowBacked
<1>7. SetUp
  BY <1>1, ServedAfterSetup
<1> QED
  BY <1>1, <1>4, <1>5, <1>6, <1>7, StepDone

-----------------------------------------------------------------------------
(* Passwords.                                                              *)

LEMMA BeginChangePasswordSound ==
    ASSUME AccountsInv, NEW h \in Handlers, NEW a \in Accounts, BeginChangePassword(h, a)
    PROVE  AccountsInv'
<1> DEFINE e == users[a].email
<1>1. /\ Live(a) /\ e \in Addresses /\ proven' = proven \cup {e}
      /\ Becomes(h, [Idle EXCEPT !.pc = "password", !.who = a, !.addr = e])
      /\ UNCHANGED <<users, codes, binds, required, gap, churn>>
  BY DEF BeginChangePassword
<1>2. proven' \subseteq Addresses
  BY <1>1 DEF AccountsInv, AccountsTypeOK
<1>3. Steady /\ OthersTyped' /\ \A b \in Accounts : RowBacked(b)
  BY <1>1, <1>2, Asks
<1>4. SetUp
  BY <1>1, LiveAfterSetup DEF AccountsInv
<1>5. PICK x : x = e
  OBVIOUS
<1>6. PICK q \in Request : q = [Idle EXCEPT !.pc = "password", !.who = a, !.addr = x]
  BY <1>1, <1>5 DEF Idle, Request, Steps
<1>7. q.pc = "password" /\ q.who = a /\ q.addr = x /\ q.coded = FALSE
  BY <1>6 DEF Idle
<1>8. Entitled(q)'
  BY <1>7 DEF Entitled
<1>9. users'[a].email = x /\ users'[a] # Unused /\ x \in proven'
  BY <1>1, <1>5 DEF Live
<1>10. Shown(q)'
  BY <1>7, <1>9 DEF Shown
<1> QED
  BY <1>1, <1>3, <1>4, <1>5, <1>6, <1>8, <1>10, StepSound

LEMMA ChangePasswordSound ==
    ASSUME AccountsInv, NEW h \in Handlers, ChangePassword(h)
    PROVE  AccountsInv'
<1>1. PICK q \in Request : q = handler[h] /\ Shown(q) /\ Entitled(q)
  BY TheRequest
<1>2. /\ q.pc = "password" /\ GoTo(h, "mark") /\ UNCHANGED <<codes, binds, required, proven, churn>>
      /\ Change(q.who, [users[q.who] EXCEPT !.verified = TRUE])
  BY <1>1 DEF ChangePassword
<1>3. /\ q.who \in Accounts /\ q.addr \in proven /\ (q.coded => q.addr \in proven)
      /\ Live(q.who) => users[q.who].email = q.addr
  BY <1>1, <1>2 DEF Shown
<1>4. SetUp
  BY <1>1, <1>2, ServedAfterSetup
<1>5. AccountsTypeOK
  BY DEF AccountsInv
<1>6. OthersTyped'
  BY <1>2, <1>5, OthersStay DEF AccountsTypeOK
<1>7. PICK a \in Accounts : a = q.who
  BY <1>3
<1>8. PICK x : x = [users[a] EXCEPT !.verified = TRUE]
  OBVIOUS
<1>9. Live(a) => x \in Row /\ x.email = users[a].email
  BY <1>5, <1>8, LiveIsRow DEF Row
<1>10. users' = (IF Live(a) THEN [users EXCEPT ![a] = x] ELSE users) /\ TableSteady
  BY <1>2, <1>5, <1>7, <1>8, <1>9, Changed
<1>11. Live(a) => Backed(x)'
  BY <1>2, <1>3, <1>7, <1>9 DEF Backed
<1>12. \A b \in Accounts : RowBacked(b)
  BY <1>5, <1>10, <1>11, ChangeBacks
<1>13. Steady
  BY <1>2, <1>10 DEF Steady
<1>14. PICK r \in Request : r = [q EXCEPT !.pc = "mark"]
  BY Turned DEF Steps
<1>15. r.pc = "mark" /\ r.addr = q.addr /\ r.coded = q.coded
  BY <1>14 DEF Request
<1>16. Shown(r)' /\ Entitled(r)'
  BY <1>2, <1>3, <1>15 DEF Shown, Entitled
<1>17. Becomes(h, r)
  BY <1>1, <1>2, <1>14 DEF GoTo
<1> QED
  BY <1>4, <1>6, <1>12, <1>13, <1>16, <1>17, StepSound

-----------------------------------------------------------------------------
(* Providers.                                                              *)

LEMMA VouchReports ==
    ASSUME AccountsInv, NEW s \in Subjects, Vouch(s)
    PROVE  proven \subseteq proven' /\ proven' \subseteq Addresses /\ Reported(s)'
<1>1. ClaimedEmail[s] \in Addresses \cup {NoOne}
  BY AccountsAssumption
<1>2. proven \subseteq Addresses
  BY DEF AccountsInv, AccountsTypeOK
<1> QED
  BY <1>1, <1>2 DEF Vouch, Reported

LEMMA AccountEmailIs ==
    ASSUME NEW s \in Subjects
    PROVE  AccountEmail(s) \in Addresses \cup Subjects
BY AccountsAssumption DEF AccountEmail

LEMMA BeginOAuthSound ==
    ASSUME AccountsInv, NEW h \in Handlers, NEW s \in Subjects, BeginOAuth(h, s)
    PROVE  AccountsInv'
<1>1. PICK e \in Addresses \cup Subjects : e = AccountEmail(s)
  BY AccountEmailIs
<1>2. /\ Becomes(h, [Idle EXCEPT !.pc = "claimed", !.sub = s, !.addr = e])
      /\ Vouch(s) /\ SetUp /\ UNCHANGED <<users, codes, binds, required, gap, churn>>
  BY <1>1 DEF BeginOAuth, Admitted, SetUp
<1>3. proven \subseteq proven' /\ proven' \subseteq Addresses /\ Reported(s)'
  BY <1>2, VouchReports
<1>4. Steady /\ OthersTyped' /\ \A b \in Accounts : RowBacked(b)
  BY <1>2, <1>3, Asks
<1>5. PICK q \in Request : q = [Idle EXCEPT !.pc = "claimed", !.sub = s, !.addr = e]
  BY DEF Idle, Request, Steps
<1>6. q.pc = "claimed" /\ q.sub = s /\ q.addr = e /\ q.coded = FALSE
  BY <1>5 DEF Idle
<1>7. Shown(q)' /\ Entitled(q)'
  BY <1>1, <1>3, <1>6 DEF Shown, Entitled
<1> QED
  BY <1>2, <1>4, <1>5, <1>7, StepSound

(* What the claims say of administrators.                                  *)
LEMMA ClaimsWeighed ==
    ASSUME SetUp, NEW s \in Subjects
    PROVE  /\ shouldBootstrapAdmin(ClaimedEmail[s], s) \in BOOLEAN
           /\ shouldBootstrapAdmin(ClaimedEmail[s], s) => gap \/ NamedIdentity(s)
BY DEF shouldBootstrapAdmin, SetUp, NamedIdentity

LEMMA WeighClaimsSound ==
    ASSUME AccountsInv, NEW h \in Handlers, WeighClaims(h)
    PROVE  AccountsInv'
<1>1. PICK q \in Request : q = handler[h] /\ Shown(q) /\ Entitled(q)
  BY TheRequest
<1>2. q.pc = "claimed" /\ OnlyRequest
  BY <1>1 DEF WeighClaims
<1>3. Reported(q.sub) /\ q.addr = AccountEmail(q.sub) /\ (q.coded => q.addr \in proven)
  BY <1>1, <1>2 DEF Shown
<1>4. SetUp
  BY <1>1, <1>2, ServedAfterSetup
<1>5. Steady /\ OthersTyped' /\ \A a \in Accounts : RowBacked(a)
  BY <1>2, OnlyAsks
<1> DEFINE may == shouldBootstrapAdmin(ClaimedEmail[q.sub], q.sub)
<1>6. Becomes(h, [q EXCEPT !.pc = "weighed", !.admin = may])
  BY <1>1 DEF WeighClaims
<1>7. may \in BOOLEAN /\ (may => gap \/ NamedIdentity(q.sub))
  BY <1>3, <1>4, ClaimsWeighed DEF Reported
<1> HIDE DEF may
<1>8. PICK r \in Request : r = [q EXCEPT !.pc = "weighed", !.admin = may]
  BY <1>7 DEF Request, Steps
<1>9. /\ r.pc = "weighed" /\ r.admin = may /\ r.addr = q.addr
      /\ r.sub = q.sub /\ r.coded = q.coded
  BY <1>8 DEF Request
<1>10. Reported(q.sub)' /\ proven' = proven /\ gap' = gap
  BY <1>2, <1>3 DEF OnlyRequest, Reported
<1>11. Shown(r)'
  BY <1>3, <1>9, <1>10 DEF Shown
<1>12. Entitled(r)'
  BY <1>7, <1>9, <1>10 DEF Entitled, NamedIdentity
<1> QED
  BY <1>4, <1>5, <1>6, <1>8, <1>11, <1>12, StepSound

LEMMA FindAccountSound ==
    ASSUME AccountsInv, NEW h \in Handlers, FindAccount(h)
    PROVE  AccountsInv'
<1>1. PICK q \in Request : q = handler[h] /\ Shown(q) /\ Entitled(q)
  BY TheRequest
<1>2. q.pc = "weighed" /\ OnlyRequest
  BY <1>1 DEF FindAccount
<1>3. Reported(q.sub) /\ q.addr = AccountEmail(q.sub) /\ (q.coded => q.addr \in proven)
  BY <1>1, <1>2 DEF Shown
<1>4. SetUp
  BY <1>1, <1>2, ServedAfterSetup
<1>5. Steady /\ OthersTyped' /\ \A a \in Accounts : RowBacked(a)
  BY <1>2, OnlyAsks
<1>6. Reported(q.sub)' /\ proven' = proven /\ gap' = gap
  BY <1>2, <1>3 DEF OnlyRequest, Reported
<1>7. q.admin => gap \/ NamedIdentity(q.sub)
  BY <1>1, <1>2 DEF Entitled
<1>8. ASSUME NEW a \in Accounts,
             Becomes(h, [q EXCEPT !.pc = "link", !.who = a, !.admin = @ /\ ~users[a].admin])
      PROVE  AccountsInv'
  <2> DEFINE may == q.admin /\ ~users[a].admin
  <2>1. [q EXCEPT !.pc = "link", !.who = a, !.admin = @ /\ ~users[a].admin]
          = [q EXCEPT !.pc = "link", !.who = a, !.admin = may]
    BY DEF Request
  <2>2. may \in BOOLEAN /\ (may => q.admin)
    BY DEF Request
  <2> HIDE DEF may
  <2>3. PICK r \in Request : r = [q EXCEPT !.pc = "link", !.who = a, !.admin = may]
    BY <2>2, ZenonT(30) DEF Request, Steps
  <2>4. /\ r.pc = "link" /\ r.admin = may /\ r.addr = q.addr /\ r.who = a
        /\ r.sub = q.sub /\ r.coded = q.coded
    BY <2>3 DEF Request
  <2>5. Shown(r)'
    BY <1>3, <1>6, <2>4 DEF Shown
  <2>6. Entitled(r)'
    BY <1>6, <1>7, <2>2, <2>4 DEF Entitled, NamedIdentity
  <2>7. Becomes(h, r)
    BY <1>8, <2>1, <2>3
  <2> QED
    BY <1>4, <1>5, <2>5, <2>6, <2>7, StepSound
<1>9. CASE GoTo(h, "create")
  <2>1. PICK r \in Request : r = [q EXCEPT !.pc = "create"]
    BY Turned DEF Steps
  <2>2. /\ r.pc = "create" /\ r.admin = q.admin /\ r.addr = q.addr
        /\ r.sub = q.sub /\ r.coded = q.coded
    BY <2>1 DEF Request
  <2>3. Shown(r)'
    BY <1>3, <1>6, <2>2 DEF Shown
  <2>4. Entitled(r)'
    BY <1>6, <1>7, <2>2 DEF Entitled, NamedIdentity
  <2>5. Becomes(h, r)
    BY <1>1, <1>9, <2>1 DEF GoTo
  <2> QED
    BY <1>4, <1>5, <2>3, <2>4, <2>5, StepSound
<1> QED
  BY <1>1, <1>8, <1>9 DEF FindAccount

(* An account keeps its address and what verified it.                      *)
LEMMA OwnRowBacked ==
    ASSUME AccountsInv, proven' = proven, NEW a \in Accounts, NEW row,
           Live(a) => /\ row.email = users[a].email /\ row.how = users[a].how
                      /\ row.verified = users[a].verified
    PROVE  Live(a) => Backed(row)'
<1> SUFFICES ASSUME Live(a) PROVE Backed(row)'
  OBVIOUS
<1>1. AccountsTypeOK /\ VerifiedIsProven
  BY DEF AccountsInv
<1>2. users[a] \in Row
  BY <1>1, LiveIsRow
<1>3. Backed(users[a])
  BY <1>1, <1>2, RowsBacked
<1> QED
  BY <1>3 DEF Backed

LEMMA LinkSubjectSound ==
    ASSUME AccountsInv, NEW h \in Handlers, LinkSubject(h)
    PROVE  AccountsInv'
<1>1. PICK q \in Request : q = handler[h] /\ Shown(q) /\ Entitled(q)
  BY TheRequest
<1>2. q.pc = "link" /\ UNCHANGED <<codes, binds, required, proven, churn>>
  BY <1>1 DEF LinkSubject
<1>3. /\ Reported(q.sub) /\ q.addr = AccountEmail(q.sub) /\ (q.coded => q.addr \in proven)
      /\ q.who \in Accounts
  BY <1>1, <1>2 DEF Shown
<1>4. SetUp
  BY <1>1, <1>2, ServedAfterSetup
<1>5. AccountsTypeOK
  BY DEF AccountsInv
<1>6. OthersTyped'
  BY <1>2, <1>5, OthersStay DEF AccountsTypeOK
<1>7. PICK a \in Accounts : a = q.who
  BY <1>3
<1>8. CASE /\ Change(q.who, [users[q.who] EXCEPT !.sub = q.sub])
           /\ IF q.admin THEN GoTo(h, "promote") ELSE Done(h)
  <2>1. PICK x : x = [users[a] EXCEPT !.sub = q.sub]
    OBVIOUS
  <2>2. Live(a) => /\ x \in Row /\ x.email = users[a].email /\ x.how = users[a].how
                   /\ x.verified = users[a].verified
    BY <1>3, <1>5, <2>1, LiveIsRow DEF Row, Reported
  <2>3. users' = (IF Live(a) THEN [users EXCEPT ![a] = x] ELSE users) /\ TableSteady
    BY <1>5, <1>7, <1>8, <2>1, <2>2, Changed
  <2>4. Live(a) => Backed(x)'
    BY <1>2, <2>2, OwnRowBacked
  <2>5. \A b \in Accounts : RowBacked(b)
    BY <1>5, <2>3, <2>4, ChangeBacks
  <2>6. Steady
    BY <1>2, <2>3 DEF Steady
  <2>7. CASE q.admin
    <3>1. PICK r \in Request : r = [q EXCEPT !.pc = "promote"]
      BY Turned DEF Steps
    <3>2. r.pc = "promote" /\ r.addr = q.addr /\ r.who = a /\ r.sub = q.sub /\ r.coded = q.coded
      BY <1>7, <3>1 DEF Request
    <3>3. Shown(r)'
      BY <1>2, <1>3, <3>2 DEF Shown
    <3>4. gap \/ NamedIdentity(q.sub)
      BY <1>1, <1>2, <2>7 DEF Entitled
    <3>5. gap => gap'
      BY <2>3 DEF TableSteady
    <3>6. Entitled(r)'
      BY <3>2, <3>4, <3>5 DEF Entitled, NamedIdentity
    <3>7. Becomes(h, r)
      BY <1>1, <1>8, <2>7, <3>1 DEF GoTo
    <3> QED
      BY <1>4, <1>6, <2>5, <2>6, <3>3, <3>6, <3>7, StepSound
  <2>8. CASE ~q.admin
    <3>1. Done(h)
      BY <1>8, <2>8
    <3> QED
      BY <1>4, <1>6, <2>5, <2>6, <3>1, StepDone
  <2> QED
    BY <2>7, <2>8
<1>9. CASE Done(h) /\ UNCHANGED <<users, gap>>
  <2>1. Steady
    BY <1>2, <1>5, <1>9, TableKept DEF Steady
  <2>2. \A b \in Accounts : RowBacked(b)
    BY <1>9 DEF RowBacked
  <2> QED
    BY <1>4, <1>6, <1>9, <2>1, <2>2, StepDone
<1> QED
  BY <1>1, <1>8, <1>9 DEF LinkSubject

LEMMA CreateFromClaimsSound ==
    ASSUME AccountsInv, NEW h \in Handlers, NEW a \in Accounts, CreateFromClaims(h, a)
    PROVE  AccountsInv'
<1>1. PICK q \in Request : q = handler[h] /\ Shown(q) /\ Entitled(q)
  BY TheRequest
<1>2. q.pc = "create" /\ Done(h) /\ UNCHANGED <<codes, binds, required, proven, churn>>
  BY <1>1 DEF CreateFromClaims
<1>3. Reported(q.sub) /\ q.addr = AccountEmail(q.sub)
  BY <1>1, <1>2 DEF Shown
<1>4. SetUp
  BY <1>1, <1>2, ServedAfterSetup
<1>5. AccountsTypeOK
  BY DEF AccountsInv
<1>6. OthersTyped'
  BY <1>2, <1>5, OthersStay DEF AccountsTypeOK
<1> DEFINE made == [email |-> q.addr, sub |-> q.sub, admin |-> q.admin,
                    verified |-> ClaimedEmail[q.sub] # NoOne, how |-> "provider"]
<1>7. CASE Insert(a, made)
  <2> DEFINE vouched == ClaimedEmail[q.sub] # NoOne
  <2>1. q.addr \in Addresses \cup Subjects /\ q.sub \in Subjects /\ vouched \in BOOLEAN
    BY <1>3, AccountEmailIs DEF Reported
  <2>2. made = [email |-> q.addr, sub |-> q.sub, admin |-> q.admin,
                verified |-> vouched, how |-> "provider"]
    OBVIOUS
  <2> HIDE DEF made, vouched
  <2>3. PICK x \in Row : x = made
    BY <2>1, <2>2 DEF Row, Request
  <2> USE DEF made
  <2>4. x.email = q.addr /\ x.verified = (ClaimedEmail[q.sub] # NoOne)
    BY <2>3
  <2>5. ClaimedEmail[q.sub] # NoOne => q.addr \in proven
    BY <1>3 DEF AccountEmail, Reported
  <2>6. Backed(x)'
    BY <1>2, <2>4, <2>5 DEF Backed
  <2>7. users' = [users EXCEPT ![a] = x] /\ TableSteady
    BY <1>5, <1>7, <2>3, Inserted
  <2>8. Steady
    BY <1>2, <2>7 DEF Steady
  <2>9. \A b \in Accounts : RowBacked(b)
    BY <1>5, <2>6, <2>7, InsertBacks
  <2> QED
    BY <1>2, <1>4, <1>6, <2>8, <2>9, StepDone
<1>8. CASE UNCHANGED <<users, gap>>
  <2>1. Steady
    BY <1>2, <1>5, <1>8, TableKept DEF Steady
  <2>2. \A b \in Accounts : RowBacked(b)
    BY <1>8 DEF RowBacked
  <2> QED
    BY <1>2, <1>4, <1>6, <2>1, <2>2, StepDone
<1> QED
  BY <1>1, <1>7, <1>8 DEF CreateFromClaims

LEMMA EnsureFirstAdminSound ==
    ASSUME AccountsInv, NEW h \in Handlers, NEW a \in Accounts, EnsureFirstAdmin(h, a)
    PROVE  AccountsInv'
<1>1. /\ Live(a) /\ ~hasAdminUser /\ OnlyRequest
      /\ Becomes(h, [Idle EXCEPT !.pc = "promote", !.who = a, !.admin = TRUE])
  BY DEF EnsureFirstAdmin
<1>2. SetUp
  BY <1>1, LiveAfterSetup DEF AccountsInv
<1>3. Steady /\ OthersTyped' /\ \A b \in Accounts : RowBacked(b)
  BY <1>1, OnlyAsks
<1>4. PICK q \in Request : q = [Idle EXCEPT !.pc = "promote", !.who = a, !.admin = TRUE]
  BY DEF Idle, Request, Steps
<1>5. q.pc = "promote" /\ q.who = a /\ q.coded = FALSE
  BY <1>4 DEF Idle
<1>6. gap'
  BY <1>1, <1>2 DEF SetUp, OnlyRequest
<1>7. Shown(q)' /\ Entitled(q)'
  BY <1>5, <1>6 DEF Shown, Entitled
<1> QED
  BY <1>1, <1>2, <1>3, <1>4, <1>7, StepSound

LEMMA PromoteSound ==
    ASSUME AccountsInv, NEW h \in Handlers, Promote(h)
    PROVE  AccountsInv'
<1>1. PICK q \in Request : q = handler[h] /\ Shown(q) /\ Entitled(q)
  BY TheRequest
<1>2. /\ q.pc = "promote" /\ Done(h) /\ UNCHANGED <<codes, binds, required, proven, churn>>
      /\ Change(q.who, [users[q.who] EXCEPT !.admin = TRUE])
  BY <1>1 DEF Promote
<1>3. PICK a \in Accounts : a = q.who
  BY <1>1, <1>2 DEF Shown
<1>4. SetUp
  BY <1>1, <1>2, ServedAfterSetup
<1>5. AccountsTypeOK
  BY DEF AccountsInv
<1>6. OthersTyped'
  BY <1>2, <1>5, OthersStay DEF AccountsTypeOK
<1>7. PICK x : x = [users[a] EXCEPT !.admin = TRUE]
  OBVIOUS
<1>8. Live(a) => /\ x \in Row /\ x.email = users[a].email /\ x.how = users[a].how
                 /\ x.verified = users[a].verified
  BY <1>5, <1>7, LiveIsRow DEF Row
<1>9. users' = (IF Live(a) THEN [users EXCEPT ![a] = x] ELSE users) /\ TableSteady
  BY <1>2, <1>3, <1>5, <1>7, <1>8, Changed
<1>10. Live(a) => Backed(x)'
  BY <1>2, <1>8, OwnRowBacked
<1>11. \A b \in Accounts : RowBacked(b)
  BY <1>5, <1>9, <1>10, ChangeBacks
<1>12. Steady
  BY <1>2, <1>9 DEF Steady
<1> QED
  BY <1>2, <1>4, <1>6, <1>11, <1>12, StepDone

-----------------------------------------------------------------------------
(* Binding a provider.                                                     *)

LEMMA BeginBindSound ==
    ASSUME AccountsInv, NEW h \in Handlers, NEW a \in Accounts, NEW s \in Subjects,
           BeginBind(h, a, s)
    PROVE  AccountsInv'
<1>1. /\ a \in binds /\ Becomes(h, [Idle EXCEPT !.pc = "bind", !.who = a, !.sub = s])
      /\ Vouch(s) /\ UNCHANGED <<users, codes, binds, required, gap, churn>>
  BY DEF BeginBind
<1>2. SetUp
  BY <1>1, BoundAfterSetup DEF AccountsInv
<1>3. proven \subseteq proven' /\ proven' \subseteq Addresses /\ Reported(s)'
  BY <1>1, VouchReports
<1>4. Steady /\ OthersTyped' /\ \A b \in Accounts : RowBacked(b)
  BY <1>1, <1>3, Asks
<1>5. PICK q \in Request : q = [Idle EXCEPT !.pc = "bind", !.who = a, !.sub = s]
  BY DEF Idle, Request, Steps
<1>6. q.pc = "bind" /\ q.sub = s /\ q.who = a /\ q.coded = FALSE
  BY <1>5 DEF Idle
<1>7. Shown(q)' /\ Entitled(q)'
  BY <1>3, <1>6 DEF Shown, Entitled
<1> QED
  BY <1>1, <1>2, <1>4, <1>5, <1>7, StepSound

LEMMA CheckBindSound ==
    ASSUME AccountsInv, NEW h \in Handlers, CheckBind(h)
    PROVE  AccountsInv'
<1>1. PICK q \in Request : q = handler[h] /\ Shown(q) /\ Entitled(q)
  BY TheRequest
<1>2. q.pc = "bind" /\ OnlyRequest /\ (GoTo(h, "bindable") \/ Done(h))
  BY <1>1 DEF CheckBind
<1>3. Reported(q.sub) /\ q.who \in Accounts /\ (q.coded => q.addr \in proven)
  BY <1>1, <1>2 DEF Shown
<1>4. SetUp
  BY <1>1, <1>2, ServedAfterSetup
<1>5. Steady /\ OthersTyped' /\ \A a \in Accounts : RowBacked(a)
  BY <1>2, OnlyAsks
<1>6. CASE GoTo(h, "bindable")
  <2>1. PICK r \in Request : r = [q EXCEPT !.pc = "bindable"]
    BY Turned DEF Steps
  <2>2. r.pc = "bindable" /\ r.who = q.who /\ r.addr = q.addr /\ r.sub = q.sub /\ r.coded = q.coded
    BY <2>1 DEF Request
  <2>3. Shown(r)' /\ Entitled(r)'
    BY <1>2, <1>3, <2>2 DEF Shown, Entitled, OnlyRequest, Reported
  <2>4. Becomes(h, r)
    BY <1>1, <1>6, <2>1 DEF GoTo
  <2> QED
    BY <1>4, <1>5, <2>3, <2>4, StepSound
<1>7. CASE Done(h)
  BY <1>4, <1>5, <1>7, StepDone
<1> QED
  BY <1>2, <1>6, <1>7

LEMMA HandleOIDCBindCallbackSound ==
    ASSUME AccountsInv, NEW h \in Handlers, HandleOIDCBindCallback(h)
    PROVE  AccountsInv'
<1>1. PICK q \in Request : q = handler[h] /\ Shown(q) /\ Entitled(q)
  BY TheRequest
<1>2. q.pc = "bindable" /\ Done(h) /\ UNCHANGED <<codes, required, proven, churn>>
  BY <1>1 DEF HandleOIDCBindCallback
<1>3. Reported(q.sub) /\ q.who \in Accounts
  BY <1>1, <1>2 DEF Shown
<1>4. SetUp
  BY <1>1, <1>2, ServedAfterSetup
<1>5. AccountsTypeOK /\ VerifiedIsProven
  BY DEF AccountsInv
<1>6. PICK a \in Accounts : a = q.who
  BY <1>3
<1> DEFINE verified == VerifiedByClaim(users[a], q.sub)
           changed == [users[a] EXCEPT !.sub = q.sub, !.verified = verified]
<1>7. CASE Change(q.who, changed) /\ binds' = binds \ {q.who}
  <2>1. OthersTyped'
    BY <1>2, <1>5, <1>7 DEF AccountsTypeOK, OthersTyped
  <2>2. Live(a) => users[a] \in Row
    BY <1>5, LiveIsRow
  <2>3. users[a] \in Row => verified \in BOOLEAN
    BY DEF VerifiedByClaim, Row
  <2>4. verified => users[a].verified \/ users[a].email = ClaimedEmail[q.sub]
    BY DEF VerifiedByClaim
  <2> HIDE DEF verified
  <2>5. PICK x : x = changed
    OBVIOUS
  <2>6. users[a] \in Row => /\ x \in Row /\ x.email = users[a].email /\ x.how = users[a].how
                            /\ x.verified = verified
    BY <1>3, <2>3, <2>5 DEF Row, Reported
  <2> HIDE DEF changed
  <2>7. users' = (IF Live(a) THEN [users EXCEPT ![a] = x] ELSE users) /\ TableSteady
    BY <1>5, <1>6, <1>7, <2>2, <2>5, <2>6, Changed
  <2>8. ASSUME Live(a) PROVE Backed(x)'
    <3>1. Backed(users[a])
      BY <1>5, <2>2, <2>8, RowsBacked
    <3>2. users[a].email \in Addresses \cup Subjects
      BY <2>2, <2>8 DEF Row
    <3>3. users[a].email = ClaimedEmail[q.sub] => users[a].email \in proven
      BY <1>3, <3>2, AccountsAssumption DEF Reported
    <3> QED
      BY <1>2, <2>2, <2>4, <2>6, <2>8, <3>1, <3>3 DEF Backed
  <2>9. \A b \in Accounts : RowBacked(b)
    BY <1>5, <2>7, <2>8, ChangeBacks
  <2>10. Steady
    BY <1>2, <2>7 DEF Steady
  <2> QED
    BY <1>2, <1>4, <2>1, <2>9, <2>10, StepDone
<1>8. CASE UNCHANGED <<users, gap, binds>>
  <2>1. OthersTyped'
    BY <1>2, <1>5, <1>8, OthersStay DEF AccountsTypeOK
  <2>2. Steady
    BY <1>2, <1>5, <1>8, TableKept DEF Steady
  <2>3. \A b \in Accounts : RowBacked(b)
    BY <1>8 DEF RowBacked
  <2> QED
    BY <1>2, <1>4, <2>1, <2>2, <2>3, StepDone
<1> QED
  BY <1>1, <1>6, <1>7, <1>8 DEF HandleOIDCBindCallback

-----------------------------------------------------------------------------
(* Administrators.                                                         *)

LEMMA BeginAdminSound ==
    ASSUME AccountsInv, NEW h \in Handlers, NEW a \in Accounts, BeginAdmin(h, a)
    PROVE  AccountsInv'
<1>1. /\ users[a].admin /\ Becomes(h, [Idle EXCEPT !.pc = "admin", !.who = a])
      /\ Intervene /\ UNCHANGED <<users, codes, binds, required, proven, gap>>
  BY DEF BeginAdmin
<1>2. SetUp
  BY <1>1 DEF SetUp, hasAdminUser, Admins
<1>3. AccountsTypeOK
  BY DEF AccountsInv
<1>4. OthersTyped'
  BY <1>1, <1>3, AccountsAssumption DEF AccountsTypeOK, OthersTyped, Intervene
<1>5. Steady
  BY <1>1, <1>3, TableKept DEF Steady
<1>6. \A b \in Accounts : RowBacked(b)
  BY <1>1 DEF RowBacked
<1>7. PICK q \in Request : q = [Idle EXCEPT !.pc = "admin", !.who = a]
  BY DEF Idle, Request, Steps
<1>8. q.pc = "admin" /\ q.coded = FALSE
  BY <1>7 DEF Idle
<1>9. Shown(q)' /\ Entitled(q)'
  BY <1>8 DEF Shown, Entitled
<1> QED
  BY <1>1, <1>2, <1>4, <1>5, <1>6, <1>7, <1>9, StepSound

LEMMA UpdateUserSound ==
    ASSUME AccountsInv, NEW h \in Handlers, NEW a \in Accounts, NEW admin \in BOOLEAN,
           UpdateUser(h, a, admin)
    PROVE  AccountsInv'
<1>1. /\ handler[h].pc = "admin" /\ Done(h)
      /\ UNCHANGED <<codes, binds, required, proven, churn>>
      /\ Change(a, [users[a] EXCEPT !.admin = admin])
  BY DEF UpdateUser, Administer
<1>2. SetUp
  BY <1>1, ServedAfterSetup
<1>3. AccountsTypeOK
  BY DEF AccountsInv
<1>4. OthersTyped'
  BY <1>1, <1>3, OthersStay DEF AccountsTypeOK
<1>5. PICK x : x = [users[a] EXCEPT !.admin = admin]
  OBVIOUS
<1>6. Live(a) => /\ x \in Row /\ x.email = users[a].email /\ x.how = users[a].how
                 /\ x.verified = users[a].verified
  BY <1>3, <1>5, LiveIsRow DEF Row
<1>7. users' = (IF Live(a) THEN [users EXCEPT ![a] = x] ELSE users) /\ TableSteady
  BY <1>1, <1>3, <1>5, <1>6, Changed
<1>8. Live(a) => Backed(x)'
  BY <1>1, <1>6, OwnRowBacked
<1>9. \A b \in Accounts : RowBacked(b)
  BY <1>3, <1>7, <1>8, ChangeBacks
<1>10. Steady
  BY <1>1, <1>7 DEF Steady
<1> QED
  BY <1>1, <1>2, <1>4, <1>9, <1>10, StepDone

LEMMA DeleteUserSound ==
    ASSUME AccountsInv, NEW h \in Handlers, NEW a \in Accounts, DeleteUser(h, a)
    PROVE  AccountsInv'
<1>1. /\ handler[h].pc = "admin" /\ Done(h) /\ Live(a)
      /\ UNCHANGED <<codes, binds, required, proven, churn>>
      /\ Store([users EXCEPT ![a] = Gone])
  BY DEF DeleteUser, Administer
<1>2. SetUp
  BY <1>1, ServedAfterSetup
<1>3. AccountsTypeOK
  BY DEF AccountsInv
<1>4. OthersTyped'
  BY <1>1, <1>3, OthersStay DEF AccountsTypeOK
<1>5. users' = [users EXCEPT ![a] = Gone] /\ TableSteady
  BY <1>1, <1>3, Deleted
<1>6. \A b \in Accounts : RowBacked(b)
  BY <1>3, <1>5 DEF RowBacked, AccountsTypeOK
<1>7. Steady
  BY <1>1, <1>5 DEF Steady
<1> QED
  BY <1>1, <1>2, <1>4, <1>6, <1>7, StepDone

LEMMA UpdateSettingsSound ==
    ASSUME AccountsInv, NEW h \in Handlers, UpdateSettings(h)
    PROVE  AccountsInv'
<1>1. /\ handler[h].pc = "admin" /\ Done(h) /\ required' = ~required
      /\ UNCHANGED <<codes, binds, users, gap, proven, churn>>
  BY DEF UpdateSettings, Administer
<1>2. SetUp
  BY <1>1, ServedAfterSetup
<1>3. AccountsTypeOK
  BY DEF AccountsInv
<1>4. OthersTyped'
  BY <1>1, <1>3 DEF AccountsTypeOK, OthersTyped
<1>5. Steady
  BY <1>1, <1>3, TableKept DEF Steady
<1>6. \A b \in Accounts : RowBacked(b)
  BY <1>1 DEF RowBacked
<1> QED
  BY <1>1, <1>2, <1>4, <1>5, <1>6, StepDone

LEMMA FailSound ==
    ASSUME AccountsInv, NEW h \in Handlers, Fail(h)
    PROVE  AccountsInv'
<1>1. handler[h] # Idle /\ Done(h) /\ OnlyRequest
  BY DEF Fail
<1>2. SetUp
  BY <1>1, AfterSetup DEF AccountsInv
<1>3. Steady /\ OthersTyped' /\ \A a \in Accounts : RowBacked(a)
  BY <1>1, OnlyAsks
<1> QED
  BY <1>1, <1>2, <1>3, StepDone

-----------------------------------------------------------------------------
(* What happens beside the requests.                                       *)

LEMMA SetupInitialAdminSound ==
    ASSUME AccountsInv, NEW e \in Addresses, NEW a \in Accounts, SetupInitialAdmin(e, a)
    PROVE  AccountsInv'
<1>1. PICK x \in Row : x = [email |-> e, sub |-> NoOne, admin |-> TRUE,
                            verified |-> TRUE, how |-> "setup"]
  BY DEF Row
<1>2. Insert(a, x) /\ UNCHANGED <<codes, binds, required, handler, proven, churn>>
  BY <1>1 DEF SetupInitialAdmin
<1>3. AccountsTypeOK
  BY DEF AccountsInv
<1>4. users' = [users EXCEPT ![a] = x] /\ TableSteady
  BY <1>2, <1>3, Inserted
<1>5. users'[a] = x
  BY <1>3, <1>4 DEF AccountsTypeOK
<1>6. x.admin /\ x.how = "setup"
  BY <1>1
<1>7. hasAdminUser'
  BY <1>5, <1>6 DEF hasAdminUser, Admins
<1>8. QuietBeforeSetup'
  BY <1>7 DEF QuietBeforeSetup, SetUp
<1>9. Backed(x)'
  BY <1>6 DEF Backed
<1>10. \A b \in Accounts : RowBacked(b)
  BY <1>3, <1>4, <1>9, InsertBacks
<1>11. Steady /\ OthersTyped'
  BY <1>2, <1>3, <1>4, OthersStay DEF Steady, AccountsTypeOK
<1> QED
  BY <1>2, <1>8, <1>10, <1>11, StepAside

(* A step that leaves the table and the requests alone.                    *)
LEMMA Aside ==
    ASSUME AccountsInv, UNCHANGED <<users, handler, gap, proven>>, OthersTyped',
           SetUp \/ binds' = {}
    PROVE  AccountsInv'
<1>1. AccountsTypeOK /\ QuietBeforeSetup
  BY DEF AccountsInv
<1>2. TableSteady
  BY <1>1, TableKept
<1>3. Steady
  BY <1>2 DEF Steady
<1>4. QuietBeforeSetup'
  BY <1>1, <1>3, StaysSetUp DEF QuietBeforeSetup
<1>5. \A b \in Accounts : RowBacked(b)
  BY DEF RowBacked
<1> QED
  BY <1>3, <1>4, <1>5, StepAside

LEMMA SendRegistrationEmailCodeSound ==
    ASSUME AccountsInv, NEW e \in Addresses, SendRegistrationEmailCode(e)
    PROVE  AccountsInv'
<1>1. SetUp /\ UNCHANGED <<users, handler, gap, proven>>
  BY DEF SendRegistrationEmailCode, Admitted, SetUp
<1>2. OthersTyped'
  BY AccountsAssumption
     DEF SendRegistrationEmailCode, AccountsInv, AccountsTypeOK, OthersTyped, Intervene, Purposes
<1> QED
  BY <1>1, <1>2, Aside

LEMMA SendPasswordChangeEmailCodeSound ==
    ASSUME AccountsInv, NEW a \in Accounts, SendPasswordChangeEmailCode(a)
    PROVE  AccountsInv'
<1>1. Live(a) /\ UNCHANGED <<users, handler, gap, proven>>
  BY DEF SendPasswordChangeEmailCode
<1>2. SetUp
  BY <1>1, LiveAfterSetup DEF AccountsInv
<1>3. OthersTyped'
  BY AccountsAssumption
     DEF SendPasswordChangeEmailCode, AccountsInv, AccountsTypeOK, OthersTyped, Intervene, Purposes
<1> QED
  BY <1>1, <1>2, <1>3, Aside

LEMMA CreateOIDCBindRequestSound ==
    ASSUME AccountsInv, NEW a \in Accounts, CreateOIDCBindRequest(a)
    PROVE  AccountsInv'
<1>1. Live(a) /\ UNCHANGED <<users, handler, gap, proven>>
  BY DEF CreateOIDCBindRequest
<1>2. SetUp
  BY <1>1, LiveAfterSetup DEF AccountsInv
<1>3. OthersTyped'
  BY AccountsAssumption
     DEF CreateOIDCBindRequest, AccountsInv, AccountsTypeOK, OthersTyped, Intervene
<1> QED
  BY <1>1, <1>2, <1>3, Aside

LEMMA ExpireSound ==
    ASSUME AccountsInv, Expire
    PROVE  AccountsInv'
<1>1. /\ codes' \subseteq codes /\ binds' \subseteq binds /\ Intervene
      /\ UNCHANGED <<users, required, handler, proven, gap>>
  BY DEF Expire
<1>2. OthersTyped'
  BY <1>1, AccountsAssumption DEF AccountsInv, AccountsTypeOK, OthersTyped, Intervene
<1>3. SetUp \/ binds' = {}
  BY <1>1 DEF AccountsInv, QuietBeforeSetup
<1> QED
  BY <1>1, <1>2, <1>3, Aside

LEMMA StutterSound ==
    ASSUME AccountsInv, UNCHANGED accountVars
    PROVE  AccountsInv'
<1>1. UNCHANGED <<users, codes, binds, required, handler, proven, gap, churn>>
  BY DEF accountVars
<1>2. OthersTyped'
  BY <1>1 DEF AccountsInv, AccountsTypeOK, OthersTyped
<1>3. SetUp \/ binds' = {}
  BY <1>1 DEF AccountsInv, QuietBeforeSetup
<1> QED
  BY <1>1, <1>2, <1>3, Aside

-----------------------------------------------------------------------------
(* The invariant.                                                          *)

LEMMA AccountsInitSound == AccountsInit => AccountsInv
<1> SUFFICES ASSUME AccountsInit PROVE AccountsInv
  OBVIOUS
<1>1. /\ users = [a \in Accounts |-> Unused] /\ codes = {} /\ binds = {} /\ required \in BOOLEAN
      /\ handler = [h \in Handlers |-> Idle] /\ proven = {} /\ gap = FALSE /\ churn = 0
  BY DEF AccountsInit
<1>2. AccountsTypeOK
  <2>1. users \in [Accounts -> Row \cup {Unused, Gone}]
    BY <1>1
  <2>2. handler \in [Handlers -> Request]
    BY <1>1, IdleSound
  <2>3. churn = 0 /\ MaxChurn \in Nat
    BY <1>1, AccountsAssumption
  <2>4. churn \in 0 .. MaxChurn
    BY <2>3
  <2>5. gap \in BOOLEAN /\ required \in BOOLEAN
    BY <1>1
  <2>6. codes = {} /\ binds = {} /\ proven = {}
    BY <1>1
  <2> QED
    BY <2>1, <2>2, <2>4, <2>5, <2>6 DEF AccountsTypeOK
<1>3. QuietBeforeSetup
  BY <1>1 DEF QuietBeforeSetup
<1>4. RequestsSound
  <2>1. PICK q : q = Idle
    OBVIOUS
  <2>2. Shown(q) /\ Entitled(q)
    BY <2>1, IdleSound DEF Shown, Entitled
  <2> QED
    BY <1>1, <2>1, <2>2 DEF RequestsSound
<1>5. VerifiedIsProven
  BY <1>1 DEF VerifiedIsProven, Live
<1> QED
  BY <1>2, <1>3, <1>4, <1>5 DEF AccountsInv

LEMMA ServeSound ==
    ASSUME AccountsInv, NEW h \in Handlers, Serve(h)
    PROVE  AccountsInv'
<1>1. CASE CheckCode(h) \/ LookForAdmin(h) \/ markEmailCodeUsed(h)
  BY <1>1, CheckCodeSound, LookForAdminSound, MarkSound
<1>2. CASE \E a \in Accounts : RegisterWithPassword(h, a) \/ CreateFromClaims(h, a)
  BY <1>2, RegisterWithPasswordSound, CreateFromClaimsSound
<1>3. CASE WeighClaims(h) \/ FindAccount(h) \/ LinkSubject(h) \/ Promote(h)
  BY <1>3, WeighClaimsSound, FindAccountSound, LinkSubjectSound, PromoteSound
<1>4. CASE CheckBind(h) \/ HandleOIDCBindCallback(h) \/ ChangePassword(h)
  BY <1>4, CheckBindSound, HandleOIDCBindCallbackSound, ChangePasswordSound
<1>5. CASE \E a \in Accounts :
             \/ \E admin \in BOOLEAN : UpdateUser(h, a, admin)
             \/ DeleteUser(h, a)
  BY <1>5, UpdateUserSound, DeleteUserSound
<1>6. CASE UpdateSettings(h) \/ Fail(h)
  BY <1>6, UpdateSettingsSound, FailSound
<1> QED
  BY <1>1, <1>2, <1>3, <1>4, <1>5, <1>6 DEF Serve

LEMMA ArriveSound ==
    ASSUME AccountsInv, NEW h \in Handlers, Arrive(h)
    PROVE  AccountsInv'
<1>1. CASE \E e \in Addresses : BeginRegister(h, e)
  BY <1>1, BeginRegisterSound
<1>2. CASE \E s \in Subjects : BeginOAuth(h, s)
  BY <1>2, BeginOAuthSound
<1>3. CASE \E a \in Accounts :
             \/ BeginChangePassword(h, a) \/ EnsureFirstAdmin(h, a) \/ BeginAdmin(h, a)
             \/ \E s \in Subjects : BeginBind(h, a, s)
  BY <1>3, BeginChangePasswordSound, EnsureFirstAdminSound, BeginAdminSound, BeginBindSound
<1> QED
  BY <1>1, <1>2, <1>3 DEF Arrive

LEMMA AccountsStep == AccountsInv /\ [AccountsNext]_accountVars => AccountsInv'
<1> SUFFICES ASSUME AccountsInv, [AccountsNext]_accountVars PROVE AccountsInv'
  OBVIOUS
<1>1. CASE \E e \in Addresses, a \in Accounts : SetupInitialAdmin(e, a)
  BY <1>1, SetupInitialAdminSound
<1>2. CASE \E e \in Addresses : SendRegistrationEmailCode(e)
  BY <1>2, SendRegistrationEmailCodeSound
<1>3. CASE \E a \in Accounts : SendPasswordChangeEmailCode(a) \/ CreateOIDCBindRequest(a)
  BY <1>3, SendPasswordChangeEmailCodeSound, CreateOIDCBindRequestSound
<1>4. CASE \E h \in Handlers : Arrive(h) \/ Serve(h)
  BY <1>4, ArriveSound, ServeSound
<1>5. CASE Expire
  BY <1>5, ExpireSound
<1>6. CASE UNCHANGED accountVars
  BY <1>6, StutterSound
<1> QED
  BY <1>1, <1>2, <1>3, <1>4, <1>5, <1>6 DEF AccountsNext

LEMMA AccountsInvariance == AccountsSpec => []AccountsInv
BY AccountsInitSound, AccountsStep, PTL DEF AccountsSpec

(* Every row, code, bind link and request has the form the handlers give   *)
(* it (AccountsTypeOK of Accounts.tla).                                    *)
THEOREM AccountsTyped == AccountsSpec => []AccountsTypeOK
<1>1. AccountsInv => AccountsTypeOK
  BY DEF AccountsInv
<1> QED
  BY <1>1, AccountsInvariance, PTL

(* An account's address is marked verified only if a mailed code or a      *)
(* provider vouched for it, the two named exceptions apart, however        *)
(* registrations, sign-ins, binds, password changes and administrators     *)
(* interleave (oidc.go, auth.go).                                          *)
THEOREM VerifiedMeansProven == AccountsSpec => []VerifiedIsProven
<1>1. AccountsInv => VerifiedIsProven
  BY DEF AccountsInv
<1> QED
  BY <1>1, AccountsInvariance, PTL

-----------------------------------------------------------------------------
(* Who may make an administrator.                                          *)

(* AdminsAppointed asks this of every account that becomes one.            *)
Appointed(a) ==
    \/ gap
    \/ users'[a].how = "setup" /\ Admins = {}
    \/ \E h \in Handlers : UpdateUser(h, a, TRUE)
    \/ {users'[a].email, users'[a].sub} \cap BootstrapAdmins # {}
    \/ \E h \in Handlers :
         /\ Promote(h) /\ handler[h].who = a
         /\ {handler[h].sub, ClaimedEmail[handler[h].sub]} \cap BootstrapAdmins # {}

Appointments == \A a \in Accounts : users'[a].admin /\ ~users[a].admin => Appointed(a)

LEMMA SameRows == UNCHANGED users => Appointments
BY DEF Appointments

LEMMA NewRow ==
    ASSUME AccountsTypeOK, NEW a \in Accounts, NEW row, Insert(a, row), row.admin => Appointed(a)
    PROVE  Appointments
<1>1. users' = [users EXCEPT ![a] = row]
  BY DEF Insert, Store
<1>2. users'[a] = row /\ \A b \in Accounts \ {a} : users'[b] = users[b]
  BY <1>1 DEF AccountsTypeOK
<1> QED
  BY <1>2 DEF Appointments

LEMMA SameRight ==
    ASSUME AccountsTypeOK, NEW a \in Accounts, NEW row,
           Live(a) => row.admin = users[a].admin,
           Change(a, row)
    PROVE  Appointments
<1>1. users' = IF Live(a) THEN [users EXCEPT ![a] = row] ELSE users
  BY DEF Change, Store
<1>2. \A b \in Accounts : users'[b] = users[b] \/ (b = a /\ Live(a) /\ users'[b] = row)
  BY <1>1 DEF AccountsTypeOK
<1> QED
  BY <1>2 DEF Appointments

LEMMA NewRight ==
    ASSUME AccountsTypeOK, NEW a \in Accounts, NEW row, Change(a, row), row.admin => Appointed(a)
    PROVE  Appointments
<1>1. users' = IF Live(a) THEN [users EXCEPT ![a] = row] ELSE users
  BY DEF Change, Store
<1>2. \A b \in Accounts : users'[b] = users[b] \/ (b = a /\ Live(a) /\ users'[b] = row)
  BY <1>1 DEF AccountsTypeOK
<1> QED
  BY <1>2 DEF Appointments

LEMMA RegisterAppoints ==
    ASSUME AccountsInv, NEW h \in Handlers, NEW a \in Accounts, RegisterWithPassword(h, a)
    PROVE  Appointments
<1>1. PICK q \in Request : q = handler[h] /\ Shown(q) /\ Entitled(q)
  BY TheRequest
<1>2. q.pc = "looked" /\ (Insert(a, RegisteredRow(q)) \/ UNCHANGED users)
  BY <1>1 DEF RegisterWithPassword
<1>3. CASE Insert(a, RegisteredRow(q))
  <2>1. PICK x : x = RegisteredRow(q)
    OBVIOUS
  <2>2. x.admin = q.admin /\ x.email = q.addr
    BY <2>1 DEF RegisteredRow
  <2>3. AccountsTypeOK
    BY DEF AccountsInv
  <2>4. users'[a] = x
    BY <1>3, <2>1, <2>3 DEF Insert, Store, AccountsTypeOK
  <2>5. q.admin => gap \/ q.addr \in BootstrapAdmins
    BY <1>1, <1>2 DEF Entitled
  <2>6. x.admin => Appointed(a)
    BY <2>2, <2>4, <2>5 DEF Appointed
  <2> QED
    BY <1>3, <2>1, <2>3, <2>6, NewRow
<1> QED
  BY <1>2, <1>3, SameRows

LEMMA CreateAppoints ==
    ASSUME AccountsInv, NEW h \in Handlers, NEW a \in Accounts, CreateFromClaims(h, a)
    PROVE  Appointments
<1>1. PICK q \in Request : q = handler[h] /\ Shown(q) /\ Entitled(q)
  BY TheRequest
<1> DEFINE made == [email |-> q.addr, sub |-> q.sub, admin |-> q.admin,
                    verified |-> ClaimedEmail[q.sub] # NoOne, how |-> "provider"]
<1>2. q.pc = "create" /\ (Insert(a, made) \/ UNCHANGED users)
  BY <1>1 DEF CreateFromClaims
<1>3. CASE Insert(a, made)
  <2>1. PICK x : x = made
    OBVIOUS
  <2>2. x.admin = q.admin /\ x.email = q.addr /\ x.sub = q.sub
    BY <2>1
  <2>3. AccountsTypeOK
    BY DEF AccountsInv
  <2>4. users'[a] = x
    BY <1>3, <2>1, <2>3 DEF Insert, Store, AccountsTypeOK
  <2>5. q.admin => gap \/ NamedIdentity(q.sub)
    BY <1>1, <1>2 DEF Entitled
  <2>6. q.addr = AccountEmail(q.sub)
    BY <1>1, <1>2 DEF Shown
  <2>7. NamedIdentity(q.sub) => {q.addr, q.sub} \cap BootstrapAdmins # {}
    BY <2>6, AccountsAssumption DEF NamedIdentity, AccountEmail
  <2>8. x.admin => Appointed(a)
    BY <2>2, <2>4, <2>5, <2>7 DEF Appointed
  <2> QED
    BY <1>3, <2>1, <2>3, <2>8, NewRow
<1> QED
  BY <1>2, <1>3, SameRows

LEMMA PromoteAppoints ==
    ASSUME AccountsInv, NEW h \in Handlers, Promote(h)
    PROVE  Appointments
<1>1. PICK q \in Request : q = handler[h] /\ Shown(q) /\ Entitled(q)
  BY TheRequest
<1>2. q.pc = "promote" /\ Change(q.who, [users[q.who] EXCEPT !.admin = TRUE])
  BY <1>1 DEF Promote
<1>3. PICK a \in Accounts : a = q.who
  BY <1>1, <1>2 DEF Shown
<1>4. gap \/ NamedIdentity(q.sub)
  BY <1>1, <1>2 DEF Entitled
<1>5. Appointed(a)
  BY <1>1, <1>3, <1>4 DEF Appointed, NamedIdentity
<1>6. AccountsTypeOK
  BY DEF AccountsInv
<1> QED
  BY <1>2, <1>3, <1>5, <1>6, NewRight

LEMMA UpdateAppoints ==
    ASSUME AccountsInv, NEW h \in Handlers, NEW a \in Accounts, NEW admin \in BOOLEAN,
           UpdateUser(h, a, admin)
    PROVE  Appointments
<1>1. Live(a) /\ Change(a, [users[a] EXCEPT !.admin = admin])
  BY DEF UpdateUser
<1>2. AccountsTypeOK
  BY DEF AccountsInv
<1>3. PICK x : x = [users[a] EXCEPT !.admin = admin]
  OBVIOUS
<1>4. x.admin = admin
  BY <1>1, <1>2, <1>3, LiveIsRow DEF Row
<1>5. admin => Appointed(a)
  BY DEF Appointed
<1> QED
  BY <1>1, <1>2, <1>3, <1>4, <1>5, NewRight

(* No other step of a request makes an administrator.                      *)
LEMMA OthersAppointNobody ==
    ASSUME AccountsInv, NEW h \in Handlers,
           \/ LinkSubject(h) \/ ChangePassword(h) \/ HandleOIDCBindCallback(h)
           \/ \E a \in Accounts : DeleteUser(h, a)
    PROVE  Appointments
<1>1. PICK q \in Request : q = handler[h] /\ Shown(q) /\ Entitled(q)
  BY TheRequest
<1>2. AccountsTypeOK
  BY DEF AccountsInv
<1>3. CASE LinkSubject(h)
  <2>1. q.pc = "link"
    BY <1>1, <1>3 DEF LinkSubject
  <2>2. PICK a \in Accounts : a = q.who
    BY <1>1, <2>1 DEF Shown
  <2>3. Change(a, [users[a] EXCEPT !.sub = q.sub]) \/ UNCHANGED users
    BY <1>1, <1>3, <2>2 DEF LinkSubject
  <2>4. Live(a) => [users[a] EXCEPT !.sub = q.sub].admin = users[a].admin
    BY <1>2, LiveIsRow DEF Row
  <2> QED
    BY <1>2, <2>3, <2>4, SameRight, SameRows
<1>4. CASE ChangePassword(h)
  <2>1. q.pc = "password"
    BY <1>1, <1>4 DEF ChangePassword
  <2>2. PICK a \in Accounts : a = q.who
    BY <1>1, <2>1 DEF Shown
  <2>3. Change(a, [users[a] EXCEPT !.verified = TRUE])
    BY <1>1, <1>4, <2>2 DEF ChangePassword
  <2>4. Live(a) => [users[a] EXCEPT !.verified = TRUE].admin = users[a].admin
    BY <1>2, LiveIsRow DEF Row
  <2> QED
    BY <1>2, <2>3, <2>4, SameRight
<1>5. CASE HandleOIDCBindCallback(h)
  <2>1. q.pc = "bindable"
    BY <1>1, <1>5 DEF HandleOIDCBindCallback
  <2>2. PICK a \in Accounts : a = q.who
    BY <1>1, <2>1 DEF Shown
  <2> DEFINE verified == VerifiedByClaim(users[a], q.sub)
             changed == [users[a] EXCEPT !.sub = q.sub, !.verified = verified]
  <2>3. Change(a, changed) \/ UNCHANGED users
    BY <1>1, <1>5, <2>2 DEF HandleOIDCBindCallback
  <2> HIDE DEF verified
  <2>4. Live(a) => changed.admin = users[a].admin
    BY <1>2, LiveIsRow DEF Row
  <2> HIDE DEF changed
  <2> QED
    BY <1>2, <2>3, <2>4, SameRight, SameRows
<1>6. ASSUME NEW a \in Accounts, DeleteUser(h, a)
      PROVE  Appointments
  <2>1. users' = [users EXCEPT ![a] = Gone]
    BY <1>6 DEF DeleteUser, Store
  <2>2. \A b \in Accounts : users'[b] = users[b] \/ users'[b] = Gone
    BY <1>2, <2>1 DEF AccountsTypeOK
  <2>3. Gone.admin = FALSE
    BY DEF Gone, Unused
  <2> QED
    BY <2>2, <2>3 DEF Appointments
<1> QED
  BY <1>3, <1>4, <1>5, <1>6

LEMMA ServeAppoints ==
    ASSUME AccountsInv, NEW h \in Handlers, Serve(h)
    PROVE  Appointments
<1>1. CASE \/ CheckCode(h) \/ LookForAdmin(h) \/ markEmailCodeUsed(h) \/ WeighClaims(h)
           \/ FindAccount(h) \/ CheckBind(h) \/ UpdateSettings(h) \/ Fail(h)
  <2>1. UNCHANGED users
    BY <1>1 DEF CheckCode, LookForAdmin, markEmailCodeUsed, WeighClaims, FindAccount,
                CheckBind, UpdateSettings, Fail, OnlyRequest
  <2> QED
    BY <2>1, SameRows
<1>2. CASE \E a \in Accounts : RegisterWithPassword(h, a) \/ CreateFromClaims(h, a)
  BY <1>2, RegisterAppoints, CreateAppoints
<1>3. CASE Promote(h)
  BY <1>3, PromoteAppoints
<1>4. CASE LinkSubject(h) \/ ChangePassword(h) \/ HandleOIDCBindCallback(h)
  BY <1>4, OthersAppointNobody
<1>5. CASE \E a \in Accounts : \E admin \in BOOLEAN : UpdateUser(h, a, admin)
  BY <1>5, UpdateAppoints
<1>6. CASE \E a \in Accounts : DeleteUser(h, a)
  BY <1>6, OthersAppointNobody
<1> QED
  BY <1>1, <1>2, <1>3, <1>4, <1>5, <1>6 DEF Serve

LEMMA ArriveAppoints ==
    ASSUME NEW h \in Handlers, Arrive(h)
    PROVE  Appointments
<1>1. UNCHANGED users
  BY DEF Arrive, BeginRegister, BeginOAuth, BeginChangePassword, EnsureFirstAdmin,
         BeginAdmin, BeginBind, OnlyRequest
<1> QED
  BY <1>1, SameRows

LEMMA StepAppoints == AccountsInv /\ [AccountsNext]_accountVars => Appointments
<1> SUFFICES ASSUME AccountsInv, [AccountsNext]_accountVars PROVE Appointments
  OBVIOUS
<1>1. ASSUME NEW e \in Addresses, NEW a \in Accounts, SetupInitialAdmin(e, a)
      PROVE  Appointments
  <2>1. PICK x : x = [email |-> e, sub |-> NoOne, admin |-> TRUE,
                      verified |-> TRUE, how |-> "setup"]
    OBVIOUS
  <2>2. Insert(a, x) /\ Admins = {}
    BY <1>1, <2>1 DEF SetupInitialAdmin, SetupAllowed, hasAdminUser
  <2>3. AccountsTypeOK
    BY DEF AccountsInv
  <2>4. users'[a] = x
    BY <2>2, <2>3 DEF Insert, Store, AccountsTypeOK
  <2>5. Appointed(a)
    BY <2>1, <2>2, <2>4 DEF Appointed
  <2> QED
    BY <2>2, <2>3, <2>5, NewRow
<1>2. CASE \/ \E e \in Addresses : SendRegistrationEmailCode(e)
           \/ \E a \in Accounts : SendPasswordChangeEmailCode(a) \/ CreateOIDCBindRequest(a)
           \/ Expire
           \/ UNCHANGED accountVars
  <2>1. UNCHANGED users
    BY <1>2 DEF SendRegistrationEmailCode, SendPasswordChangeEmailCode, CreateOIDCBindRequest,
                Expire, accountVars
  <2> QED
    BY <2>1, SameRows
<1>3. CASE \E h \in Handlers : Arrive(h) \/ Serve(h)
  BY <1>3, ArriveAppoints, ServeAppoints
<1> QED
  BY <1>1, <1>2, <1>3 DEF AccountsNext

(* While the site has had an administrator all along, only the setup,      *)
(* another administrator or the configuration makes one: no registration,  *)
(* sign-in or bind does that looked for administrators at a bad moment     *)
(* (ensureFirstUserAdmin, shouldBootstrapAdmin).                           *)
THEOREM AdministratorsAppointed == AccountsSpec => AdminsAppointed
<1>1. AccountsInv /\ [AccountsNext]_accountVars => [Appointments]_accountVars
  BY StepAppoints
<1>2. AccountsSpec => [][Appointments]_accountVars
  BY <1>1, AccountsInvariance, PTL DEF AccountsSpec
<1> QED
  BY <1>2 DEF AdminsAppointed, Appointments, Appointed
-----------------------------------------------------------------------------
(* Passkeys.                                                               *)

(* An answer was given to a challenge for sign-ins, by a registered key.   *)
SignedByKey(x) ==
    /\ challenge[x.c].state # "unused" /\ challenge[x.c].purpose = "login"
    /\ credential[x.k].owner # Nobody

(* What a request that took a challenge knows of the rows it works on.     *)
KnowsItsRows(q) ==
    /\ q.c \in Challenges /\ q.k \in Keys
    /\ challenge[q.c].state # "unused"
    /\ challenge[q.c].purpose = q.purpose /\ challenge[q.c].who = q.who
    /\ q.purpose = "registration" => q.who # Nobody
    /\ q.purpose = "login" => \E x \in answers : x.c = q.c /\ x.k = q.k
    /\ q.pc # "take" => challenge[q.c].state = "gone"
    /\ q.pc \in {"store", "token"} =>
         /\ q.purpose = "login"
         /\ q.user \in {Nobody, credential[q.k].owner} /\ q.who \in {Nobody, credential[q.k].owner}

(* What a sign-in rested on.                                               *)
RestsOnKey(s) ==
    /\ challenge[s.c].state # "unused" /\ credential[s.k].owner # Nobody
    /\ challenge[s.c].purpose = "login"
    /\ s.who = credential[s.k].owner
    /\ challenge[s.c].who \in {Nobody, credential[s.k].owner}
    /\ \E x \in answers : x.c = s.c /\ x.k = s.k

Unserved == {"idle", "options"}

(* The inductive invariant of the passkeys.                                *)
PasskeysInv ==
    /\ PasskeysTypeOK
    /\ \A x \in answers : SignedByKey(x)
    /\ \A h \in Goroutines : ceremony[h].pc \in Unserved \/ KnowsItsRows(ceremony[h])
    /\ \A c \in answered : challenge[c].state = "gone"
    /\ \A s \in signIns : RestsOnKey(s)

(* What no step takes back: a row of a challenge keeps what it was made    *)
(* for, a deleted one stays deleted, a key keeps its owner.                *)
PasskeysKeep ==
    /\ \A c \in Challenges :
         /\ challenge[c].state # "unused" =>
              /\ challenge'[c].state # "unused"
              /\ challenge'[c].purpose = challenge[c].purpose /\ challenge'[c].who = challenge[c].who
         /\ challenge[c].state = "gone" => challenge'[c].state = "gone"
    /\ \A k \in Keys : credential[k].owner # Nobody => credential'[k].owner = credential[k].owner
    /\ answers \subseteq answers'

(* Rows that are not written keep what they say, and so does what is known *)
(* of them.                                                                *)
LEMMA UnwrittenKeeps ==
    ASSUME UNCHANGED <<challenge, credential>>, answers \subseteq answers'
    PROVE  PasskeysKeep
BY DEF PasskeysKeep

LEMMA SignedStays ==
    ASSUME PasskeysKeep, NEW x \in Answer, SignedByKey(x)
    PROVE  SignedByKey(x)'
BY DEF PasskeysKeep, SignedByKey, Answer

LEMMA ServedStays ==
    ASSUME PasskeysInv, PasskeysKeep, NEW q, KnowsItsRows(q), q.purpose \in PasskeyPurposes
    PROVE  KnowsItsRows(q)'
<1>1. /\ q.c \in Challenges /\ q.k \in Keys
      /\ challenge'[q.c].state # "unused"
      /\ challenge'[q.c].purpose = q.purpose /\ challenge'[q.c].who = q.who
      /\ q.pc # "take" => challenge'[q.c].state = "gone"
  BY DEF KnowsItsRows, PasskeysKeep
<1>2. q.purpose = "login" => \E x \in answers' : x.c = q.c /\ x.k = q.k
  BY DEF KnowsItsRows, PasskeysKeep
<1>3. q.purpose = "login" => credential'[q.k].owner = credential[q.k].owner
  <2> SUFFICES ASSUME q.purpose = "login" PROVE credential'[q.k].owner = credential[q.k].owner
    OBVIOUS
  <2>1. PICK x \in answers : x.c = q.c /\ x.k = q.k
    BY DEF KnowsItsRows
  <2>2. credential[q.k].owner # Nobody
    BY <2>1 DEF PasskeysInv, SignedByKey
  <2> QED
    BY <1>1, <2>2 DEF PasskeysKeep
<1> QED
  BY <1>1, <1>2, <1>3 DEF KnowsItsRows

LEMMA EntitledStays ==
    ASSUME PasskeysKeep, NEW s \in SignIn, RestsOnKey(s)
    PROVE  RestsOnKey(s)'
BY DEF PasskeysKeep, RestsOnKey, SignIn

(* What a step has to show: types, what it keeps, and what it adds.        *)
LEMMA PasskeysStepSound ==
    ASSUME PasskeysInv, PasskeysTypeOK', PasskeysKeep,
           \A x \in Answer : x \in answers' => x \in answers \/ SignedByKey(x)',
           \A h \in Goroutines : \A q \in Ceremony :
              q = ceremony'[h] => q = ceremony[h] \/ q.pc \in Unserved \/ KnowsItsRows(q)',
           \A c \in Challenges : c \in answered' => c \in answered \/ challenge'[c].state = "gone",
           \A s \in SignIn : s \in signIns' => s \in signIns \/ RestsOnKey(s)'
    PROVE  PasskeysInv'
<1>1. \A x \in answers' : SignedByKey(x)'
  <2> SUFFICES ASSUME NEW x \in answers' PROVE SignedByKey(x)'
    OBVIOUS
  <2>1. x \in Answer
    BY DEF PasskeysTypeOK
  <2>2. x \in answers => SignedByKey(x)
    BY DEF PasskeysInv
  <2> QED
    BY <2>1, <2>2, SignedStays
<1>2. \A h \in Goroutines : (ceremony[h].pc \in Unserved \/ KnowsItsRows(ceremony[h]))'
  <2> SUFFICES ASSUME NEW h \in Goroutines
               PROVE  (ceremony[h].pc \in Unserved \/ KnowsItsRows(ceremony[h]))'
    OBVIOUS
  <2>1. PICK q \in Ceremony : q = ceremony'[h]
    BY DEF PasskeysTypeOK
  <2>2. q = ceremony[h] \/ q.pc \in Unserved \/ KnowsItsRows(q)'
    BY <2>1
  <2>3. q.purpose \in PasskeyPurposes
    BY <2>1 DEF Ceremony
  <2>4. q = ceremony[h] => q.pc \in Unserved \/ KnowsItsRows(q)
    BY DEF PasskeysInv
  <2>5. q.pc \in Unserved \/ KnowsItsRows(q)'
    BY <2>2, <2>3, <2>4, ServedStays
  <2> QED
    BY <2>1, <2>5 DEF KnowsItsRows
<1>3. \A c \in answered' : challenge'[c].state = "gone"
  <2> SUFFICES ASSUME NEW c \in answered' PROVE challenge'[c].state = "gone"
    OBVIOUS
  <2>1. c \in Challenges
    BY DEF PasskeysTypeOK
  <2> QED
    BY <2>1 DEF PasskeysInv, PasskeysKeep
<1>4. \A s \in signIns' : RestsOnKey(s)'
  <2> SUFFICES ASSUME NEW s \in signIns' PROVE RestsOnKey(s)'
    OBVIOUS
  <2>1. s \in SignIn
    BY DEF PasskeysTypeOK
  <2>2. s \in signIns => RestsOnKey(s)
    BY DEF PasskeysInv
  <2> QED
    BY <2>1, <2>2, EntitledStays
<1> QED
  BY <1>1, <1>2, <1>3, <1>4 DEF PasskeysInv

(* One request goes on, and writes one table at most.                      *)
LEMMA CeremonyMoves ==
    ASSUME PasskeysInv, NEW h \in Goroutines, NEW q \in Ceremony, Proceeds(h, q),
           q.pc \in Unserved \/ KnowsItsRows(q)',
           live' \subseteq Owners, challenge' \in [Challenges -> Challenge],
           credential' \in [Keys -> Credential], UNCHANGED <<signed, answers, removals>>, PasskeysKeep,
           answered' \subseteq Challenges, signIns' \subseteq SignIn,
           \A c \in Challenges : c \in answered' => c \in answered \/ challenge'[c].state = "gone",
           \A s \in SignIn : s \in signIns' => s \in signIns \/ RestsOnKey(s)'
    PROVE  PasskeysInv'
<1>1. ceremony' = [ceremony EXCEPT ![h] = q] /\ ceremony \in [Goroutines -> Ceremony]
  BY DEF Proceeds, PasskeysInv, PasskeysTypeOK
<1>2. PasskeysTypeOK'
  BY <1>1 DEF PasskeysInv, PasskeysTypeOK
<1>3. \A g \in Goroutines : \A p \in Ceremony :
        p = ceremony'[g] => p = ceremony[g] \/ p.pc \in Unserved \/ KnowsItsRows(p)'
  <2> SUFFICES ASSUME NEW g \in Goroutines, NEW p \in Ceremony, p = ceremony'[g]
               PROVE  p = ceremony[g] \/ p.pc \in Unserved \/ KnowsItsRows(p)'
    OBVIOUS
  <2>1. p = q \/ p = ceremony[g]
    BY <1>1
  <2> QED
    BY <2>1 DEF KnowsItsRows
<1> QED
  BY <1>2, <1>3, PasskeysStepSound

LEMMA CeremonyAlone ==
    ASSUME PasskeysInv, NEW h \in Goroutines, NEW q \in Ceremony, Proceeds(h, q), OnlyCeremony,
           q.pc \in Unserved \/ KnowsItsRows(q)'
    PROVE  PasskeysInv'
<1>1. PasskeysKeep
  BY UnwrittenKeeps DEF OnlyCeremony
<1> QED
  BY <1>1, CeremonyMoves DEF OnlyCeremony, PasskeysInv, PasskeysTypeOK

(* A goroutine that serves nobody.                                         *)
LEMMA NoCeremonyTyped == NoCeremony \in Ceremony /\ NoCeremony.pc \in Unserved
BY PasskeysAssumption DEF NoCeremony, Ceremony, Unserved, PasskeyPurposes, Unregistered, Credential

LEMMA TheCeremony ==
    ASSUME PasskeysInv, NEW h \in Goroutines
    PROVE  /\ ceremony[h] \in Ceremony
           /\ ceremony[h].pc \notin Unserved => KnowsItsRows(ceremony[h])
BY DEF PasskeysInv, PasskeysTypeOK

-----------------------------------------------------------------------------
(* One lemma for each action of the passkeys.                              *)

LEMMA CreatesChallenge ==
    ASSUME PasskeysInv, NEW p \in PasskeyPurposes, NEW a \in Owners \cup {Nobody}, NEW c \in Challenges,
           createWebAuthnChallenge(p, a, c)
    PROVE  challenge' \in [Challenges -> Challenge] /\ PasskeysKeep
<1> DEFINE new(d) == CASE d = c -> [state |-> "open", purpose |-> p, who |-> a]
                      [] d # c /\ challenge[d].state = "expired" -> [challenge[d] EXCEPT !.state = "gone"]
                      [] OTHER -> challenge[d]
<1>1. challenge' = [d \in Challenges |-> new(d)] /\ challenge[c].state = "unused"
  BY DEF createWebAuthnChallenge
<1>2. ASSUME NEW d \in Challenges
      PROVE  /\ new(d) \in Challenge
             /\ challenge[d].state # "unused" =>
                  /\ new(d).state # "unused"
                  /\ new(d).purpose = challenge[d].purpose /\ new(d).who = challenge[d].who
             /\ challenge[d].state = "gone" => new(d).state = "gone"
  <2>1. challenge[d] \in Challenge
    BY DEF PasskeysInv, PasskeysTypeOK
  <2>2. CASE d = c
    BY <1>1, <2>2 DEF Challenge, PasskeyPurposes
  <2>3. CASE d # c /\ challenge[d].state = "expired"
    BY <2>1, <2>3 DEF Challenge
  <2>4. CASE d # c /\ challenge[d].state # "expired"
    BY <2>1, <2>4
  <2> QED
    BY <2>2, <2>3, <2>4
<1> HIDE DEF new
<1> QED
  BY <1>1, <1>2 DEF PasskeysKeep, createWebAuthnChallenge

LEMMA CeremoniesStand ==
    ASSUME PasskeysInv, UNCHANGED <<ceremony, answered, signIns>>, answers' = answers,
           PasskeysTypeOK', PasskeysKeep
    PROVE  PasskeysInv'
BY PasskeysStepSound DEF PasskeysInv

LEMMA BeginPasskeyRegistrationSound ==
    ASSUME PasskeysInv, NEW a \in Owners, NEW c \in Challenges, BeginPasskeyRegistration(a, c)
    PROVE  PasskeysInv'
<1>1. challenge' \in [Challenges -> Challenge] /\ PasskeysKeep
  BY CreatesChallenge DEF BeginPasskeyRegistration, PasskeyPurposes
<1>2. UNCHANGED <<live, credential, signed, answers, ceremony, removals, answered, signIns>>
  BY DEF BeginPasskeyRegistration, createWebAuthnChallenge
<1>3. PasskeysTypeOK'
  BY <1>1, <1>2 DEF PasskeysInv, PasskeysTypeOK
<1> QED
  BY <1>1, <1>2, <1>3, CeremoniesStand

LEMMA BeginPasskeyLoginSound ==
    ASSUME PasskeysInv, NEW h \in Goroutines, NEW a \in Owners \cup {Nobody}, BeginPasskeyLogin(h, a)
    PROVE  PasskeysInv'
<1>1. PICK q : q = [NoCeremony EXCEPT !.pc = "options", !.who = a]
  OBVIOUS
<1>2. q \in Ceremony /\ q.pc \in Unserved
  BY <1>1, NoCeremonyTyped DEF NoCeremony, Ceremony, Unserved
<1> QED
  BY <1>1, <1>2, CeremonyAlone DEF BeginPasskeyLogin

LEMMA OfferLoginSound ==
    ASSUME PasskeysInv, NEW h \in Goroutines, NEW c \in Challenges, OfferLogin(h, c)
    PROVE  PasskeysInv'
<1>1. PICK a \in Owners \cup {Nobody} : a = ceremony[h].who
  BY TheCeremony DEF Ceremony
<1>2. createWebAuthnChallenge("login", a, c) /\ Proceeds(h, NoCeremony)
  BY <1>1 DEF OfferLogin, Over
<1>3. challenge' \in [Challenges -> Challenge] /\ PasskeysKeep
  BY <1>2, CreatesChallenge DEF PasskeyPurposes
<1>4. UNCHANGED <<live, credential, signed, answers, removals, answered, signIns>>
  BY <1>2 DEF createWebAuthnChallenge
<1>5. /\ live' \subseteq Owners /\ credential' \in [Keys -> Credential]
      /\ answered' \subseteq Challenges /\ signIns' \subseteq SignIn
  BY <1>4 DEF PasskeysInv, PasskeysTypeOK
<1> QED
  BY <1>2, <1>3, <1>4, <1>5, NoCeremonyTyped, CeremonyMoves

LEMMA ExpireChallengeSound ==
    ASSUME PasskeysInv, NEW c \in Challenges, ExpireChallenge(c)
    PROVE  PasskeysInv'
<1>1. /\ challenge[c].state = "open" /\ challenge' = [challenge EXCEPT ![c].state = "expired"]
      /\ challenge \in [Challenges -> Challenge] /\ removals' \in 0 .. MaxRemovals
  BY PasskeysAssumption DEF ExpireChallenge, Remove, PasskeysInv, PasskeysTypeOK
<1>2. challenge' = [challenge EXCEPT ![c] = [challenge[c] EXCEPT !.state = "expired"]]
  BY <1>1
<1>3. [challenge[c] EXCEPT !.state = "expired"] \in Challenge
  BY <1>1 DEF Challenge
<1>4. challenge' \in [Challenges -> Challenge] /\ PasskeysKeep
  BY <1>1, <1>2, <1>3 DEF PasskeysKeep, ExpireChallenge, Challenge
<1>5. PasskeysTypeOK'
  BY <1>1, <1>4 DEF PasskeysInv, PasskeysTypeOK, ExpireChallenge
<1> QED
  BY <1>4, <1>5, CeremoniesStand DEF ExpireChallenge

LEMMA SignSound ==
    ASSUME PasskeysInv, NEW k \in Keys, NEW c \in Challenges, Sign(k, c)
    PROVE  PasskeysInv'
<1>1. PICK x : x = [c |-> c, k |-> k, n |-> signed[k] + 1]
  OBVIOUS
<1>2. /\ signed \in [Keys -> 0 .. MaxSigned] /\ signed[k] \in 0 .. MaxSigned
      /\ signed[k] < MaxSigned /\ MaxSigned \in Nat
  BY PasskeysAssumption DEF Sign, PasskeysInv, PasskeysTypeOK
<1>3. signed[k] + 1 \in 1 .. MaxSigned
  BY <1>2
<1>4. x \in Answer
  BY <1>1, <1>3 DEF Answer
<1>5. signed' \in [Keys -> 0 .. MaxSigned]
  BY <1>2, <1>3 DEF Sign
<1>6. /\ answers' = answers \cup {x}
      /\ UNCHANGED <<live, challenge, credential, ceremony, removals, answered, signIns>>
  BY <1>1 DEF Sign
<1>7. PasskeysTypeOK'
  BY <1>4, <1>5, <1>6 DEF PasskeysInv, PasskeysTypeOK
<1>8. PasskeysKeep
  BY <1>6, UnwrittenKeeps
<1>9. SignedByKey(x)'
  BY <1>1, <1>6 DEF Sign, SignedByKey
<1> QED
  BY <1>6, <1>7, <1>8, <1>9, PasskeysStepSound

(* A request that took its challenge, read and not yet deleted.            *)
LEMMA TakeSound ==
    ASSUME PasskeysInv, NEW h \in Goroutines, NEW q \in Ceremony, Take(h, q),
           q.c \in Challenges, q.k \in Keys,
           q.purpose = "registration" => q.who # Nobody,
           q.purpose = "login" => \E x \in answers : x.c = q.c /\ x.k = q.k
    PROVE  PasskeysInv'
<1>1. PICK p : p = [q EXCEPT !.pc = "take", !.who = challenge[q.c].who]
  OBVIOUS
<1>2. challenge[q.c] \in Challenge
  BY DEF PasskeysInv, PasskeysTypeOK
<1>3. p \in Ceremony
  BY <1>1, <1>2 DEF Ceremony, Challenge
<1>4. /\ p.pc = "take" /\ p.who = challenge[q.c].who /\ p.c = q.c /\ p.k = q.k
      /\ p.purpose = q.purpose
  BY <1>1 DEF Ceremony
<1>5. challenge[q.c].state = "open" /\ challenge[q.c].purpose = q.purpose
  BY DEF Take, Accepts
<1>6. q.purpose = "registration" => p.who # Nobody
  BY <1>4 DEF Take
<1>7. KnowsItsRows(p)
  BY <1>4, <1>5, <1>6 DEF KnowsItsRows
<1>8. OnlyCeremony /\ Proceeds(h, p)
  BY <1>1 DEF Take
<1>9. KnowsItsRows(p)'
  BY <1>7, <1>8 DEF KnowsItsRows, OnlyCeremony
<1> QED
  BY <1>3, <1>8, <1>9, CeremonyAlone

LEMMA BeginFinishRegistrationSound ==
    ASSUME PasskeysInv, NEW h \in Goroutines, NEW a \in Owners, NEW c \in Challenges, NEW k \in Keys,
           BeginFinishRegistration(h, a, c, k)
    PROVE  PasskeysInv'
<1>1. PICK q : q = [NoCeremony EXCEPT !.purpose = "registration", !.who = a, !.c = c,
                                      !.k = k, !.n = signed[k]]
  OBVIOUS
<1>2. signed[k] \in 0 .. MaxSigned
  BY DEF PasskeysInv, PasskeysTypeOK
<1>3. q \in Ceremony /\ q.c = c /\ q.k = k /\ q.purpose = "registration" /\ q.who = a
  BY <1>1, <1>2, NoCeremonyTyped DEF NoCeremony, Ceremony, PasskeyPurposes
<1>4. Take(h, q)
  BY <1>1 DEF BeginFinishRegistration
<1> QED
  BY <1>3, <1>4, TakeSound, PasskeysAssumption

LEMMA BeginFinishLoginSound ==
    ASSUME PasskeysInv, NEW h \in Goroutines, NEW x \in answers, BeginFinishLogin(h, x)
    PROVE  PasskeysInv'
<1>1. PICK q : q = [NoCeremony EXCEPT !.purpose = "login", !.c = x.c, !.k = x.k, !.n = x.n]
  OBVIOUS
<1>2. x \in Answer /\ 1 .. MaxSigned \subseteq 0 .. MaxSigned
  BY PasskeysAssumption DEF PasskeysInv, PasskeysTypeOK
<1>3. x.c \in Challenges /\ x.k \in Keys /\ x.n \in 0 .. MaxSigned
  BY <1>2 DEF Answer
<1>4. q \in Ceremony /\ q.c = x.c /\ q.k = x.k /\ q.purpose = "login"
  BY <1>1, <1>3, NoCeremonyTyped DEF NoCeremony, Ceremony, PasskeyPurposes
<1>5. Take(h, q)
  BY <1>1 DEF BeginFinishLogin
<1> QED
  BY <1>3, <1>4, <1>5, TakeSound

(* The row is deleted: from now on it is gone for every other request.     *)
LEMMA ConsumeSound ==
    ASSUME PasskeysInv, NEW h \in Goroutines, consumeWebAuthnChallenge(h)
    PROVE  PasskeysInv'
<1>1. PICK p \in Ceremony : p = ceremony[h]
  BY TheCeremony
<1>2. p.pc = "take" /\ KnowsItsRows(p)
  BY <1>1, TheCeremony DEF consumeWebAuthnChallenge, Unserved
<1>3. PICK q : q = [p EXCEPT !.pc = "taken"]
  OBVIOUS
<1>4. /\ q \in Ceremony /\ q.pc = "taken" /\ q.c = p.c /\ q.k = p.k
      /\ q.purpose = p.purpose /\ q.who = p.who
  BY <1>1, <1>3 DEF Ceremony
<1>5. PICK c \in Challenges : c = p.c
  BY <1>2 DEF KnowsItsRows
<1>6. /\ challenge' = [challenge EXCEPT ![c].state = "gone"] /\ Proceeds(h, q)
      /\ UNCHANGED <<live, credential, signed, answers, removals, answered, signIns>>
      /\ challenge \in [Challenges -> Challenge]
  BY <1>1, <1>3, <1>5 DEF consumeWebAuthnChallenge, Taken, PasskeysInv, PasskeysTypeOK
<1>7. challenge' = [challenge EXCEPT ![c] = [challenge[c] EXCEPT !.state = "gone"]]
  BY <1>6
<1>8. /\ [challenge[c] EXCEPT !.state = "gone"] \in Challenge
      /\ [challenge[c] EXCEPT !.state = "gone"].state = "gone"
  BY <1>6 DEF Challenge
<1>9. challenge' \in [Challenges -> Challenge] /\ PasskeysKeep /\ challenge'[c].state = "gone"
  BY <1>6, <1>7, <1>8 DEF PasskeysKeep, Challenge
<1>10. KnowsItsRows(p)'
  BY <1>1, <1>2, <1>9, ServedStays DEF Ceremony
<1>11. KnowsItsRows(q)'
  BY <1>4, <1>5, <1>9, <1>10 DEF KnowsItsRows
<1>12. /\ live' \subseteq Owners /\ credential' \in [Keys -> Credential]
       /\ answered' \subseteq Challenges /\ signIns' \subseteq SignIn
  BY <1>6 DEF PasskeysInv, PasskeysTypeOK
<1> QED
  BY <1>4, <1>6, <1>9, <1>11, <1>12, CeremonyMoves

LEMMA FinishPasskeyRegistrationSound ==
    ASSUME PasskeysInv, NEW h \in Goroutines, FinishPasskeyRegistration(h)
    PROVE  PasskeysInv'
<1>1. PICK p \in Ceremony : p = ceremony[h]
  BY TheCeremony
<1>2. p.pc = "taken" /\ p.purpose = "registration" /\ KnowsItsRows(p)
  BY <1>1, TheCeremony DEF FinishPasskeyRegistration, Unserved
<1>3. PICK k \in Keys : k = p.k
  BY <1>2 DEF KnowsItsRows
<1>4. PICK row : row = [owner |-> p.who, count |-> p.n, kept |-> TRUE]
  OBVIOUS
<1>5. row \in Credential
  BY <1>1, <1>4 DEF Ceremony, Credential
<1>6. /\ credential' = IF credential[k] = Unregistered
                       THEN [credential EXCEPT ![k] = row] ELSE credential
      /\ Proceeds(h, NoCeremony)
      /\ UNCHANGED <<live, challenge, signed, answers, removals, answered, signIns>>
  BY <1>1, <1>3, <1>4 DEF FinishPasskeyRegistration, Over
<1>7. credential' \in [Keys -> Credential] /\ PasskeysKeep
  <2>1. credential \in [Keys -> Credential] /\ Unregistered.owner = Nobody
    BY DEF PasskeysInv, PasskeysTypeOK, Unregistered
  <2>2. CASE credential[k] = Unregistered
    BY <1>5, <1>6, <2>1, <2>2 DEF PasskeysKeep
  <2>3. CASE credential[k] # Unregistered
    BY <1>6, <2>1, <2>3 DEF PasskeysKeep
  <2> QED
    BY <2>2, <2>3
<1>8. /\ live' \subseteq Owners /\ challenge' \in [Challenges -> Challenge]
      /\ answered' \subseteq Challenges /\ signIns' \subseteq SignIn
  BY <1>6 DEF PasskeysInv, PasskeysTypeOK
<1> QED
  BY <1>6, <1>7, <1>8, NoCeremonyTyped, CeremonyMoves

LEMMA DeletePasskeySound ==
    ASSUME PasskeysInv, NEW a \in Owners, NEW k \in Keys, DeletePasskey(a, k)
    PROVE  PasskeysInv'
<1>1. /\ credential' = [credential EXCEPT ![k] = [credential[k] EXCEPT !.kept = FALSE]]
      /\ credential \in [Keys -> Credential] /\ removals' \in 0 .. MaxRemovals
      /\ UNCHANGED <<live, challenge, signed, answers, ceremony, answered, signIns>>
  BY PasskeysAssumption DEF DeletePasskey, Remove, PasskeysInv, PasskeysTypeOK
<1>2. /\ [credential[k] EXCEPT !.kept = FALSE] \in Credential
      /\ [credential[k] EXCEPT !.kept = FALSE].owner = credential[k].owner
  BY <1>1 DEF Credential
<1>3. credential' \in [Keys -> Credential] /\ PasskeysKeep
  BY <1>1, <1>2 DEF PasskeysKeep
<1>4. PasskeysTypeOK'
  BY <1>1, <1>3 DEF PasskeysInv, PasskeysTypeOK
<1> QED
  BY <1>1, <1>3, <1>4, CeremoniesStand

(* The key's owner is compared with the challenge's account, and stays.    *)
LEMMA LookUpCredentialSound ==
    ASSUME PasskeysInv, NEW h \in Goroutines, LookUpCredential(h)
    PROVE  PasskeysInv'
<1>1. PICK p \in Ceremony : p = ceremony[h]
  BY TheCeremony
<1>2. p.pc = "taken" /\ p.purpose = "login" /\ KnowsItsRows(p)
  BY <1>1, TheCeremony DEF LookUpCredential, Unserved
<1>3. PICK row : row = credential[p.k]
  OBVIOUS
<1>4. row \in Credential
  BY <1>2, <1>3 DEF KnowsItsRows, PasskeysInv, PasskeysTypeOK
<1>5. PICK u : u = IF row.owner \in live THEN row.owner ELSE Nobody
  OBVIOUS
<1>6. u \in Owners \cup {Nobody} /\ u \in {Nobody, row.owner}
  BY <1>4, <1>5 DEF Credential
<1>7. PICK q : q = [p EXCEPT !.pc = "store", !.copy = row, !.user = u]
  OBVIOUS
<1>8. /\ q \in Ceremony /\ q.pc = "store" /\ q.c = p.c /\ q.k = p.k
      /\ q.purpose = p.purpose /\ q.who = p.who /\ q.user = u
  BY <1>1, <1>4, <1>6, <1>7 DEF Ceremony
<1>9. OnlyCeremony
  BY DEF LookUpCredential
<1>10. CASE row.kept /\ Belongs(p)
  <2>1. Proceeds(h, q)
    BY <1>1, <1>3, <1>5, <1>7, <1>10 DEF LookUpCredential
  <2>2. p.who \in {Nobody, row.owner}
    BY <1>3, <1>10 DEF Belongs
  <2>3. KnowsItsRows(q)
    BY <1>2, <1>3, <1>6, <1>8, <2>2 DEF KnowsItsRows
  <2>4. KnowsItsRows(q)'
    BY <1>9, <2>3 DEF KnowsItsRows, OnlyCeremony
  <2> QED
    BY <1>8, <1>9, <2>1, <2>4, CeremonyAlone
<1>11. CASE ~ (row.kept /\ Belongs(p))
  <2>1. Proceeds(h, NoCeremony)
    BY <1>1, <1>3, <1>11 DEF LookUpCredential, Over
  <2> QED
    BY <1>9, <2>1, NoCeremonyTyped, CeremonyAlone
<1> QED
  BY <1>10, <1>11

LEMMA StoreSignCountSound ==
    ASSUME PasskeysInv, NEW h \in Goroutines, StoreSignCount(h)
    PROVE  PasskeysInv'
<1>1. PICK p \in Ceremony : p = ceremony[h]
  BY TheCeremony
<1>2. p.pc = "store" /\ KnowsItsRows(p)
  BY <1>1, TheCeremony DEF StoreSignCount, Unserved
<1>3. PICK k \in Keys : k = p.k
  BY <1>2 DEF KnowsItsRows
<1>4. PICK q : q = [p EXCEPT !.pc = "token"]
  OBVIOUS
<1>5. /\ q \in Ceremony /\ q.pc = "token" /\ q.c = p.c /\ q.k = p.k
      /\ q.purpose = p.purpose /\ q.who = p.who /\ q.user = p.user
  BY <1>1, <1>4 DEF Ceremony
<1>6. PICK row : row = [credential[k] EXCEPT !.count = p.n]
  OBVIOUS
<1>7. /\ credential \in [Keys -> Credential] /\ row \in Credential /\ row.owner = credential[k].owner
  <2>1. credential \in [Keys -> Credential] /\ credential[k] \in Credential /\ p.n \in 0 .. MaxSigned
    BY DEF PasskeysInv, PasskeysTypeOK, Ceremony
  <2> QED
    BY <1>6, <2>1 DEF Credential
<1>8. credential' = [credential EXCEPT ![k] = row] \/ credential' = credential
  BY <1>1, <1>3, <1>6 DEF StoreSignCount
<1>9. Proceeds(h, q) /\ UNCHANGED <<live, challenge, signed, answers, removals, answered, signIns>>
  BY <1>1, <1>4 DEF StoreSignCount
<1>10. credential' \in [Keys -> Credential] /\ PasskeysKeep
  BY <1>7, <1>8, <1>9 DEF PasskeysKeep
<1>11. KnowsItsRows(q)
  BY <1>2, <1>5 DEF KnowsItsRows
<1>12. KnowsItsRows(q)'
  BY <1>5, <1>10, <1>11, ServedStays DEF Ceremony
<1>13. /\ live' \subseteq Owners /\ challenge' \in [Challenges -> Challenge]
       /\ answered' \subseteq Challenges /\ signIns' \subseteq SignIn
  BY <1>9 DEF PasskeysInv, PasskeysTypeOK
<1> QED
  BY <1>5, <1>9, <1>10, <1>12, <1>13, CeremonyMoves

LEMMA FinishPasskeyLoginSound ==
    ASSUME PasskeysInv, NEW h \in Goroutines, FinishPasskeyLogin(h)
    PROVE  PasskeysInv'
<1>1. PICK p \in Ceremony : p = ceremony[h]
  BY TheCeremony
<1>2. p.pc = "token" /\ KnowsItsRows(p)
  BY <1>1, TheCeremony DEF FinishPasskeyLogin, Unserved
<1>3. PICK s : s = [c |-> p.c, k |-> p.k, who |-> p.user]
  OBVIOUS
<1>4. p.c \in Challenges /\ p.k \in Keys /\ p.user \in Owners \cup {Nobody}
  BY <1>1, <1>2 DEF Ceremony, KnowsItsRows
<1>5. /\ Proceeds(h, NoCeremony)
      /\ UNCHANGED <<live, challenge, credential, signed, answers, removals>>
      /\ IF p.user = Nobody
         THEN UNCHANGED <<answered, signIns>>
         ELSE answered' = answered \cup {p.c} /\ signIns' = signIns \cup {s}
  BY <1>1, <1>3 DEF FinishPasskeyLogin, Over
<1>6. CASE p.user = Nobody
  BY <1>5, <1>6, NoCeremonyTyped, CeremonyAlone DEF OnlyCeremony
<1>7. CASE p.user # Nobody
  <2>1. s \in SignIn /\ s.c = p.c /\ s.k = p.k /\ s.who = p.user
    BY <1>3, <1>4, <1>7 DEF SignIn
  <2>2. answered' = answered \cup {p.c} /\ signIns' = signIns \cup {s}
    BY <1>5, <1>7
  <2>3. PICK x \in answers : x.c = p.c /\ x.k = p.k
    BY <1>2 DEF KnowsItsRows
  <2>4. credential[p.k].owner # Nobody
    BY <2>3 DEF PasskeysInv, SignedByKey
  <2>5. RestsOnKey(s)
    BY <1>2, <1>7, <2>1, <2>3, <2>4 DEF KnowsItsRows, RestsOnKey
  <2>6. RestsOnKey(s)' /\ challenge'[p.c].state = "gone"
    BY <1>2, <1>5, <2>5 DEF RestsOnKey, KnowsItsRows
  <2>7. /\ live' \subseteq Owners /\ challenge' \in [Challenges -> Challenge]
        /\ credential' \in [Keys -> Credential]
        /\ answered' \subseteq Challenges /\ signIns' \subseteq SignIn
    BY <1>4, <1>5, <2>1, <2>2 DEF PasskeysInv, PasskeysTypeOK
  <2>8. PasskeysKeep
    BY <1>5, UnwrittenKeeps
  <2> QED
    BY <1>4, <1>5, <2>2, <2>6, <2>7, <2>8, NoCeremonyTyped, CeremonyMoves
<1> QED
  BY <1>6, <1>7

LEMMA DeleteOwnerSound ==
    ASSUME PasskeysInv, NEW a \in Owners, DeleteOwner(a)
    PROVE  PasskeysInv'
<1>1. PasskeysTypeOK'
  BY PasskeysAssumption DEF DeleteOwner, Remove, PasskeysInv, PasskeysTypeOK
<1> QED
  BY <1>1, UnwrittenKeeps, CeremoniesStand DEF DeleteOwner

LEMMA BreakOffSound ==
    ASSUME PasskeysInv, NEW h \in Goroutines, BreakOff(h)
    PROVE  PasskeysInv'
BY NoCeremonyTyped, CeremonyAlone DEF BreakOff, Over

-----------------------------------------------------------------------------
(* The invariant holds.                                                    *)

LEMMA PasskeysInitSound == PasskeysInit => PasskeysInv
<1> SUFFICES ASSUME PasskeysInit PROVE PasskeysInv
  OBVIOUS
<1>1. PasskeysTypeOK
  <2>1. /\ NoCeremony \in Ceremony /\ Unregistered \in Credential
        /\ 0 \in 0 .. MaxSigned /\ 0 \in 0 .. MaxRemovals
    BY NoCeremonyTyped, PasskeysAssumption DEF Unregistered, Credential
  <2>2. [state |-> "unused", purpose |-> "login", who |-> Nobody] \in Challenge
    BY DEF Challenge, PasskeyPurposes
  <2> QED
    BY <2>1, <2>2 DEF PasskeysInit, PasskeysTypeOK
<1> QED
  BY <1>1, NoCeremonyTyped DEF PasskeysInit, PasskeysInv

LEMMA PasskeysStep == PasskeysInv /\ [PasskeysNext]_passkeyVars => PasskeysInv'
<1> SUFFICES ASSUME PasskeysInv, [PasskeysNext]_passkeyVars PROVE PasskeysInv'
  OBVIOUS
<1>1. ASSUME NEW a \in Owners,
             \/ DeleteOwner(a)
             \/ \E c \in Challenges : BeginPasskeyRegistration(a, c)
             \/ \E k \in Keys : DeletePasskey(a, k)
      PROVE  PasskeysInv'
  BY <1>1, DeleteOwnerSound, BeginPasskeyRegistrationSound, DeletePasskeySound
<1>2. ASSUME NEW c \in Challenges, ExpireChallenge(c) \/ \E k \in Keys : Sign(k, c)
      PROVE  PasskeysInv'
  BY <1>2, ExpireChallengeSound, SignSound
<1>3. ASSUME NEW h \in Goroutines,
             \/ \E a \in Owners \cup {Nobody} : BeginPasskeyLogin(h, a)
             \/ \E c \in Challenges : OfferLogin(h, c)
             \/ \E a \in Owners, c \in Challenges, k \in Keys : BeginFinishRegistration(h, a, c, k)
             \/ \E x \in answers : BeginFinishLogin(h, x)
      PROVE  PasskeysInv'
  BY <1>3, BeginPasskeyLoginSound, OfferLoginSound, BeginFinishRegistrationSound, BeginFinishLoginSound
<1>4. ASSUME NEW h \in Goroutines,
             \/ consumeWebAuthnChallenge(h) \/ FinishPasskeyRegistration(h)
             \/ LookUpCredential(h) \/ StoreSignCount(h) \/ FinishPasskeyLogin(h)
             \/ BreakOff(h)
      PROVE  PasskeysInv'
  BY <1>4, ConsumeSound, FinishPasskeyRegistrationSound, LookUpCredentialSound, StoreSignCountSound,
     FinishPasskeyLoginSound, BreakOffSound
<1>5. CASE UNCHANGED passkeyVars
  BY <1>5, UnwrittenKeeps, CeremoniesStand DEF passkeyVars, PasskeysInv, PasskeysTypeOK
<1> QED
  BY <1>1, <1>2, <1>3, <1>4, <1>5 DEF PasskeysNext

LEMMA PasskeysInvariance == PasskeysSpec => []PasskeysInv
BY PasskeysInitSound, PasskeysStep, PTL DEF PasskeysSpec

(* Every variable of the passkeys keeps its type.                          *)
THEOREM PasskeysTyped == PasskeysSpec => []PasskeysTypeOK
<1>1. PasskeysInv => PasskeysTypeOK
  BY DEF PasskeysInv
<1> QED
  BY <1>1, PasskeysInvariance, PTL

(* Whoever a passkey signed in owns the key that answered, and the answer  *)
(* was given by that key to a challenge made for this account or for any,  *)
(* for any number of accounts, keys, challenges and overlapping requests   *)
(* (FinishPasskeyLogin).                                                   *)
THEOREM SignInsOwned == PasskeysSpec => []SignInsEntitled
<1>1. PasskeysInv => SignInsEntitled
  BY DEF PasskeysInv, SignInsEntitled, RestsOnKey
<1> QED
  BY <1>1, PasskeysInvariance, PTL

(* A request takes no challenge of a finished sign-in.                     *)
TakesFresh ==
    \A h \in Goroutines :
      ceremony[h].pc = "idle" /\ ceremony'[h].pc = "take" => ceremony'[h].c \notin answered

LEMMA OthersTakeNone ==
    ASSUME PasskeysInv, NEW h \in Goroutines, NEW q, Proceeds(h, q),
           q.pc = "take" => q.c \notin answered
    PROVE  TakesFresh
<1>1. ceremony' = [ceremony EXCEPT ![h] = q] /\ ceremony \in [Goroutines -> Ceremony]
  BY DEF Proceeds, PasskeysInv, PasskeysTypeOK
<1>2. \A g \in Goroutines : ceremony'[g] = q \/ ceremony'[g] = ceremony[g]
  BY <1>1
<1> QED
  BY <1>2 DEF TakesFresh

LEMMA TakesOpen ==
    ASSUME PasskeysInv, NEW h \in Goroutines, NEW q \in Ceremony, Take(h, q)
    PROVE  TakesFresh
<1>1. PICK p : p = [q EXCEPT !.pc = "take", !.who = challenge[q.c].who]
  OBVIOUS
<1>2. p.c = q.c
  BY <1>1 DEF Ceremony
<1>3. challenge[q.c].state = "open" /\ Proceeds(h, p)
  BY <1>1 DEF Take, Accepts
<1>4. q.c \notin answered
  BY <1>3 DEF PasskeysInv
<1> QED
  BY <1>2, <1>3, <1>4, OthersTakeNone

LEMMA ServingTakesNone ==
    ASSUME PasskeysInv, NEW h \in Goroutines,
           \/ consumeWebAuthnChallenge(h) \/ FinishPasskeyRegistration(h)
           \/ LookUpCredential(h) \/ StoreSignCount(h) \/ FinishPasskeyLogin(h)
           \/ BreakOff(h) \/ (\E c \in Challenges : OfferLogin(h, c))
    PROVE  TakesFresh
<1>1. PICK p \in Ceremony : p = ceremony[h]
  BY TheCeremony
<1>2. NoCeremony.pc # "take"
  BY DEF NoCeremony
<1>3. CASE consumeWebAuthnChallenge(h)
  <2>1. PICK q : q = [p EXCEPT !.pc = "taken"]
    OBVIOUS
  <2> QED
    BY <1>1, <1>3, <2>1, OthersTakeNone DEF consumeWebAuthnChallenge, Ceremony
<1>4. CASE StoreSignCount(h)
  <2>1. PICK q : q = [p EXCEPT !.pc = "token"]
    OBVIOUS
  <2> QED
    BY <1>1, <1>4, <2>1, OthersTakeNone DEF StoreSignCount, Ceremony
<1>5. CASE LookUpCredential(h)
  <2>1. PICK q : q = [p EXCEPT !.pc = "store", !.copy = credential[p.k],
                               !.user = IF credential[p.k].owner \in live
                                        THEN credential[p.k].owner ELSE Nobody]
    OBVIOUS
  <2>2. q.pc = "store"
    BY <2>1 DEF Ceremony
  <2>3. Proceeds(h, q) \/ Proceeds(h, NoCeremony)
    BY <1>1, <1>5, <2>1 DEF LookUpCredential, Over
  <2> QED
    BY <1>2, <2>2, <2>3, OthersTakeNone
<1>6. CASE FinishPasskeyRegistration(h) \/ FinishPasskeyLogin(h) \/ BreakOff(h)
  BY <1>2, <1>6, OthersTakeNone DEF FinishPasskeyRegistration, FinishPasskeyLogin, BreakOff, Over
<1>7. CASE \E c \in Challenges : OfferLogin(h, c)
  BY <1>2, <1>7, OthersTakeNone DEF OfferLogin, Over
<1> QED
  BY <1>3, <1>4, <1>5, <1>6, <1>7

LEMMA BeginningTakesFresh ==
    ASSUME PasskeysInv, NEW h \in Goroutines,
           \/ \E a \in Owners \cup {Nobody} : BeginPasskeyLogin(h, a)
           \/ \E a \in Owners, c \in Challenges, k \in Keys : BeginFinishRegistration(h, a, c, k)
           \/ \E x \in answers : BeginFinishLogin(h, x)
    PROVE  TakesFresh
<1>1. ASSUME NEW a \in Owners \cup {Nobody}, BeginPasskeyLogin(h, a) PROVE TakesFresh
  <2>1. PICK q : q = [NoCeremony EXCEPT !.pc = "options", !.who = a]
    OBVIOUS
  <2>2. q.pc = "options"
    BY <2>1 DEF NoCeremony
  <2> QED
    BY <1>1, <2>1, <2>2, OthersTakeNone DEF BeginPasskeyLogin
<1>2. ASSUME NEW a \in Owners, NEW c \in Challenges, NEW k \in Keys, BeginFinishRegistration(h, a, c, k)
      PROVE  TakesFresh
  <2>1. PICK q : q = [NoCeremony EXCEPT !.purpose = "registration", !.who = a, !.c = c,
                                        !.k = k, !.n = signed[k]]
    OBVIOUS
  <2>2. signed[k] \in 0 .. MaxSigned
    BY DEF PasskeysInv, PasskeysTypeOK
  <2>3. q \in Ceremony
    BY <2>1, <2>2, NoCeremonyTyped DEF NoCeremony, Ceremony, PasskeyPurposes
  <2> QED
    BY <1>2, <2>1, <2>3, TakesOpen DEF BeginFinishRegistration
<1>3. ASSUME NEW x \in answers, BeginFinishLogin(h, x) PROVE TakesFresh
  <2>1. PICK q : q = [NoCeremony EXCEPT !.purpose = "login", !.c = x.c, !.k = x.k, !.n = x.n]
    OBVIOUS
  <2>2. x \in Answer /\ 1 .. MaxSigned \subseteq 0 .. MaxSigned
    BY PasskeysAssumption DEF PasskeysInv, PasskeysTypeOK
  <2>3. x.c \in Challenges /\ x.k \in Keys /\ x.n \in 0 .. MaxSigned
    BY <2>2 DEF Answer
  <2>4. q \in Ceremony
    BY <2>1, <2>3, NoCeremonyTyped DEF NoCeremony, Ceremony, PasskeyPurposes
  <2> QED
    BY <1>3, <2>1, <2>4, TakesOpen DEF BeginFinishLogin
<1> QED
  BY <1>1, <1>2, <1>3

LEMMA StepTakesFresh == PasskeysInv /\ [PasskeysNext]_passkeyVars => TakesFresh
<1> SUFFICES ASSUME PasskeysInv, [PasskeysNext]_passkeyVars PROVE TakesFresh
  OBVIOUS
<1>1. UNCHANGED ceremony => TakesFresh
  BY DEF TakesFresh
<1>2. ASSUME NEW a \in Owners,
             \/ DeleteOwner(a)
             \/ \E c \in Challenges : BeginPasskeyRegistration(a, c)
             \/ \E k \in Keys : DeletePasskey(a, k)
      PROVE  TakesFresh
  BY <1>1, <1>2 DEF DeleteOwner, BeginPasskeyRegistration, DeletePasskey
<1>3. ASSUME NEW c \in Challenges, ExpireChallenge(c) \/ \E k \in Keys : Sign(k, c)
      PROVE  TakesFresh
  BY <1>1, <1>3 DEF ExpireChallenge, Sign
<1>4. CASE UNCHANGED passkeyVars
  BY <1>1, <1>4 DEF passkeyVars
<1> QED
  BY <1>2, <1>3, <1>4, ServingTakesNone, BeginningTakesFresh DEF PasskeysNext

(* When a sign-in is over, no later request takes its challenge again,     *)
(* although reading and deleting the row are two statements                *)
(* (consumeWebAuthnChallenge).                                             *)
THEOREM NoAnswerAgain == PasskeysSpec => AnsweredStaysClosed
<1>1. PasskeysInv /\ [PasskeysNext]_passkeyVars => TakesFresh
  BY StepTakesFresh
<1> QED
  BY <1>1, PasskeysInvariance, PTL DEF PasskeysSpec, AnsweredStaysClosed, TakesFresh
=============================================================================
