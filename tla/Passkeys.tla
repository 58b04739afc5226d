------------------------------ MODULE Passkeys ------------------------------
(***************************************************************************)
(* Signing in with a passkey: the challenges the site hands out, the       *)
(* credentials it has registered, and the answers authenticators give.     *)
(*                                                                         *)
(* An answer reaches the site late, twice or never.  A request takes its   *)
(* challenge by reading the row and then deleting it, and reads the        *)
(* credential long before it writes the new count of signatures back.      *)
(***************************************************************************)
EXTENDS Naturals

CONSTANTS
    Owners,         \* the users of the site
    Keys,           \* key pairs that authenticators hold (credential ids)
    Challenges,     \* the random values rows of challenges may ever have
    Nobody,         \* no account, challenge or key
    Goroutines,     \* goroutines that serve requests
    MaxSigned,      \* bound: signatures one key gives
    MaxRemovals     \* bound: expiries and deletions

ASSUME PasskeysAssumption ==
    /\ Nobody \notin Owners \cup Challenges \cup Keys
    /\ MaxSigned \in Nat \ {0}
    /\ MaxRemovals \in Nat

VARIABLES
    live,           \* the users that still have a row
    challenge,      \* web_authn_challenges, by value
    credential,     \* passkey_credentials, by credential id
    signed,         \* the count each authenticator keeps for its key
    answers,        \* the signed answers that authenticators have given
    ceremony,       \* the requests being served
    removals,       \* what the bound counts (nothing else reads it)
    answered,       \* history: the challenges of finished sign-ins
    signIns         \* history: what each sign-in rested on

passkeyVars == <<live, challenge, credential, signed, answers, ceremony, removals, answered, signIns>>

PasskeyPurposes == {"registration", "login"}

(* who is the account a challenge was made for; Nobody is NULL.            *)
Challenge == [state: {"unused", "open", "expired", "gone"},
              purpose: PasskeyPurposes, who: Owners \cup {Nobody}]

(* A key that was removed does not come back: every registration makes a   *)
(* new key, with a new credential id.                                      *)
Credential == [owner: Owners \cup {Nobody}, count: 0 .. MaxSigned, kept: BOOLEAN]

Unregistered == [owner |-> Nobody, count |-> 0, kept |-> FALSE]

(* The authenticator signs the challenge and its own count.                *)
Answer == [c: Challenges, k: Keys, n: 1 .. MaxSigned]

Ceremony == [pc: {"idle", "options", "take", "taken", "store", "token"},
             purpose: PasskeyPurposes, who: Owners \cup {Nobody},
             c: Challenges \cup {Nobody}, k: Keys \cup {Nobody}, n: 0 .. MaxSigned,
             copy: Credential, user: Owners \cup {Nobody}]

SignIn == [c: Challenges, k: Keys, who: Owners]

PasskeysTypeOK ==
    /\ live \subseteq Owners
    /\ challenge \in [Challenges -> Challenge]
    /\ credential \in [Keys -> Credential]
    /\ signed \in [Keys -> 0 .. MaxSigned]
    /\ answers \subseteq Answer
    /\ ceremony \in [Goroutines -> Ceremony]
    /\ removals \in 0 .. MaxRemovals
    /\ answered \subseteq Challenges
    /\ signIns \subseteq SignIn

NoCeremony == [pc |-> "idle", purpose |-> "login", who |-> Nobody, c |-> Nobody,
               k |-> Nobody, n |-> 0, copy |-> Unregistered, user |-> Nobody]

PasskeysInit ==
    /\ live = Owners
    /\ challenge = [c \in Challenges |-> [state |-> "unused", purpose |-> "login", who |-> Nobody]]
    /\ credential = [k \in Keys |-> Unregistered]
    /\ signed = [k \in Keys |-> 0]
    /\ answers = {}
    /\ ceremony = [h \in Goroutines |-> NoCeremony]
    /\ removals = 0
    /\ answered = {}
    /\ signIns = {}

Remove == removals < MaxRemovals /\ removals' = removals + 1

Proceeds(h, q) == ceremony' = [ceremony EXCEPT ![h] = q]

Over(h) == Proceeds(h, NoCeremony)

OnlyCeremony == UNCHANGED <<live, challenge, credential, signed, answers, removals, answered, signIns>>

-----------------------------------------------------------------------------
(* Handing out challenges.                                                 *)

(* Rows that have expired are deleted first.                               *)
createWebAuthnChallenge(purpose, who, c) ==
    /\ challenge[c].state = "unused"
    /\ challenge' = [d \in Challenges |->
         CASE d = c -> [state |-> "open", purpose |-> purpose, who |-> who]
           [] d # c /\ challenge[d].state = "expired" -> [challenge[d] EXCEPT !.state = "gone"]
           [] OTHER -> challenge[d]]
    /\ UNCHANGED <<live, credential, signed, answers, removals, answered, signIns>>

BeginPasskeyRegistration(a, c) ==
    /\ a \in live
    /\ createWebAuthnChallenge("registration", a, c)
    /\ UNCHANGED ceremony

(* Named accounts must have a passkey; without a name any account may answer. *)
BeginPasskeyLogin(h, a) ==
    /\ ceremony[h] = NoCeremony
    /\ a # Nobody => a \in live /\ \E k \in Keys : credential[k].kept /\ credential[k].owner = a
    /\ Proceeds(h, [NoCeremony EXCEPT !.pc = "options", !.who = a])
    /\ OnlyCeremony

OfferLogin(h, c) ==
    /\ ceremony[h].pc = "options"
    /\ createWebAuthnChallenge("login", ceremony[h].who, c)
    /\ Over(h)

ExpireChallenge(c) ==
    /\ challenge[c].state = "open"
    /\ challenge' = [challenge EXCEPT ![c].state = "expired"]
    /\ Remove
    /\ UNCHANGED <<live, credential, signed, answers, ceremony, answered, signIns>>

(* The authenticator asks its user and signs.                              *)
Sign(k, c) ==
    /\ signed[k] < MaxSigned
    /\ credential[k].owner # Nobody
    /\ challenge[c].state # "unused" /\ challenge[c].purpose = "login"
    /\ signed' = [signed EXCEPT ![k] = @ + 1]
    /\ answers' = answers \cup {[c |-> c, k |-> k, n |-> signed[k] + 1]}
    /\ UNCHANGED <<live, challenge, credential, ceremony, removals, answered, signIns>>

-----------------------------------------------------------------------------
(* Taking a challenge: it is read, then deleted; a row that is gone by     *)
(* then is no error.                                                       *)

Accepts(c, purpose) == challenge[c].state = "open" /\ challenge[c].purpose = purpose

(* A registration is also refused when the challenge is another account's. *)
Take(h, q) ==
    /\ ceremony[h] = NoCeremony
    /\ Accepts(q.c, q.purpose)
    /\ q.purpose = "registration" => challenge[q.c].who = q.who
    /\ Proceeds(h, [q EXCEPT !.pc = "take",
                            !.who = challenge[q.c].who])
    /\ OnlyCeremony

TakenAndKept(ch, c) == ch                      \* mutant: the row is not deleted

Taken(ch, c) == [ch EXCEPT ![c].state = "gone"]

consumeWebAuthnChallenge(h) ==
    LET q == ceremony[h] IN
    /\ q.pc = "take"
    /\ challenge' = Taken(challenge, q.c)
    /\ Proceeds(h, [q EXCEPT !.pc = "taken"])
    /\ UNCHANGED <<live, credential, signed, answers, removals, answered, signIns>>

-----------------------------------------------------------------------------
(* Registering a key.                                                      *)

BeginFinishRegistration(h, a, c, k) ==
    /\ a \in live
    /\ Take(h, [NoCeremony EXCEPT !.purpose = "registration", !.who = a, !.c = c, !.k = k, !.n = signed[k]])

(* The credential id is unique: a key belongs to one account.              *)
FinishPasskeyRegistration(h) ==
    LET q == ceremony[h] IN
    /\ q.pc = "taken" /\ q.purpose = "registration"
    /\ credential' = IF credential[q.k] = Unregistered
                     THEN [credential EXCEPT ![q.k] = [owner |-> q.who, count |-> q.n, kept |-> TRUE]]
                     ELSE credential
    /\ Over(h)
    /\ UNCHANGED <<live, challenge, signed, answers, removals, answered, signIns>>

DeletePasskey(a, k) ==
    /\ a \in live /\ credential[k].kept /\ credential[k].owner = a
    /\ credential' = [credential EXCEPT ![k].kept = FALSE]
    /\ Remove
    /\ UNCHANGED <<live, challenge, signed, answers, ceremony, answered, signIns>>

-----------------------------------------------------------------------------
(* Signing in.                                                             *)

BeginFinishLogin(h, x) ==
    Take(h, [NoCeremony EXCEPT !.purpose = "login", !.c = x.c, !.k = x.k, !.n = x.n])

BelongsAnyway(q) == TRUE                       \* mutant: the account is not compared

(* A challenge made for an account is not for the key of another one.      *)
Belongs(q) == q.who \in {Nobody, credential[q.k].owner}

(* The row of the key and, Preload, of its owner: an owner whose row is    *)
(* gone is read as the zero value.                                         *)
LookUpCredential(h) ==
    LET q == ceremony[h]
        row == credential[q.k]
    IN
    /\ q.pc = "taken" /\ q.purpose = "login"
    /\ IF row.kept /\ Belongs(q)
       THEN Proceeds(h, [q EXCEPT !.pc = "store", !.copy = row,
                                 !.user = IF row.owner \in live THEN row.owner ELSE Nobody])
       ELSE Over(h)
    /\ OnlyCeremony

(* The count is compared with the copy, and written to the row if it is    *)
(* still there: a row that is gone is no error.                            *)
StoreSignCount(h) ==
    LET q == ceremony[h] IN
    /\ q.pc = "store"
    /\ credential' = IF credential[q.k].kept /\ q.n > q.copy.count
                     THEN [credential EXCEPT ![q.k].count = q.n]
                     ELSE credential
    /\ Proceeds(h, [q EXCEPT !.pc = "token"])
    /\ UNCHANGED <<live, challenge, signed, answers, removals, answered, signIns>>

(* No token is issued for the zero user.                                   *)
FinishPasskeyLogin(h) ==
    LET q == ceremony[h] IN
    /\ q.pc = "token"
    /\ IF q.user = Nobody
       THEN UNCHANGED <<answered, signIns>>
       ELSE /\ answered' = answered \cup {q.c}
            /\ signIns' = signIns \cup {[c |-> q.c, k |-> q.k, who |-> q.user]}
    /\ Over(h)
    /\ UNCHANGED <<live, challenge, credential, signed, answers, removals>>

-----------------------------------------------------------------------------
(* Administrators delete users; the keys of a user stay.                   *)
DeleteOwner(a) ==
    /\ a \in live
    /\ live' = live \ {a}
    /\ Remove
    /\ UNCHANGED <<challenge, credential, signed, answers, ceremony, answered, signIns>>

(* Any statement may fail, and the process may die.                        *)
BreakOff(h) ==
    /\ ceremony[h] # NoCeremony
    /\ Over(h)
    /\ OnlyCeremony

PasskeysNext ==
    \/ \E a \in Owners :
         \/ DeleteOwner(a)
         \/ \E c \in Challenges : BeginPasskeyRegistration(a, c)
         \/ \E k \in Keys : DeletePasskey(a, k)
    \/ \E c \in Challenges : ExpireChallenge(c) \/ \E k \in Keys : Sign(k, c)
    \/ \E h \in Goroutines :
         \/ \E a \in Owners \cup {Nobody} : BeginPasskeyLogin(h, a)
         \/ \E c \in Challenges : OfferLogin(h, c)
         \/ \E a \in Owners, c \in Challenges, k \in Keys : BeginFinishRegistration(h, a, c, k)
         \/ \E x \in answers : BeginFinishLogin(h, x)
         \/ consumeWebAuthnChallenge(h) \/ FinishPasskeyRegistration(h)
         \/ LookUpCredential(h) \/ StoreSignCount(h) \/ FinishPasskeyLogin(h)
         \/ BreakOff(h)

PasskeysSpec == PasskeysInit /\ [][PasskeysNext]_passkeyVars

-----------------------------------------------------------------------------
(* Properties.                                                             *)

(* Whoever is signed in owns the key that answered, which an account       *)
(* registered by a challenge of its own; the answer is to a challenge for  *)
(* sign-ins that was made for this account or for any; and the answer was  *)
(* given by the key itself.  (Two requests with one answer may both be     *)
(* served when they overlap: reading and deleting are two statements.)     *)
SignInsEntitled ==
    \A s \in signIns :
      /\ challenge[s.c].purpose = "login"
      /\ s.who = credential[s.k].owner
      /\ challenge[s.c].who \in {Nobody, credential[s.k].owner}
      /\ \E x \in answers : x.c = s.c /\ x.k = s.k

(* An answer that comes again when a sign-in with its challenge is over is *)
(* refused, however late it comes and whichever request took the row.      *)
AnsweredStaysClosed ==
    [][\A h \in Goroutines :
         ceremony[h].pc = "idle" /\ ceremony'[h].pc = "take" => ceremony'[h].c \notin answered]_passkeyVars
=============================================================================
