----------------------------- MODULE Auth_proofs -----------------------------
(***************************************************************************)
(* Theorems about what is kept of a user: accounts, the login streak and   *)
(* its reminders, e-mail codes, and the plan that is shown.  The modules   *)
(* share no state; each has a section of its own here.                     *)
(***************************************************************************)
EXTENDS Accounts, DailyStreak, EmailCodes, StreakReminders, PlanScreens,
        FiniteSetTheorems, TLAPS

-----------------------------------------------------------------------------
(***************************************************************************)
(* Accounts: sign-ups, links and deletions, for any number of them.        *)
(***************************************************************************)

(* What a sign-up in progress is about to make: an account without a name  *)
(* is a guest's; a code has been drawn for what is inserted at the end of  *)
(* a sign-up, or set after it.                                             *)
Making == {"draw", "insert", "setCode"}

SignUpFits(r) ==
    /\ r.at \in {"draw", "insert"} /\ r.account.name = 0
         => r.account.guest /\ r.account.email = 0
    /\ r.at = "insert" /\ r.op # "google" => r.account.refCode # 0
    /\ r.at = "setCode" => r.op = "google" /\ r.account.refCode # 0

SignUpsFit == \A s \in SignUps : SignUpFits(signUp[s])

(* Without force, the code of an account, and the one a sign-up holds,     *)
(* leads to it.                                                            *)
CodesAreOwned ==
    ~ forced =>
        \A i \in SignUps :
            /\ users[i].refCode # 0 => refOwner[users[i].refCode] = i
            /\ signUp[i].at \in {"insert", "setCode"} /\ signUp[i].account.refCode # 0
                 => refOwner[signUp[i].account.refCode] = i

(* An account without a code is that of a Google sign-in in progress.      *)
CodesArrive ==
    ~ forced /\ ~ broken =>
        \A i \in SignUps :
            Exists(i) /\ users[i].refCode = 0 => signUp[i].at \in {"draw", "setCode"}

(* A sign-up inserts its account once: until then there is none.           *)
NoneYet(r) == r.at \in {"new", "insert"} \/ (r.at = "draw" /\ r.op # "google")
NotInsertedYet == \A s \in SignUps : NoneYet(signUp[s]) => users[s] = NoAccount

AccountInv ==
    /\ AccountTypeOK /\ SignUpsFit /\ NotInsertedYet
    /\ CodesAreOwned /\ CodesArrive /\ OneAccountEach
(* What OneAccountEach says of the accounts u, field by field.             *)
Apart(a, b) ==
    /\ a.name = 0 \/ b.name # a.name
    /\ a.email = 0 \/ b.email # a.email
    /\ a.google = 0 \/ b.google # a.google

NameFits(a) == a # NoAccount /\ a.name = 0 => a.guest = (a.email = 0)

EachApart(u) ==
    \A i \in SignUps : /\ \A j \in SignUps \ {i} : Apart(u[i], u[j])
                       /\ NameFits(u[i])

SignUpType == [op : {"none", "register", "guest", "google"},
               at : {"new", "draw", "insert", "setCode", "answered", "refused"},
               account : Accounts, draws : 0..RefCodeTries,
               id : SignUps \cup {Nowhere}]

LinkType == [at : {"update"}, user : SignUps, email : Addresses] \cup {NoLink}

-----------------------------------------------------------------------------
LEMMA NoAccountIn ==
    /\ NoAccount \in Accounts
    /\ NoAccount.name = 0 /\ NoAccount.email = 0 /\ NoAccount.google = 0
    /\ NoAccount.refCode = 0
BY DEF NoAccount, Accounts

LEMMA UniqueFields ==
    ASSUME NEW a \in Accounts, NEW i
    PROVE  Unique(a, i) <=>
             \A j \in SignUps \ {i} :
                Apart(a, users[j]) /\ (a.refCode = 0 \/ users[j].refCode # a.refCode)
BY DEF Unique, Apart, AuthIndexes, SeedIndexes

LEMMA WithoutCode ==
    ASSUME NEW a \in Accounts
    PROVE  LET b == [a EXCEPT !.refCode = 0] IN
           /\ b \in Accounts /\ b.refCode = 0
           /\ b.name = a.name /\ b.email = a.email /\ b.google = a.google
BY DEF Accounts

LEMMA OneEach ==
    ASSUME users \in [SignUps -> Accounts]
    PROVE  OneAccountEach <=> EachApart(users)
<1> DEFINE b(i) == [users[i] EXCEPT !.refCode = 0]
<1>1. \A i \in SignUps :
        /\ b(i) \in Accounts /\ b(i).refCode = 0
        /\ b(i).name = users[i].name /\ b(i).email = users[i].email
        /\ b(i).google = users[i].google
  BY WithoutCode
<1>2. OneAccountEach <=>
        \A i \in SignUps :
          Unique(b(i), i)
            /\ (Exists(i) /\ users[i].name = 0 => users[i].guest = (users[i].email = 0))
  BY DEF OneAccountEach
<1> HIDE DEF b
<1>3. \A i \in SignUps :
        Unique(b(i), i) <=> \A j \in SignUps \ {i} : Apart(users[i], users[j])
  BY <1>1, UniqueFields DEF Apart
<1> QED BY <1>2, <1>3 DEF EachApart, NameFits, Exists

LEMMA OneEachNext ==
    ASSUME users' \in [SignUps -> Accounts], EachApart(users')
    PROVE  OneAccountEach'
<1> SUFFICES ASSUME NEW i \in SignUps
             PROVE  /\ Unique([users[i] EXCEPT !.refCode = 0], i)'
                    /\ NameFits(users'[i])
  BY DEF OneAccountEach, NameFits, Exists
<1> DEFINE b == [users'[i] EXCEPT !.refCode = 0]
<1>1. /\ b.refCode = 0 /\ b.name = users'[i].name /\ b.email = users'[i].email
      /\ b.google = users'[i].google
  BY WithoutCode
<1> HIDE DEF b
<1>2. \A j \in SignUps \ {i} : \A field \in {"name", "email", "google", "refCode"} :
        b[field] = 0 \/ users'[j][field] # b[field]
  BY <1>1 DEF EachApart, Apart
<1> QED BY <1>2 DEF EachApart, Unique, AuthIndexes, SeedIndexes, b

LEMMA ApartUpdate ==
    ASSUME NEW u \in [SignUps -> Accounts], EachApart(u),
           NEW s \in SignUps, NEW a \in Accounts,
           \A j \in SignUps \ {s} : Apart(a, u[j]), NameFits(a)
    PROVE  EachApart([u EXCEPT ![s] = a])
<1> DEFINE w == [u EXCEPT ![s] = a]
<1>1. \A i \in SignUps : w[i] = IF i = s THEN a ELSE u[i]
  OBVIOUS
<1> HIDE DEF w
<1>2. ASSUME NEW i \in SignUps PROVE NameFits(w[i])
  BY <1>1 DEF EachApart
<1>3. ASSUME NEW i \in SignUps, NEW j \in SignUps \ {i} PROVE Apart(w[i], w[j])
  <2>1. CASE i = s
    BY <1>1, <2>1
  <2>2. CASE j = s
    <3>1. Apart(a, u[i]) /\ w[i] = u[i] /\ w[j] = a
      BY <1>1, <1>3, <2>2
    <3> QED BY <3>1 DEF Apart
  <2>3. CASE i # s /\ j # s
    BY <1>1, <1>3, <2>3 DEF EachApart
  <2> QED BY <2>1, <2>2, <2>3
<1> QED BY <1>2, <1>3 DEF EachApart, w

LEMMA AccountFacts ==
    ASSUME AccountInv
    PROVE  /\ users \in [SignUps -> Accounts] /\ signUp \in [SignUps -> SignUpType]
           /\ refOwner \in [RefCodes -> SignUps \cup {Nowhere}]
           /\ link \in [Links -> LinkType]
           /\ forced \in BOOLEAN /\ broken \in BOOLEAN
           /\ SignUpsFit /\ NotInsertedYet /\ CodesAreOwned /\ CodesArrive
           /\ OneAccountEach /\ EachApart(users)
BY OneEach DEF AccountInv, AccountTypeOK, SignUpType, LinkType

(* The step of a sign-up that changes nothing else, and holds no code.     *)
LEMMA SignUpStep ==
    ASSUME AccountInv, NEW s \in SignUps, NEW r \in SignUpType,
           signUp' = [signUp EXCEPT ![s] = r],
           UNCHANGED <<users, refOwner, link, forced, broken>>,
           SignUpFits(r), NoneYet(r) => NoneYet(signUp[s]),
           r.at \in {"insert", "setCode"} => r.account.refCode = 0,
           signUp[s].at \in {"draw", "setCode"} => r.at \in {"draw", "setCode"}
    PROVE  AccountInv'
<1>1. \A t \in SignUps : signUp'[t] = IF t = s THEN r ELSE signUp[t]
  BY AccountFacts
<1>2. AccountTypeOK'
  <2>1. signUp' \in [SignUps -> SignUpType]
    BY AccountFacts
  <2> QED BY <2>1 DEF AccountInv, AccountTypeOK, SignUpType
<1>3. SignUpsFit'
  BY <1>1, AccountFacts DEF SignUpsFit
<1>7. NotInsertedYet'
  BY <1>1, AccountFacts DEF NotInsertedYet
<1>4. CodesAreOwned'
  BY <1>1, AccountFacts DEF CodesAreOwned
<1>5. CodesArrive'
  BY <1>1, AccountFacts DEF CodesArrive, Exists
<1>6. OneAccountEach'
  BY AccountFacts, OneEachNext
<1> QED BY <1>2, <1>3, <1>4, <1>5, <1>6, <1>7 DEF AccountInv

LEMMA BeginStep ==
    ASSUME AccountInv, NEW s \in SignUps, NEW op \in {"register", "guest", "google"},
           NEW at \in {"draw", "insert"}, NEW a \in Accounts,
           Begin(s, op, at, a), at = "insert" => op = "google",
           a.name = 0 => a.guest /\ a.email = 0, a.refCode = 0
    PROVE  AccountInv'
<1> DEFINE r == [signUp[s] EXCEPT !.op = op, !.at = at, !.account = a]
<1>1. signUp[s] \in SignUpType /\ signUp \in [SignUps -> SignUpType]
  BY AccountFacts
<1>2. r \in SignUpType /\ r.op = op /\ r.at = at /\ r.account = a
  BY <1>1 DEF SignUpType
<1>3. /\ signUp' = [signUp EXCEPT ![s] = r]
      /\ UNCHANGED <<users, refOwner, link, forced, broken>>
      /\ signUp[s].at = "new"
  BY <1>1 DEF Begin, NewSignUp
<1> HIDE DEF r
<1>4. SignUpFits(r) /\ NoneYet(signUp[s])
  BY <1>2, <1>3 DEF SignUpFits, NoneYet
<1> QED BY <1>2, <1>3, <1>4, SignUpStep

LEMMA AnsweredStep ==
    ASSUME AccountInv, NEW s \in SignUps, NEW i \in SignUps, Answered(s, i),
           signUp[s].at \in {"new", "insert"},
           UNCHANGED <<users, refOwner, link, forced, broken>>
    PROVE  AccountInv'
<1> DEFINE r == [signUp[s] EXCEPT !.at = "answered", !.id = i]
<1>1. signUp[s] \in SignUpType /\ signUp \in [SignUps -> SignUpType]
  BY AccountFacts
<1>2. r \in SignUpType /\ r.at = "answered"
  BY <1>1 DEF SignUpType
<1>3. signUp' = [signUp EXCEPT ![s] = r]
  BY <1>1 DEF Answered
<1> HIDE DEF r
<1>4. SignUpFits(r) /\ ~ NoneYet(r)
  BY <1>2 DEF SignUpFits, NoneYet
<1> QED BY <1>2, <1>3, <1>4, SignUpStep

LEMMA RegisterStep ==
    ASSUME AccountInv, NEW s \in SignUps,
           Register(s) \/ GuestLogin(s) \/ GoogleSignIn(s)
    PROVE  AccountInv'
<1>1. CASE Register(s)
  <2>1. PICK n \in Names, e \in Addresses \cup {0} :
          Begin(s, "register", "draw", [NoAccount EXCEPT !.name = n, !.email = e])
    BY <1>1 DEF Register
  <2> DEFINE a == [NoAccount EXCEPT !.name = n, !.email = e]
  <2>2. a \in Accounts /\ a.name = n /\ a.refCode = 0
    BY NoAccountIn DEF Accounts
  <2>3. Begin(s, "register", "draw", a)
    BY <2>1
  <2>4. n # 0
    BY AccountsAssumption
  <2> HIDE DEF a
  <2> QED BY <2>2, <2>3, <2>4, BeginStep
<1>2. CASE GuestLogin(s)
  <2> DEFINE a == [NoAccount EXCEPT !.guest = TRUE]
  <2>1. a \in Accounts /\ a.guest /\ a.email = 0 /\ a.refCode = 0
    BY NoAccountIn DEF Accounts
  <2>2. Begin(s, "guest", "draw", a)
    BY <1>2 DEF GuestLogin
  <2> HIDE DEF a
  <2> QED BY <2>1, <2>2, BeginStep
<1>3. CASE GoogleSignIn(s)
  <2>1. PICK g \in GoogleIds :
         \/ Begin(s, "google", "insert",
                  [NoAccount EXCEPT !.name = GoogleName[g],
                     !.email = GoogleAddress[g], !.google = g])
         \/ \E i \in SignUps :
              /\ signUp[s] = NewSignUp
              /\ Answered(s, i)
              /\ UNCHANGED <<users, refOwner, link, forced, broken>>
    BY <1>3 DEF GoogleSignIn
  <2> DEFINE a == [NoAccount EXCEPT !.name = GoogleName[g],
                     !.email = GoogleAddress[g], !.google = g]
  <2>2. GoogleName[g] \in Names /\ GoogleAddress[g] \in Addresses /\ GoogleName[g] # 0
    BY AccountsAssumption
  <2>3. a \in Accounts /\ a.name = GoogleName[g] /\ a.refCode = 0
    BY <2>2, NoAccountIn DEF Accounts
  <2>4. CASE Begin(s, "google", "insert", a)
    <3> HIDE DEF a
    <3> QED BY <2>2, <2>3, <2>4, BeginStep
  <2>5. CASE \E i \in SignUps :
              /\ signUp[s] = NewSignUp
              /\ Answered(s, i)
              /\ UNCHANGED <<users, refOwner, link, forced, broken>>
    <3>1. NewSignUp.at = "new"
      BY DEF NewSignUp
    <3> QED BY <2>5, <3>1, AnsweredStep
  <2> QED BY <2>1, <2>4, <2>5
<1> QED BY <1>1, <1>2, <1>3

LEMMA DrawStep ==
    ASSUME AccountInv, NEW s \in SignUps, DrawCode(s)
    PROVE  AccountInv'
<1> DEFINE old == signUp[s]
<1>1. old \in SignUpType /\ signUp \in [SignUps -> SignUpType] /\ SignUpFits(old)
  BY AccountFacts DEF SignUpsFit
<1>2. old.at = "draw" /\ UNCHANGED <<users, link, broken>>
  BY DEF DrawCode
<1>3. PICK c \in RefCodes :
         \/ /\ refOwner[c] = Nowhere
            /\ Take(s, c)
            /\ UNCHANGED forced
         \/ /\ old.draws < RefCodeTries
            /\ signUp' = [signUp EXCEPT ![s].draws = @ + 1]
            /\ UNCHANGED <<refOwner, forced>>
         \/ /\ Take(s, c)
            /\ forced' = TRUE
  BY <1>1 DEF DrawCode, SignUpType
<1>4. CASE /\ old.draws < RefCodeTries
           /\ signUp' = [signUp EXCEPT ![s].draws = @ + 1]
           /\ UNCHANGED <<refOwner, forced>>
  <2> DEFINE k == old.draws + 1
             r == [old EXCEPT !.draws = k]
  <2>1. k \in 0..RefCodeTries
    BY <1>1, <1>4, AccountsAssumption DEF SignUpType
  <2>2. signUp' = [signUp EXCEPT ![s] = r]
    BY <1>1, <1>4
  <2> HIDE DEF k
  <2>3. /\ r \in SignUpType /\ r.at = old.at /\ r.op = old.op
        /\ r.account = old.account
    BY <1>1, <2>1 DEF SignUpType
  <2> HIDE DEF r
  <2>4. SignUpFits(r) /\ (NoneYet(r) => NoneYet(old))
    BY <1>1, <2>3 DEF SignUpFits, NoneYet
  <2> QED BY <1>2, <1>4, <2>2, <2>3, <2>4, SignUpStep
<1>5. ASSUME Take(s, c), \/ forced'
                         \/ refOwner[c] = Nowhere /\ UNCHANGED forced,
             forced' \in BOOLEAN
      PROVE  AccountInv'
  <2> DEFINE a == [old.account EXCEPT !.refCode = c]
             at == IF old.op = "google" THEN "setCode" ELSE "insert"
             r == [old EXCEPT !.account = a, !.at = at]
  <2>1. c # 0 /\ c \in RefCodes \cup {0}
    BY AccountsAssumption
  <2>2. old.account \in Accounts
    BY <1>1 DEF SignUpType
  <2>3. /\ a \in Accounts /\ a.refCode = c /\ a.name = old.account.name
        /\ a.guest = old.account.guest /\ a.email = old.account.email
    BY <2>1, <2>2 DEF Accounts
  <2>4. signUp' = [signUp EXCEPT ![s] = r]
    BY <1>1, <1>5 DEF Take
  <2>5. refOwner' = [refOwner EXCEPT ![c] = s]
    BY <1>5 DEF Take
  <2> HIDE DEF a
  <2>6. r \in SignUpType /\ r.at = at /\ r.op = old.op /\ r.account = a
    BY <1>1, <2>3 DEF SignUpType
  <2>7. SignUpFits(r)
    BY <1>1, <1>2, <2>1, <2>3, <2>6 DEF SignUpFits
  <2> HIDE DEF r
  <2>8. \A t \in SignUps : signUp'[t] = IF t = s THEN r ELSE signUp[t]
    BY <1>1, <2>4
  <2>9. \A d \in RefCodes : refOwner'[d] = IF d = c THEN s ELSE refOwner[d]
    BY <2>5, AccountFacts
  <2>10. AccountTypeOK'
    <3>1. signUp' \in [SignUps -> SignUpType]
      BY <1>1, <2>4, <2>6
    <3>2. refOwner' \in [RefCodes -> SignUps \cup {Nowhere}]
      BY <2>5, AccountFacts
    <3> QED BY <1>2, <1>5, <3>1, <3>2 DEF AccountInv, AccountTypeOK, SignUpType
  <2>11. SignUpsFit'
    BY <2>7, <2>8, AccountFacts DEF SignUpsFit
  <2>12. CodesAreOwned'
    <3> SUFFICES ASSUME ~ forced', NEW i \in SignUps
        PROVE  /\ users[i].refCode # 0 => refOwner'[users[i].refCode] = i
               /\ signUp'[i].at \in {"insert", "setCode"} /\ signUp'[i].account.refCode # 0
                    => refOwner'[signUp'[i].account.refCode] = i
      BY <1>2 DEF CodesAreOwned
    <3>1. ~ forced /\ refOwner[c] = Nowhere
      BY <1>5
    <3>2. /\ users[i].refCode # 0 => refOwner[users[i].refCode] = i
          /\ signUp[i].at \in {"insert", "setCode"} /\ signUp[i].account.refCode # 0
               => refOwner[signUp[i].account.refCode] = i
      BY <3>1, AccountFacts DEF CodesAreOwned
    <3>3. /\ users[i].refCode \in RefCodes \cup {0}
          /\ signUp[i].account.refCode \in RefCodes \cup {0}
      <4>1. users[i] \in Accounts /\ signUp[i] \in SignUpType
        BY AccountFacts
      <4>2. signUp[i].account \in Accounts
        BY <4>1 DEF SignUpType
      <4> QED BY <4>1, <4>2 DEF Accounts
    <3>4. i # Nowhere
      BY AccountsAssumption
    <3>5. users[i].refCode # 0 => refOwner'[users[i].refCode] = i
      BY <2>9, <3>1, <3>2, <3>3, <3>4
    <3>6. CASE i = s
      BY <2>3, <2>6, <2>8, <2>9, <3>5, <3>6
    <3>7. CASE i # s
      BY <2>8, <2>9, <3>1, <3>2, <3>3, <3>4, <3>5, <3>7
    <3> QED BY <3>6, <3>7
  <2>13. CodesArrive'
    <3> SUFFICES ASSUME ~ forced', ~ broken, NEW i \in SignUps,
                        users[i] # NoAccount, users[i].refCode = 0
                 PROVE  signUp'[i].at \in {"draw", "setCode"}
      BY <1>2 DEF CodesArrive, Exists
    <3>1. signUp[i].at \in {"draw", "setCode"} /\ ~ forced
      BY <1>5, AccountFacts DEF CodesArrive, Exists
    <3>2. i = s => old.op = "google"
      BY <1>2, AccountFacts DEF NotInsertedYet, NoneYet
    <3> QED BY <2>6, <2>8, <3>1, <3>2
  <2>14. OneAccountEach'
    BY <1>2, AccountFacts, OneEachNext
  <2>15. NotInsertedYet'
    <3>1. NoneYet(r) => NoneYet(old)
      BY <1>2, <2>6 DEF NoneYet
    <3> QED BY <1>2, <2>8, <3>1, AccountFacts DEF NotInsertedYet
  <2> QED BY <2>10, <2>11, <2>12, <2>13, <2>14, <2>15 DEF AccountInv
<1>6. forced \in BOOLEAN
  BY AccountFacts
<1> QED BY <1>3, <1>4, <1>5, <1>6
LEMMA InsertStep ==
    ASSUME AccountInv, NEW s \in SignUps, InsertAccount(s)
    PROVE  AccountInv'
<1> DEFINE old == signUp[s]
           a == old.account
<1>1. /\ old \in SignUpType /\ signUp \in [SignUps -> SignUpType] /\ SignUpFits(old)
      /\ old.at = "insert" /\ UNCHANGED <<refOwner, link, forced, broken>>
  BY AccountFacts DEF SignUpsFit, InsertAccount
<1>2. CASE ~ Unique(a, s)
  <2> DEFINE r == [old EXCEPT !.at = "refused"]
  <2>1. UNCHANGED users /\ signUp' = [signUp EXCEPT ![s] = r]
    BY <1>1, <1>2 DEF InsertAccount, Proceed
  <2>2. r \in SignUpType /\ r.at = "refused"
    BY <1>1 DEF SignUpType
  <2> HIDE DEF r
  <2>3. SignUpFits(r) /\ ~ NoneYet(r)
    BY <2>2 DEF SignUpFits, NoneYet
  <2> QED BY <1>1, <2>1, <2>2, <2>3, SignUpStep
<1>3. CASE Unique(a, s)
  <2>1. users' = [users EXCEPT ![s] = a]
    BY <1>3 DEF InsertAccount
  <2>2. PICK r \in SignUpType :
          /\ signUp' = [signUp EXCEPT ![s] = r]
          /\ r.at = IF old.op = "google" THEN "draw" ELSE "answered"
          /\ r.op = old.op /\ r.account = old.account
    <3> DEFINE d == [old EXCEPT !.at = "draw"]
               e == [old EXCEPT !.at = "answered", !.id = s]
    <3>1. /\ d \in SignUpType /\ d.at = "draw" /\ d.op = old.op /\ d.account = old.account
          /\ e \in SignUpType /\ e.at = "answered" /\ e.op = old.op
          /\ e.account = old.account
      BY <1>1 DEF SignUpType
    <3>2. signUp' = [signUp EXCEPT ![s] = IF old.op = "google" THEN d ELSE e]
      BY <1>1, <1>3 DEF InsertAccount, Proceed, Answered
    <3> HIDE DEF d, e
    <3> QED BY <3>1, <3>2
  <2>3. a \in Accounts
    BY <1>1 DEF SignUpType
  <2>4. /\ \A t \in SignUps : signUp'[t] = IF t = s THEN r ELSE signUp[t]
        /\ \A t \in SignUps : users'[t] = IF t = s THEN a ELSE users[t]
        /\ users' \in [SignUps -> Accounts] /\ signUp' \in [SignUps -> SignUpType]
    BY <1>1, <2>1, <2>2, <2>3, AccountFacts
  <2>5. AccountTypeOK'
    BY <1>1, <2>4 DEF AccountInv, AccountTypeOK, SignUpType
  <2>6. SignUpsFit'
    <3>1. SignUpFits(r)
      BY <1>1, <2>2 DEF SignUpFits
    <3> QED BY <2>4, <3>1, AccountFacts DEF SignUpsFit
  <2>7. NotInsertedYet'
    <3>1. ~ NoneYet(r)
      BY <2>2 DEF NoneYet
    <3> QED BY <2>4, <3>1, AccountFacts DEF NotInsertedYet
  <2>8. CodesAreOwned'
    <3> SUFFICES ASSUME ~ forced, NEW i \in SignUps
        PROVE  /\ users'[i].refCode # 0 => refOwner[users'[i].refCode] = i
               /\ signUp'[i].at \in {"insert", "setCode"} /\ signUp'[i].account.refCode # 0
                    => refOwner[signUp'[i].account.refCode] = i
      BY <1>1 DEF CodesAreOwned
    <3>1. /\ users[i].refCode # 0 => refOwner[users[i].refCode] = i
          /\ signUp[i].at \in {"insert", "setCode"} /\ signUp[i].account.refCode # 0
               => refOwner[signUp[i].account.refCode] = i
      BY AccountFacts DEF CodesAreOwned
    <3>2. CASE i = s
      BY <1>1, <2>2, <2>4, <3>1, <3>2
    <3>3. CASE i # s
      BY <2>4, <3>1, <3>3
    <3> QED BY <3>2, <3>3
  <2>9. CodesArrive'
    <3> SUFFICES ASSUME ~ forced, ~ broken, NEW i \in SignUps,
                        users'[i] # NoAccount, users'[i].refCode = 0
                 PROVE  signUp'[i].at \in {"draw", "setCode"}
      BY <1>1 DEF CodesArrive, Exists
    <3>1. CASE i = s
      BY <1>1, <2>2, <2>4, <3>1 DEF SignUpFits
    <3>2. CASE i # s
      BY <2>4, <3>2, AccountFacts DEF CodesArrive, Exists
    <3> QED BY <3>1, <3>2
  <2>10. OneAccountEach'
    <3>1. \A j \in SignUps \ {s} : Apart(a, users[j])
      BY <1>3, <2>3, UniqueFields
    <3>2. NameFits(a)
      <4>1. a.guest \in BOOLEAN
        BY <2>3 DEF Accounts
      <4>2. a.name = 0 => a.guest /\ a.email = 0
        BY <1>1 DEF SignUpFits
      <4> HIDE DEF a
      <4> QED BY <4>1, <4>2 DEF NameFits
    <3> HIDE DEF a
    <3>3. EachApart(users')
      BY <2>1, <2>3, <3>1, <3>2, AccountFacts, ApartUpdate
    <3> QED BY <2>4, <3>3, OneEachNext
  <2> QED BY <2>5, <2>6, <2>7, <2>8, <2>9, <2>10 DEF AccountInv
<1> QED BY <1>2, <1>3

LEMMA SetCodeStep ==
    ASSUME AccountInv, NEW s \in SignUps, SetReferralCode(s)
    PROVE  AccountInv'
<1> DEFINE old == signUp[s]
           c == old.account.refCode
           a == [users[s] EXCEPT !.refCode = c]
           r == [old EXCEPT !.at = "answered", !.id = s]
           n == [NoAccount EXCEPT !.refCode = c]
           ok == Exists(s) /\ Unique(n, s)
<1>1. /\ old \in SignUpType /\ signUp \in [SignUps -> SignUpType] /\ SignUpFits(old)
      /\ old.at = "setCode" /\ UNCHANGED <<refOwner, link, forced>>
      /\ signUp' = [signUp EXCEPT ![s] = r]
      /\ \/ /\ users' = IF ok THEN [users EXCEPT ![s].refCode = c] ELSE users
            /\ UNCHANGED broken
         \/ /\ broken' = TRUE
            /\ UNCHANGED users
  BY AccountFacts DEF SignUpsFit, SetReferralCode, Answered
<1>2. old.account \in Accounts /\ c \in RefCodes \cup {0} /\ c # 0 /\ users[s] \in Accounts
  <2>1. old.account \in Accounts
    BY <1>1 DEF SignUpType
  <2>2. c # 0
    BY <1>1 DEF SignUpFits
  <2> QED BY <2>1, <2>2, AccountFacts DEF Accounts
<1>3. /\ a \in Accounts /\ a.refCode = c /\ a.name = users[s].name
      /\ a.email = users[s].email /\ a.google = users[s].google
      /\ a.guest = users[s].guest
      /\ n \in Accounts /\ n.refCode = c
      /\ n.name = 0 /\ n.email = 0 /\ n.google = 0
  <2> HIDE DEF c
  <2> QED BY <1>2, NoAccountIn DEF Accounts
<1>4. r \in SignUpType /\ r.at = "answered"
  BY <1>1 DEF SignUpType
<1>5. \/ ok /\ users' = [users EXCEPT ![s] = a] /\ UNCHANGED broken
      \/ ~ ok /\ UNCHANGED <<users, broken>>
      \/ broken' = TRUE /\ UNCHANGED users
  BY <1>1, AccountFacts
<1> HIDE DEF r, n, a
<1>6. \A t \in SignUps : signUp'[t] = IF t = s THEN r ELSE signUp[t]
  BY <1>1
<1>7. users' \in [SignUps -> Accounts] /\ signUp' \in [SignUps -> SignUpType]
      /\ broken' \in BOOLEAN
  BY <1>1, <1>3, <1>4, <1>5, AccountFacts
<1>8. /\ \A t \in SignUps : users'[t] = users[t] \/ (t = s /\ Exists(s) /\ users'[t] = a)
  BY <1>3, <1>5, AccountFacts
<1>9. AccountTypeOK'
  BY <1>1, <1>7 DEF AccountInv, AccountTypeOK, SignUpType
<1>10. SignUpsFit'
  BY <1>4, <1>6, AccountFacts DEF SignUpsFit, SignUpFits
<1>11. NotInsertedYet'
  BY <1>4, <1>6, <1>8, AccountFacts DEF NotInsertedYet, NoneYet
<1>12. CodesAreOwned'
  <2> SUFFICES ASSUME ~ forced, NEW i \in SignUps
      PROVE  /\ users'[i].refCode # 0 => refOwner[users'[i].refCode] = i
             /\ signUp'[i].at \in {"insert", "setCode"} /\ signUp'[i].account.refCode # 0
                  => refOwner[signUp'[i].account.refCode] = i
    BY <1>1 DEF CodesAreOwned
  <2>1. /\ users[i].refCode # 0 => refOwner[users[i].refCode] = i
        /\ signUp[i].at \in {"insert", "setCode"} /\ signUp[i].account.refCode # 0
             => refOwner[signUp[i].account.refCode] = i
    BY AccountFacts DEF CodesAreOwned
  <2>2. i = s => refOwner[c] = s
    BY <1>1, <1>2, <2>1
  <2> QED BY <1>3, <1>4, <1>6, <1>8, <2>1, <2>2
<1>13. CodesArrive'
  <2> SUFFICES ASSUME ~ forced, ~ broken', NEW i \in SignUps,
                      users'[i] # NoAccount, users'[i].refCode = 0
               PROVE  signUp'[i].at \in {"draw", "setCode"}
    BY <1>1 DEF CodesArrive, Exists
  <2>1. ~ broken
    BY <1>5
  <2>2. CASE i # s
    BY <1>6, <1>8, <2>1, <2>2, AccountFacts DEF CodesArrive, Exists
  <2>3. CASE i = s
    <3>1. refOwner[c] = s
      BY <1>1, <1>2, AccountFacts DEF CodesAreOwned
    <3>2. \A j \in SignUps \ {s} : users[j].refCode # c
      BY <1>2, <3>1, AccountFacts DEF CodesAreOwned
    <3>3. Unique(n, s)
      BY <1>3, <3>2, UniqueFields DEF Apart
    <3>4. users' = [users EXCEPT ![s] = a] \/ (~ Exists(s) /\ UNCHANGED users)
      BY <1>5, <3>3
    <3> QED BY <1>2, <1>3, <2>3, <3>4, AccountFacts DEF Exists
  <2> QED BY <2>2, <2>3
<1>14. OneAccountEach'
  <2>1. CASE UNCHANGED users
    BY <1>7, <2>1, AccountFacts, OneEachNext
  <2>2. CASE Exists(s) /\ users' = [users EXCEPT ![s] = a]
    <3>1. \A j \in SignUps \ {s} : Apart(a, users[j])
      BY <1>3, AccountFacts DEF EachApart, Apart
    <3>2. NameFits(a)
      BY <1>3, <2>2, AccountFacts DEF EachApart, NameFits, Exists
    <3>3. EachApart(users')
      BY <1>3, <2>2, <3>1, <3>2, AccountFacts, ApartUpdate
    <3> QED BY <1>7, <3>3, OneEachNext
  <2> QED BY <1>5, <2>1, <2>2
<1> QED BY <1>9, <1>10, <1>11, <1>12, <1>13, <1>14 DEF AccountInv

-----------------------------------------------------------------------------
(* An account that is there changes, or goes, and keeps its code or loses  *)
(* it with everything else.                                                *)
LEMMA AccountStep ==
    ASSUME AccountInv, NEW u \in SignUps, NEW a \in Accounts, Exists(u),
           users' = [users EXCEPT ![u] = a],
           a = NoAccount \/ a.refCode = users[u].refCode,
           \A j \in SignUps \ {u} : Apart(a, users[j]), NameFits(a),
           UNCHANGED <<refOwner, signUp, forced, broken>>,
           link' \in [Links -> LinkType]
    PROVE  AccountInv'
<1>1. /\ \A t \in SignUps : users'[t] = IF t = u THEN a ELSE users[t]
      /\ users' \in [SignUps -> Accounts]
  BY AccountFacts
<1>2. AccountTypeOK'
  BY <1>1 DEF AccountInv, AccountTypeOK, LinkType
<1>3. SignUpsFit'
  BY AccountFacts DEF SignUpsFit
<1>4. NotInsertedYet'
  BY <1>1, AccountFacts DEF NotInsertedYet, Exists
<1>5. CodesAreOwned'
  BY <1>1, NoAccountIn, AccountFacts DEF CodesAreOwned
<1>6. CodesArrive'
  BY <1>1, NoAccountIn, AccountFacts DEF CodesArrive, Exists
<1>7. EachApart(users')
  BY AccountFacts, ApartUpdate
<1>8. OneAccountEach'
  BY <1>1, <1>7, OneEachNext
<1> QED BY <1>2, <1>3, <1>4, <1>5, <1>6, <1>8 DEF AccountInv

(* Nothing but the links, or the account of none, changes.                 *)
LEMMA LinksStep ==
    ASSUME AccountInv, UNCHANGED <<users, refOwner, signUp, forced, broken>>,
           link' \in [Links -> LinkType]
    PROVE  AccountInv'
<1>1. AccountTypeOK'
  BY DEF AccountInv, AccountTypeOK, LinkType
<1>2. SignUpsFit' /\ NotInsertedYet' /\ CodesAreOwned' /\ CodesArrive'
  BY AccountFacts DEF SignUpsFit, NotInsertedYet, CodesAreOwned, CodesArrive, Exists
<1>3. OneAccountEach'
  BY AccountFacts, OneEachNext
<1> QED BY <1>1, <1>2, <1>3 DEF AccountInv

LEMMA LinkStep ==
    ASSUME AccountInv, NEW l \in Links,
           \/ \E u \in SignUps, e \in Addresses : LinkEmail(l, u, e)
           \/ LinkUpdate(l)
    PROVE  AccountInv'
<1>1. ASSUME NEW u \in SignUps, NEW e \in Addresses, LinkEmail(l, u, e)
      PROVE  AccountInv'
  <2> DEFINE r == [at |-> "update", user |-> u, email |-> e]
  <2>1. r \in LinkType
    BY DEF LinkType
  <2>2. link' = [link EXCEPT ![l] = r]
        /\ UNCHANGED <<users, refOwner, signUp, forced, broken>>
    BY <1>1 DEF LinkEmail
  <2> HIDE DEF r
  <2> QED BY <2>1, <2>2, AccountFacts, LinksStep
<1>2. CASE LinkUpdate(l)
  <2> DEFINE u == link[l].user
             e == link[l].email
             a == [users[u] EXCEPT !.email = e, !.guest = FALSE]
  <2>1. /\ link[l] \in LinkType /\ link[l].at = "update"
        /\ UNCHANGED <<refOwner, signUp, forced, broken>>
        /\ link' = [link EXCEPT ![l] = NoLink]
    BY <1>2, AccountFacts DEF LinkUpdate
  <2>2. u \in SignUps /\ e \in Addresses
    BY <2>1 DEF LinkType, NoLink
  <2>3. link' \in [Links -> LinkType]
    BY <2>1, AccountFacts DEF LinkType
  <2>4. CASE Exists(u) /\ Unique(a, u)
    <3>1. users' = [users EXCEPT ![u] = a]
      BY <1>2, <2>4 DEF LinkUpdate
    <3>2. users[u] \in Accounts /\ e # 0
      BY <2>2, AccountFacts, AccountsAssumption
    <3> HIDE DEF e
    <3>3. /\ a \in Accounts /\ a.refCode = users[u].refCode
          /\ a.guest = FALSE /\ a.email = e
      BY <2>2, <3>2 DEF Accounts
    <3>4. \A j \in SignUps \ {u} : Apart(a, users[j])
      BY <2>4, <3>3, UniqueFields
    <3> HIDE DEF a, u
    <3>5. NameFits(a)
      BY <3>2, <3>3 DEF NameFits
    <3> QED BY <2>1, <2>2, <2>3, <2>4, <3>1, <3>3, <3>4, <3>5, AccountStep
  <2>5. CASE ~ (Exists(u) /\ Unique(a, u))
    <3>1. UNCHANGED users
      BY <1>2, <2>5 DEF LinkUpdate
    <3> QED BY <2>1, <2>3, <3>1, LinksStep
  <2> QED BY <2>4, <2>5
<1> QED BY <1>1, <1>2

LEMMA DeleteStep ==
    ASSUME AccountInv, NEW u \in SignUps, DeleteAccount(u)
    PROVE  AccountInv'
<1>1. /\ Exists(u) /\ users' = [users EXCEPT ![u] = NoAccount]
      /\ UNCHANGED <<refOwner, signUp, link, forced, broken>>
  BY DEF DeleteAccount
<1>2. (\A j \in SignUps \ {u} : Apart(NoAccount, users[j])) /\ NameFits(NoAccount)
  BY NoAccountIn DEF Apart, NameFits
<1>3. link' \in [Links -> LinkType]
  BY <1>1, AccountFacts
<1> QED BY <1>1, <1>2, <1>3, NoAccountIn, AccountStep

LEMMA CrashAccountsStep == AccountInv /\ CrashAccounts => AccountInv'
<1> SUFFICES ASSUME AccountInv, CrashAccounts PROVE AccountInv'
  OBVIOUS
<1> DEFINE r(s) == IF signUp[s].at \in {"draw", "insert", "setCode"}
                     THEN [signUp[s] EXCEPT !.at = "refused"] ELSE signUp[s]
<1>1. /\ signUp' = [s \in SignUps |-> r(s)] /\ link' = [l \in Links |-> NoLink]
      /\ broken' = TRUE /\ UNCHANGED <<users, refOwner, forced>>
  BY DEF CrashAccounts
<1>2. \A s \in SignUps :
        /\ r(s) \in SignUpType
        /\ r(s) = signUp[s] \/ r(s).at = "refused"
        /\ r(s).at \notin {"draw", "insert", "setCode"}
  <2> TAKE s \in SignUps
  <2>1. signUp[s] \in SignUpType
    BY AccountFacts
  <2> QED BY <2>1 DEF SignUpType
<1> HIDE DEF r
<1>3. AccountTypeOK'
  <2>1. signUp' \in [SignUps -> SignUpType]
    BY <1>1, <1>2
  <2>2. link' \in [Links -> LinkType]
    BY <1>1 DEF LinkType
  <2> QED BY <1>1, <2>1, <2>2 DEF AccountInv, AccountTypeOK, SignUpType, LinkType
<1>4. \A s \in SignUps : signUp'[s] = r(s)
  BY <1>1
<1>5. SignUpsFit'
  BY <1>2, <1>4 DEF SignUpsFit, SignUpFits
<1>6. NotInsertedYet'
  BY <1>1, <1>2, <1>4, AccountFacts DEF NotInsertedYet, NoneYet
<1>7. CodesAreOwned' /\ CodesArrive'
  BY <1>1, <1>2, <1>4, AccountFacts DEF CodesAreOwned, CodesArrive
<1>8. OneAccountEach'
  BY <1>1, AccountFacts, OneEachNext
<1> QED BY <1>3, <1>5, <1>6, <1>7, <1>8 DEF AccountInv

LEMMA AccountInit_Inv == AccountInit => AccountInv
<1> SUFFICES ASSUME AccountInit PROVE AccountInv
  OBVIOUS
<1>1. /\ \A s \in SignUps : users[s] = NoAccount /\ signUp[s] = NewSignUp
      /\ NewSignUp.at = "new"
  BY DEF AccountInit, NewSignUp
<1>2. NewSignUp \in SignUpType
  BY NoAccountIn, AccountsAssumption DEF NewSignUp, SignUpType
<1>3. users \in [SignUps -> Accounts]
  BY NoAccountIn DEF AccountInit
<1>4. AccountTypeOK
  BY <1>2, <1>3 DEF AccountInit, AccountTypeOK, SignUpType
<1>5. SignUpsFit /\ NotInsertedYet
  BY <1>1 DEF SignUpsFit, SignUpFits, NotInsertedYet
<1>6. CodesAreOwned /\ CodesArrive
  BY <1>1, NoAccountIn DEF CodesAreOwned, CodesArrive, Exists
<1>7. EachApart(users)
  BY <1>1, NoAccountIn DEF EachApart, Apart, NameFits
<1>8. OneAccountEach
  BY <1>3, <1>7, OneEach
<1> QED BY <1>4, <1>5, <1>6, <1>8 DEF AccountInv

(* However sign-ups, links, deletions and crashes cross: a name, an        *)
(* address and a Google account lead to one account; while no code was     *)
(* taken by force an account's code leads to it, and an account has a code *)
(* when no sign-up is in progress, unless auth stopped or an update failed *)
(* (Register, GuestLogin, GoogleSignIn, LinkEmail, DeleteAccount).         *)
THEOREM AccountsStayApart == AccountSpec => []AccountSafety
<1>1. AccountInit => AccountInv
  BY AccountInit_Inv
<1>2. AccountInv /\ [AccountNext]_accountVars => AccountInv'
  <2> SUFFICES ASSUME AccountInv, [AccountNext]_accountVars PROVE AccountInv'
    OBVIOUS
  <2>1. ASSUME NEW s \in SignUps, \/ Register(s) \/ GuestLogin(s) \/ GoogleSignIn(s)
                                  \/ DrawCode(s) \/ InsertAccount(s)
                                  \/ SetReferralCode(s)
        PROVE  AccountInv'
    BY <2>1, RegisterStep, DrawStep, InsertStep, SetCodeStep
  <2>2. ASSUME NEW l \in Links, \/ \E u \in SignUps, e \in Addresses : LinkEmail(l, u, e)
                                \/ LinkUpdate(l)
        PROVE  AccountInv'
    BY <2>2, LinkStep
  <2>3. ASSUME NEW u \in SignUps, DeleteAccount(u) PROVE AccountInv'
    BY <2>3, DeleteStep
  <2>4. CASE CrashAccounts
    BY <2>4, CrashAccountsStep
  <2>5. CASE UNCHANGED accountVars
    <3>1. UNCHANGED <<users, refOwner, signUp, forced, broken, link>>
      BY <2>5 DEF accountVars
    <3> QED BY <3>1, AccountFacts, LinksStep
  <2> QED BY <2>1, <2>2, <2>3, <2>4, <2>5 DEF AccountNext
<1>3. AccountInv => AccountSafety
  <2> SUFFICES ASSUME AccountInv PROVE CodeLeadsToItsAccount
    BY DEF AccountInv, AccountSafety
  <2> QED BY AccountFacts DEF CodeLeadsToItsAccount, CodesAreOwned, CodesArrive
<1> QED BY <1>1, <1>2, <1>3, PTL DEF AccountSpec

-----------------------------------------------------------------------------
(***************************************************************************)
(* DailyStreak: one user's logins and claims, any number at once.          *)
(***************************************************************************)

(* Whatever happens at midnight: a date kept in the streak, or by a        *)
(* request, is that of a login, and a reward is only about to be granted   *)
(* for such a day.                                                         *)
KeepsLoginDates(r) ==
    /\ r.at \in {"compute", "write", "grant"} => r.today \in Days
    /\ r.at # "write" => r.seen.last \in loginDays \cup {Never}
    /\ r.at = "write" => r.seen.last = r.today
    /\ r.at = "grant" => r.today \in loginDays

DatesAreLogins ==
    /\ streak.last \in loginDays \cup {Never}
    /\ \A v \in Visits : KeepsLoginDates(visit[v])

(* When no request was in progress at midnight, each is of today, and has  *)
(* read the streak as it is now, unless today's login was written since.   *)
IsOfToday(r) ==
    /\ r.at \in {"compute", "write", "grant"} => r.today = day
    /\ r.at \in {"date", "compute"} /\ streak.last # day => r.seen = streak
    /\ r.at = "write" /\ streak.last # day
         => r.seen = Continued(streak, day, day - 1)
    /\ r.at \in {"claimDate", "grant"} /\ r.seen.last = day
         => streak.last = day /\ r.seen.current = streak.current
    /\ r.at = "grant" => r.seen.last = day

StreakIsOfToday ==
    /\ loginDays \subseteq 1..day
    /\ loginDays = {} => streak.last = Never /\ streak.longest = 0
    /\ loginDays # {} => streak.last # Never
    /\ granted[day] # <<>> => streak.last = day /\ streak.claimed = day
    /\ \A d \in Days : d > day => granted[d] = <<>>

RequestsAreOfToday ==
    ~ late => StreakIsOfToday /\ \A v \in Visits : IsOfToday(visit[v])

StreakInv == StreakSafety /\ DatesAreLogins /\ RequestsAreOfToday

-----------------------------------------------------------------------------
(* The days in a row that end with day d, of a set of days.                *)
Row(L, d) == {n \in 1..d : n..d \subseteq L}
Run(L, d) == Cardinality(Row(L, d))

LEMMA RunIsRow == \A d : RunTo(d) = Run(loginDays, d)
BY DEF RunTo, Run, Row

LEMMA RowFinite ==
    ASSUME NEW L, NEW d \in Int
    PROVE  IsFiniteSet(Row(L, d)) /\ Cardinality(Row(L, d)) \in Nat
<1>1. IsFiniteSet(1..d)
  BY FS_Interval
<1>2. IsFiniteSet(Row(L, d))
  BY <1>1, FS_Subset DEF Row
<1> QED BY <1>2, FS_CardinalityType

(* A day without a login ends no row.                                      *)
LEMMA RowWithout ==
    ASSUME NEW L, NEW d \in Int, d \notin L
    PROVE  Cardinality(Row(L, d)) = 0
<1>1. Row(L, d) = {}
  <2> SUFFICES ASSUME NEW n \in Row(L, d) PROVE FALSE
    OBVIOUS
  <2>1. n \in 1..d /\ n..d \subseteq L
    BY DEF Row
  <2>2. d \in n..d
    BY <2>1
  <2> QED BY <2>1, <2>2
<1> QED BY <1>1, FS_EmptySet

(* A day with a login makes the row of the day before one longer.          *)
LEMMA RowGrows ==
    ASSUME NEW L, NEW d \in Nat \ {0}, d \in L
    PROVE  Cardinality(Row(L, d)) = Cardinality(Row(L, d - 1)) + 1
<1>1. Row(L, d) = Row(L, d - 1) \cup {d}
  <2>1. ASSUME NEW n \in Row(L, d), n # d PROVE n \in Row(L, d - 1)
    BY <2>1 DEF Row
  <2>2. ASSUME NEW n \in Row(L, d - 1) PROVE n \in Row(L, d)
    <3>1. n \in 1..(d - 1) /\ n..(d - 1) \subseteq L
      BY <2>2 DEF Row
    <3>2. ASSUME NEW m \in n..d PROVE m \in L
      <4>1. m = d \/ m \in n..(d - 1)
        BY <3>1
      <4> QED BY <3>1, <4>1
    <3> QED BY <3>1, <3>2 DEF Row
  <2>3. d \in Row(L, d)
    <3>1. d \in 1..d /\ d..d = {d}
      OBVIOUS
    <3> QED BY <3>1 DEF Row
  <2> QED BY <2>1, <2>2, <2>3
<1>2. d \notin Row(L, d - 1)
  BY DEF Row
<1>3. IsFiniteSet(Row(L, d - 1))
  BY RowFinite
<1> QED BY <1>1, <1>2, <1>3, FS_AddElement

(* A later login leaves the row of a day alone.                            *)
LEMMA RowStays ==
    ASSUME NEW L, NEW e \in Int, NEW d \in Int, d < e
    PROVE  Row(L \cup {e}, d) = Row(L, d)
BY DEF Row

-----------------------------------------------------------------------------
LEMMA VisitIn ==
    ASSUME NEW a \in VisitAt, NEW s \in Streak, NEW t \in DayOrNever
    PROVE  [at |-> a, seen |-> s, today |-> t] \in Visit
BY DEF Visit

LEMMA ContinuedFields ==
    ASSUME NEW s \in Streak, NEW t \in Days, NEW y
    PROVE  /\ Continued(s, t, y) \in Streak
           /\ Continued(s, t, y).last = t
           /\ Continued(s, t, y).claimed = s.claimed
           /\ Continued(s, t, y).current = IF s.last = y THEN s.current + 1 ELSE 1
           /\ Continued(s, t, y).longest = IF s.last = y /\ s.current + 1 > s.longest
                                             THEN s.current + 1 ELSE s.longest
<1>1. t \in DayOrNever
  BY DEF DayOrNever
<1>2. CASE s.last = y
  <2> DEFINE m == Later(s.longest, s.current + 1)
  <2>1. /\ m = IF s.current + 1 > s.longest THEN s.current + 1 ELSE s.longest
        /\ s.current \in Nat /\ s.longest \in Nat
    BY DEF Later, Streak
  <2> DEFINE k == s.current + 1
             c == [s EXCEPT !.current = k, !.longest = m, !.last = t]
  <2>4. Continued(s, t, y) = c
    BY <1>2 DEF Continued
  <2> HIDE DEF m
  <2>3. m \in Nat
    BY <2>1
  <2>5. k \in Nat
    BY <2>1
  <2> HIDE DEF k
  <2>6. /\ c \in Streak
        /\ c.current = k /\ c.longest = m /\ c.last = t /\ c.claimed = s.claimed
    BY <1>1, <2>3, <2>5 DEF Streak
  <2> QED BY <1>2, <2>1, <2>4, <2>6 DEF k
<1>3. CASE s.last # y
  BY <1>1, <1>3 DEF Continued, Streak
<1> QED BY <1>2, <1>3

LEMMA NewStreakIn == NewStreak \in Streak /\ NewStreak.last = Never
BY DEF NewStreak, Streak, DayOrNever

LEMMA StreakInit_Inv == StreakInit => StreakInv
<1> SUFFICES ASSUME StreakInit PROVE StreakInv
  OBVIOUS
<1>1. NoVisit \in Visit
  BY NewStreakIn, VisitIn DEF NoVisit, VisitAt, DayOrNever
<1>2. 1 \in Days /\ day = 1
  BY MaxDayAssumption DEF Days, StreakInit
<1>3. \A d \in Days : granted[d] = <<>>
  BY DEF StreakInit
<1>4. StreakTypeOK
  <2>1. visit \in [Visits -> Visit]
    BY <1>1 DEF StreakInit
  <2>2. granted \in [Days -> Seq(Nat)]
    BY DEF StreakInit
  <2> QED BY <1>2, <2>1, <2>2, NewStreakIn DEF StreakInit, StreakTypeOK
<1>5. StreakCountsDays
  BY DEF StreakInit, StreakCountsDays, NewStreak
<1>6. RewardOnceAndDeserved
  BY <1>3 DEF RewardOnceAndDeserved
<1>7. \A v \in Visits : visit[v] = NoVisit
  BY DEF StreakInit
<1>8. NoVisit.at = "idle" /\ NoVisit.seen.last = Never
  BY NewStreakIn DEF NoVisit
<1>9. DatesAreLogins
  BY <1>7, <1>8, NewStreakIn DEF DatesAreLogins, KeepsLoginDates, StreakInit
<1>10. RequestsAreOfToday
  <2>1. \A v \in Visits : IsOfToday(visit[v])
    BY <1>7, <1>8 DEF IsOfToday
  <2>2. StreakIsOfToday
    BY <1>2, <1>3 DEF StreakIsOfToday, StreakInit, NewStreak
  <2> QED BY <2>1, <2>2 DEF RequestsAreOfToday
<1> QED BY <1>4, <1>5, <1>6, <1>9, <1>10 DEF StreakInv, StreakSafety

(* A step of one request that writes nothing.                              *)
LEMMA RequestStep ==
    ASSUME StreakInv, NEW v \in Visits, NEW r \in Visit,
           visit' = [visit EXCEPT ![v] = r],
           UNCHANGED <<day, streak, loginDays, granted, late>>,
           KeepsLoginDates(r), ~ late => IsOfToday(r)
    PROVE  StreakInv'
<1>1. StreakTypeOK'
  BY DEF StreakInv, StreakSafety, StreakTypeOK
<1>2. StreakCountsDays' /\ RewardOnceAndDeserved'
  BY DEF StreakInv, StreakSafety, StreakCountsDays, RewardOnceAndDeserved, RunTo
<1>3. \A w \in Visits : visit'[w] = IF w = v THEN r ELSE visit[w]
  BY DEF StreakInv, StreakSafety, StreakTypeOK
<1>4. \A w \in Visits : KeepsLoginDates(visit'[w])
  BY <1>3 DEF StreakInv, DatesAreLogins
<1>5. DatesAreLogins'
  BY <1>4 DEF StreakInv, DatesAreLogins, KeepsLoginDates
<1>6. ~ late => \A w \in Visits : IsOfToday(visit'[w])
  BY <1>3 DEF StreakInv, RequestsAreOfToday
<1>7. (~ late => StreakIsOfToday)'
  BY DEF StreakInv, RequestsAreOfToday, StreakIsOfToday
<1>8. RequestsAreOfToday'
  BY <1>6, <1>7 DEF RequestsAreOfToday, IsOfToday
<1> QED BY <1>1, <1>2, <1>5, <1>8 DEF StreakInv, StreakSafety

LEMMA NoVisitStep ==
    /\ NoVisit \in Visit
    /\ KeepsLoginDates(NoVisit) /\ IsOfToday(NoVisit)
<1>1. NoVisit \in Visit
  BY NewStreakIn, VisitIn DEF NoVisit, VisitAt, DayOrNever
<1>2. NoVisit.at = "idle" /\ NoVisit.seen.last = Never
  BY NewStreakIn DEF NoVisit
<1> QED BY <1>1, <1>2 DEF KeepsLoginDates, IsOfToday

LEMMA LeaveStep ==
    ASSUME StreakInv, NEW v \in Visits, Leave(v),
           UNCHANGED <<day, streak, loginDays, granted, late>>
    PROVE  StreakInv'
BY NoVisitStep, RequestStep DEF Leave

(* The steps that read the streak.                                         *)
LEMMA ReadStep ==
    ASSUME StreakInv, NEW v \in Visits, LoginRead(v) \/ ClaimRead(v)
    PROVE  StreakInv'
<1> PICK a \in {"date", "claimDate"} :
         visit' = [visit EXCEPT ![v] = [at |-> a, seen |-> streak, today |-> Never]]
  BY DEF LoginRead, ClaimRead
<1> DEFINE r == [at |-> a, seen |-> streak, today |-> Never]
<1>1. streak \in Streak /\ Never \in DayOrNever
  BY DEF StreakInv, StreakSafety, StreakTypeOK, DayOrNever
<1>2. r \in Visit
  BY <1>1, VisitIn DEF VisitAt
<1>3. r.at = a /\ r.seen = streak
  OBVIOUS
<1>4. visit' = [visit EXCEPT ![v] = r]
  OBVIOUS
<1>5. UNCHANGED <<day, streak, loginDays, granted, late>>
  BY DEF LoginRead, ClaimRead
<1> HIDE DEF r
<1>6. KeepsLoginDates(r)
  BY <1>3 DEF KeepsLoginDates, StreakInv, DatesAreLogins
<1>7. IsOfToday(r)
  BY <1>3 DEF IsOfToday
<1> QED BY <1>2, <1>4, <1>5, <1>6, <1>7, RequestStep

LEMMA DateStep ==
    ASSUME StreakInv, NEW v \in Visits, LoginDate(v)
    PROVE  StreakInv'
<1> DEFINE r == [visit[v] EXCEPT !.at = "compute", !.today = day]
<1>1. visit[v] \in Visit /\ day \in Days /\ visit \in [Visits -> Visit]
  BY DEF StreakInv, StreakSafety, StreakTypeOK
<1>2. /\ r \in Visit
      /\ r.at = "compute" /\ r.today = day /\ r.seen = visit[v].seen
  BY <1>1 DEF Visit, VisitAt, DayOrNever
<1>3. visit' = [visit EXCEPT ![v] = r]
  BY <1>1 DEF LoginDate
<1>4. UNCHANGED <<day, streak, loginDays, granted, late>> /\ visit[v].at = "date"
  BY DEF LoginDate
<1> HIDE DEF r
<1>5. KeepsLoginDates(visit[v])
  BY DEF StreakInv, DatesAreLogins
<1>6. KeepsLoginDates(r)
  BY <1>1, <1>2, <1>4, <1>5 DEF KeepsLoginDates
<1>7. ~ late => IsOfToday(r)
  <2>1. ~ late => IsOfToday(visit[v])
    BY DEF StreakInv, RequestsAreOfToday
  <2> QED BY <1>2, <1>4, <2>1 DEF IsOfToday
<1> QED BY <1>2, <1>3, <1>4, <1>6, <1>7, RequestStep

LEMMA ComputeStep ==
    ASSUME StreakInv, NEW v \in Visits, LoginCompute(v)
    PROVE  StreakInv'
<1> DEFINE s == visit[v].seen
           today == visit[v].today
           c == Continued(s, today, day - 1)
           r == [visit[v] EXCEPT !.at = "write", !.seen = c]
<1>1. /\ visit[v] \in Visit /\ day \in Days /\ visit \in [Visits -> Visit]
      /\ KeepsLoginDates(visit[v]) /\ visit[v].at = "compute"
      /\ ~ late => IsOfToday(visit[v])
  BY DEF StreakInv, StreakSafety, StreakTypeOK, DatesAreLogins,
         RequestsAreOfToday, LoginCompute
<1>2. UNCHANGED <<day, streak, loginDays, granted, late>>
  BY DEF LoginCompute
<1>3. CASE s.last = today
  <2>1. Leave(v)
    BY <1>3 DEF LoginCompute
  <2> QED BY <1>2, <2>1, LeaveStep
<1>4. CASE s.last # today
  <2>1. s \in Streak /\ today \in Days
    BY <1>1 DEF Visit, KeepsLoginDates
  <2>2. c \in Streak /\ c.last = today
    BY <2>1, ContinuedFields
  <2>3. /\ r \in Visit
        /\ r.at = "write" /\ r.today = today /\ r.seen = c
    <3> HIDE DEF c
    <3> QED BY <1>1, <2>2 DEF Visit, VisitAt
  <2>4. visit' = [visit EXCEPT ![v] = r]
    BY <1>1, <1>4 DEF LoginCompute
  <2>5. ~ late /\ streak.last # day => c = Continued(streak, day, day - 1)
    BY <1>1 DEF IsOfToday
  <2>6. ~ late => today = day
    BY <1>1 DEF IsOfToday
  <2> HIDE DEF r, c, today
  <2>7. KeepsLoginDates(r)
    BY <2>1, <2>2, <2>3 DEF KeepsLoginDates
  <2>8. ~ late => IsOfToday(r)
    BY <2>3, <2>5, <2>6 DEF IsOfToday
  <2> QED BY <1>2, <2>3, <2>4, <2>7, <2>8, RequestStep
<1> QED BY <1>3, <1>4

LEMMA ClaimDateStep ==
    ASSUME StreakInv, NEW v \in Visits, ClaimDate(v)
    PROVE  StreakInv'
<1> DEFINE r == [visit[v] EXCEPT !.at = "grant", !.today = day]
<1>1. /\ visit[v] \in Visit /\ day \in Days /\ visit \in [Visits -> Visit]
      /\ KeepsLoginDates(visit[v]) /\ visit[v].at = "claimDate"
      /\ ~ late => IsOfToday(visit[v])
  BY DEF StreakInv, StreakSafety, StreakTypeOK, DatesAreLogins,
         RequestsAreOfToday, ClaimDate
<1>2. UNCHANGED <<day, streak, loginDays, granted, late>>
  BY DEF ClaimDate
<1>3. CASE visit[v].seen.last = day /\ visit[v].seen.claimed # day
  <2>1. /\ r \in Visit
        /\ r.at = "grant" /\ r.today = day /\ r.seen = visit[v].seen
    BY <1>1 DEF Visit, VisitAt, DayOrNever
  <2>2. visit' = [visit EXCEPT ![v] = r]
    BY <1>1, <1>3 DEF ClaimDate
  <2>3. day \in loginDays
    BY <1>1, <1>3 DEF KeepsLoginDates, Never, Days
  <2> HIDE DEF r
  <2>4. KeepsLoginDates(r)
    BY <1>1, <1>3, <2>1, <2>3 DEF KeepsLoginDates
  <2>5. ~ late => IsOfToday(r)
    BY <1>1, <1>3, <2>1 DEF IsOfToday
  <2> QED BY <1>2, <2>1, <2>2, <2>4, <2>5, RequestStep
<1>4. CASE ~ (visit[v].seen.last = day /\ visit[v].seen.claimed # day)
  <2>1. Leave(v)
    BY <1>4 DEF ClaimDate
  <2> QED BY <1>2, <2>1, LeaveStep
<1> QED BY <1>3, <1>4
(* Today's login: the row of days that ends today is one longer than that  *)
(* which ended yesterday, and the streak read before it counts just that.  *)
LEMMA LoginCounts ==
    ASSUME StreakInv, NEW v \in Visits, ~ late,
           visit[v].at = "write", streak.last # day,
           NEW s, s = visit[v].seen, NEW L, L = loginDays \cup {day}
    PROVE  /\ s.current = Run(L, day)
           /\ \A d \in loginDays : d \in Nat /\ d < day
           /\ \A d \in Int : d < day => Run(L, d) = Run(loginDays, d)
           /\ Run(L, day) >= 2 => Run(L, day) <= s.longest
           /\ s.longest >= streak.longest
           /\ s.longest # streak.longest => s.longest = Run(L, day)
<1>1. /\ s = Continued(streak, day, day - 1)
      /\ StreakIsOfToday
  BY DEF StreakInv, RequestsAreOfToday, IsOfToday
<1>2. streak \in Streak /\ day \in Days /\ day \in Nat \ {0}
  BY DEF StreakInv, StreakSafety, StreakTypeOK, Days
<1>3. /\ streak.current = IF loginDays = {} THEN 0 ELSE Run(loginDays, streak.last)
      /\ \A d \in loginDays :
           /\ d <= streak.last
           /\ Run(loginDays, d) >= 2 => Run(loginDays, d) <= streak.longest
  BY RunIsRow DEF StreakInv, StreakSafety, StreakCountsDays
<1>4. streak.last \in loginDays \cup {Never} /\ loginDays \subseteq 1..day
  BY <1>1 DEF StreakIsOfToday, StreakInv, DatesAreLogins
<1>5. \A d \in loginDays : d \in Nat /\ d < day
  <2> TAKE d \in loginDays
  <2>1. d \in 1..day /\ d <= streak.last /\ streak.last \in 1..day
    BY <1>1, <1>3, <1>4 DEF StreakIsOfToday
  <2> QED BY <1>2, <2>1
<1>6. \A d \in Int : d < day => Run(L, d) = Run(loginDays, d)
  BY <1>2, RowStays DEF Run
<1>7. Run(L, day) = Run(loginDays, day - 1) + 1
  <2>1. Run(L, day) = Run(L, day - 1) + 1
    <3>1. day \in L
      OBVIOUS
    <3>2. Cardinality(Row(L, day)) = Cardinality(Row(L, day - 1)) + 1
      BY ONLY <1>2, <3>1, RowGrows
    <3> QED BY ONLY <3>2 DEF Run
  <2>2. Run(L, day - 1) = Run(loginDays, day - 1)
    <3>1. day - 1 \in Int /\ day - 1 < day
      BY <1>2
    <3> QED BY ONLY <1>6, <3>1, Zenon
  <2> QED BY <2>1, <2>2
<1>8. Run(loginDays, day - 1) \in Nat
  BY <1>2, RowFinite DEF Run
<1>9. /\ s.current = IF streak.last = day - 1 THEN streak.current + 1 ELSE 1
      /\ s.longest = IF streak.last = day - 1 /\ streak.current + 1 > streak.longest
                       THEN streak.current + 1 ELSE streak.longest
      /\ streak.current \in Nat /\ streak.longest \in Nat
  BY <1>1, <1>2, ContinuedFields DEF Streak
<1>10. CASE streak.last = day - 1
  <2>1. streak.last # Never /\ day - 1 \in loginDays
    BY <1>2, <1>4, <1>10 DEF Never
  <2>2. streak.current = Run(loginDays, day - 1)
    BY <1>3, <1>10, <2>1
  <2> QED BY <1>5, <1>6, <1>7, <1>9, <1>10, <2>2
<1>11. CASE streak.last # day - 1
  <2>1. day - 1 \notin loginDays
    <3> SUFFICES ASSUME day - 1 \in loginDays PROVE FALSE
      OBVIOUS
    <3>1. day - 1 <= streak.last /\ streak.last \in 1..day
      BY <1>1, <1>3, <1>4 DEF StreakIsOfToday
    <3> QED BY <1>2, <1>11, <3>1
  <2>2. Run(loginDays, day - 1) = 0
    BY <1>2, <2>1, RowWithout DEF Run
  <2> QED BY <1>5, <1>6, <1>7, <1>9, <1>11, <2>2
<1> QED BY <1>10, <1>11

LEMMA WriteStep ==
    ASSUME StreakInv, NEW v \in Visits, LoginWrite(v)
    PROVE  StreakInv'
<1>1. UNCHANGED <<day, granted, late>> /\ visit[v].at = "write" /\ Leave(v)
  BY DEF LoginWrite, WriteStreak
<1>2. CASE UNCHANGED <<streak, loginDays>>
  BY <1>1, <1>2, LeaveStep
<1> DEFINE today == visit[v].today
           s == visit[v].seen
           L == loginDays \cup {today}
<1>3. CASE streak.last # today /\ streak' = s /\ loginDays' = L
  <2>1. /\ visit[v] \in Visit /\ day \in Days /\ visit \in [Visits -> Visit]
        /\ KeepsLoginDates(visit[v]) /\ streak \in Streak
        /\ loginDays \subseteq Days /\ granted \in [Days -> Seq(Nat)]
        /\ late \in BOOLEAN
        /\ ~ late => IsOfToday(visit[v]) /\ StreakIsOfToday
    BY DEF StreakInv, StreakSafety, StreakTypeOK, DatesAreLogins,
           RequestsAreOfToday
  <2>2. today \in Days /\ s \in Streak /\ s.last = today
    BY <1>1, <2>1 DEF KeepsLoginDates, Visit
  <2>3. \A w \in Visits : visit'[w] = IF w = v THEN NoVisit ELSE visit[w]
    BY <1>1, <2>1 DEF Leave
  <2>4. StreakTypeOK'
    <3>1. visit' \in [Visits -> Visit]
      BY <1>1, <2>1, NoVisitStep DEF Leave
    <3> QED BY <1>1, <1>3, <2>1, <2>2, <3>1 DEF StreakTypeOK
  <2>5. DatesAreLogins'
    <3>1. \A w \in Visits : KeepsLoginDates(visit[w])'
      <4> TAKE w \in Visits
      <4>1. KeepsLoginDates(visit[w]) /\ KeepsLoginDates(NoVisit)
        BY NoVisitStep DEF StreakInv, DatesAreLogins
      <4> QED BY <1>3, <2>3, <4>1 DEF KeepsLoginDates
    <3>2. streak'.last \in loginDays'
      BY <1>3, <2>2
    <3> QED BY <3>1, <3>2 DEF DatesAreLogins
  <2>6. ~ late =>
          /\ today = day
          /\ s.current = Run(L, day)
          /\ \A d \in loginDays : d \in Nat /\ d < day
          /\ \A d \in Int : d < day => Run(L, d) = Run(loginDays, d)
          /\ Run(L, day) >= 2 => Run(L, day) <= s.longest
          /\ s.longest >= streak.longest
          /\ s.longest # streak.longest => s.longest = Run(L, day)
    <3> SUFFICES ASSUME ~ late PROVE today = day /\ streak.last # day
      BY <1>1, LoginCounts
    <3> QED BY <1>1, <1>3, <2>1 DEF IsOfToday
  <2>7. \A d : RunTo(d)' = Run(loginDays', d)
    BY DEF RunTo, Run, Row
  <2>8. day \in Nat /\ s.longest \in Nat /\ streak.longest \in Nat
    BY <2>1, <2>2 DEF Days, Streak
  <2>9. ~ late => streak.last # day
    BY <1>3, <2>6
  <2> HIDE DEF s, today
  <2>10. StreakCountsDays'
    <3> SUFFICES ASSUME ~ late PROVE StreakCountsDays'
      BY <1>1 DEF StreakCountsDays
    <3>1. /\ streak.longest # 0
               => \E d \in loginDays : Run(loginDays, d) = streak.longest
          /\ \A d \in loginDays :
               Run(loginDays, d) >= 2 => Run(loginDays, d) <= streak.longest
      BY RunIsRow DEF StreakInv, StreakSafety, StreakCountsDays
    <3>2. day \in L /\ L = loginDays \cup {day}
      BY <2>6
    <3>3. \A d \in loginDays : Run(L, d) = Run(loginDays, d) /\ Run(L, d) \in Nat
      BY <2>6, RowFinite DEF Run
    <3>4. Run(L, day) \in Nat
      BY <2>8, RowFinite DEF Run
    <3> HIDE DEF L
    <3>5. s.current = IF L = {} THEN 0 ELSE Run(L, s.last)
      BY <2>2, <2>6, <3>2
    <3>6. \A d \in L : d <= s.last /\ (Run(L, d) >= 2 => Run(L, d) <= s.longest)
      <4> TAKE d \in L
      <4>1. CASE d = day
        BY <2>2, <2>6, <2>8, <4>1
      <4>2. CASE d # day
        BY <2>2, <2>6, <2>8, <3>1, <3>2, <3>3, <4>2
      <4> QED BY <4>1, <4>2
    <3>7. s.longest # 0 => \E d \in L : Run(L, d) = s.longest
      <4>1. CASE s.longest = streak.longest
        BY <3>1, <3>2, <3>3, <4>1
      <4>2. CASE s.longest # streak.longest
        BY <2>6, <3>2, <4>2
      <4> QED BY <4>1, <4>2
    <3>8. loginDays' = L /\ streak' = s
      BY <1>3 DEF L, s, today
    <3> QED BY <2>7, <3>5, <3>6, <3>7, <3>8 DEF StreakCountsDays
  <2>11. RewardOnceAndDeserved'
    <3> SUFFICES ASSUME NEW d \in Days, granted[d] # <<>>
                 PROVE  /\ d \in loginDays'
                        /\ late \/ granted[d] = <<RewardForDay(RunTo(d))>>'
      BY <1>1 DEF RewardOnceAndDeserved
    <3>1. /\ d \in loginDays
          /\ late \/ granted[d] = <<RewardForDay(Run(loginDays, d))>>
      BY RunIsRow DEF StreakInv, StreakSafety, RewardOnceAndDeserved
    <3>2. ~ late => Run(L, d) = Run(loginDays, d)
      <4> SUFFICES ASSUME ~ late PROVE Run(L, d) = Run(loginDays, d)
        OBVIOUS
      <4>1. d \in Int /\ d < day
        BY <2>6, <3>1
      <4> QED BY <2>6, <4>1
    <3> HIDE DEF L
    <3>3. ~ late => RunTo(d)' = Run(loginDays, d)
      BY <1>3, <2>7, <3>2
    <3>4. d \in loginDays'
      BY <1>3, <3>1 DEF L
    <3>5. ~ late => granted[d] = <<RewardForDay(RunTo(d)')>>
      BY <3>1, <3>3
    <3> QED BY <1>1, <3>4, <3>5 DEF RewardForDay
  <2>12. RequestsAreOfToday'
    <3> SUFFICES ASSUME ~ late PROVE StreakIsOfToday' /\ \A w \in Visits : IsOfToday(visit[w])'
      BY <1>1 DEF RequestsAreOfToday
    <3>1. streak'.last = day /\ loginDays' = loginDays \cup {day}
      BY <1>3, <2>2, <2>6
    <3>2. StreakIsOfToday'
      <4>1. granted[day] = <<>>
        BY <2>1, <2>9 DEF StreakIsOfToday
      <4>2. \A d \in Days : d > day => granted[d] = <<>>
        BY <2>1 DEF StreakIsOfToday
      <4>3. loginDays \cup {day} \subseteq 1..day
        BY <2>1, <2>8 DEF StreakIsOfToday, Days
      <4>4. day # Never
        BY <2>8 DEF Never
      <4> QED BY <1>1, <3>1, <4>1, <4>2, <4>3, <4>4 DEF StreakIsOfToday
    <3>3. \A w \in Visits : IsOfToday(visit[w])'
      <4> TAKE w \in Visits
      <4>1. IsOfToday(visit[w]) /\ IsOfToday(NoVisit)
        BY NoVisitStep DEF StreakInv, RequestsAreOfToday
      <4> QED BY <1>1, <2>3, <2>9, <3>1, <4>1 DEF IsOfToday
    <3> QED BY <3>2, <3>3
  <2> QED BY <2>4, <2>5, <2>10, <2>11, <2>12 DEF StreakInv, StreakSafety
<1> QED BY <1>2, <1>3 DEF LoginWrite, WriteStreak

LEMMA GrantStep ==
    ASSUME StreakInv, NEW v \in Visits, ClaimGrant(v)
    PROVE  StreakInv'
<1> DEFINE today == visit[v].today
           c == visit[v].seen.current
           g == Append(granted[today], RewardForDay(c))
<1>1. UNCHANGED <<day, loginDays, late>> /\ visit[v].at = "grant" /\ Leave(v)
  BY DEF ClaimGrant
<1>2. CASE UNCHANGED <<streak, granted>>
  BY <1>1, <1>2, LeaveStep
<1>3. CASE /\ streak.claimed # today
           /\ streak' = [streak EXCEPT !.claimed = today]
           /\ granted' = [granted EXCEPT ![today] = g]
  <2>1. /\ visit[v] \in Visit /\ day \in Days /\ visit \in [Visits -> Visit]
        /\ KeepsLoginDates(visit[v]) /\ streak \in Streak
        /\ loginDays \subseteq Days /\ granted \in [Days -> Seq(Nat)]
        /\ late \in BOOLEAN
        /\ ~ late => IsOfToday(visit[v]) /\ StreakIsOfToday
    BY DEF StreakInv, StreakSafety, StreakTypeOK, DatesAreLogins,
           RequestsAreOfToday
  <2>2. today \in Days /\ today \in loginDays
    BY <1>1, <2>1 DEF KeepsLoginDates
  <2>3. \A w \in Visits : visit'[w] = IF w = v THEN NoVisit ELSE visit[w]
    BY <1>1, <2>1 DEF Leave
  <2>4. /\ streak' \in Streak /\ streak'.claimed = today
        /\ streak'.last = streak.last /\ streak'.current = streak.current
        /\ streak'.longest = streak.longest
    BY <1>3, <2>1, <2>2 DEF Streak, DayOrNever
  <2>5. RewardForDay(c) \in Nat
    BY DEF RewardForDay
  <2>6. g \in Seq(Nat)
    BY <2>1, <2>2, <2>5
  <2>7. \A d \in Days : granted'[d] = IF d = today THEN g ELSE granted[d]
    BY <1>3, <2>1
  <2> HIDE DEF g
  <2>8. StreakTypeOK'
    <3>1. visit' \in [Visits -> Visit]
      BY <1>1, <2>1, NoVisitStep DEF Leave
    <3>2. granted' \in [Days -> Seq(Nat)]
      BY <1>3, <2>1, <2>6
    <3> QED BY <1>1, <2>1, <2>4, <3>1, <3>2 DEF StreakTypeOK
  <2>9. StreakCountsDays'
    BY <1>1, <2>4 DEF StreakCountsDays, RunTo, StreakInv, StreakSafety
  <2>10. ~ late => today = day /\ streak.last = day /\ c = streak.current
    BY <1>1, <2>1 DEF IsOfToday
  <2>11. \A d : RunTo(d)' = RunTo(d)
    BY <1>1 DEF RunTo
  <2>12. RewardOnceAndDeserved'
    <3>1. ASSUME NEW d \in Days, granted'[d] # <<>>
          PROVE  /\ d \in loginDays
                 /\ late \/ granted'[d] = <<RewardForDay(RunTo(d))>>
      <4>1. CASE d # today
        BY <2>7, <3>1, <4>1 DEF StreakInv, StreakSafety, RewardOnceAndDeserved
      <4>2. CASE d = today /\ ~ late
        <5>1. granted[day] = <<>>
          BY <1>3, <2>1, <2>10, <4>2 DEF StreakIsOfToday
        <5>2. c = RunTo(day)
          <6>1. loginDays # {}
            BY <2>2
          <6> QED BY <2>10, <4>2, <6>1 DEF StreakInv, StreakSafety, StreakCountsDays
        <5>3. g = <<RewardForDay(c)>>
          <6>1. g = Append(<<>>, RewardForDay(c))
            BY <2>10, <4>2, <5>1 DEF g
          <6> HIDE DEF c
          <6> QED BY <6>1
        <5> QED BY <2>2, <2>7, <2>10, <4>2, <5>2, <5>3
      <4>3. CASE d = today /\ late
        BY <2>2, <4>3
      <4> QED BY <2>1, <4>1, <4>2, <4>3
    <3>2. \A d \in Days : <<RewardForDay(RunTo(d))>>' = <<RewardForDay(RunTo(d))>>
      BY <2>11 DEF RewardForDay
    <3> QED BY <1>1, <3>1, <3>2 DEF RewardOnceAndDeserved
  <2>13. DatesAreLogins'
    <3>1. \A w \in Visits : KeepsLoginDates(visit[w])'
      <4> TAKE w \in Visits
      <4>1. KeepsLoginDates(visit[w]) /\ KeepsLoginDates(NoVisit)
        BY NoVisitStep DEF StreakInv, DatesAreLogins
      <4> QED BY <1>1, <2>3, <4>1 DEF KeepsLoginDates
    <3> QED BY <1>1, <2>4, <3>1 DEF DatesAreLogins, StreakInv
  <2>14. RequestsAreOfToday'
    <3> SUFFICES ASSUME ~ late PROVE StreakIsOfToday' /\ \A w \in Visits : IsOfToday(visit[w])'
      BY <1>1 DEF RequestsAreOfToday
    <3>1. StreakIsOfToday'
      <4>1. \A d \in Days : d > day => granted'[d] = <<>>
        BY <2>1, <2>7, <2>10 DEF StreakIsOfToday, Days
      <4> QED BY <1>1, <2>1, <2>2, <2>4, <2>10, <4>1 DEF StreakIsOfToday
    <3>2. \A w \in Visits : IsOfToday(visit[w])'
      <4> TAKE w \in Visits
      <4>1. IsOfToday(visit[w]) /\ IsOfToday(NoVisit)
        BY NoVisitStep DEF StreakInv, RequestsAreOfToday
      <4> QED BY <1>1, <2>3, <2>4, <2>10, <4>1 DEF IsOfToday
    <3> QED BY <3>1, <3>2
  <2> QED BY <2>8, <2>9, <2>12, <2>13, <2>14 DEF StreakInv, StreakSafety
<1> QED BY <1>2, <1>3 DEF ClaimGrant

(* What is said of the days so far stays, as long as they and the streak   *)
(* do, even if a request is in progress at midnight.                       *)
LEMMA CountsStay ==
    ASSUME StreakTypeOK, StreakCountsDays, RewardOnceAndDeserved,
           UNCHANGED <<streak, loginDays, granted>>, late => late'
    PROVE  StreakCountsDays' /\ RewardOnceAndDeserved'
<1>1. \A d : RunTo(d)' = RunTo(d)
  BY DEF RunTo
<1>2. StreakCountsDays'
  <2> HIDE DEF RunTo
  <2> QED BY <1>1 DEF StreakCountsDays
<1>3. \A d : <<RewardForDay(RunTo(d))>>' = <<RewardForDay(RunTo(d))>>
  BY <1>1 DEF RewardForDay
<1>4. RewardOnceAndDeserved'
  BY <1>3 DEF RewardOnceAndDeserved
<1> QED BY <1>2, <1>4

LEMMA MidnightStep == StreakInv /\ NextDay => StreakInv'
<1> SUFFICES ASSUME StreakInv, NextDay PROVE StreakInv'
  OBVIOUS
<1>1. /\ UNCHANGED <<streak, visit, loginDays, granted>>
      /\ day' = day + 1 /\ day < MaxDay
      /\ late' = (late \/ \E v \in Visits : visit[v].at # "idle")
  BY DEF NextDay
<1>2. day \in Days /\ day \in Nat /\ late \in BOOLEAN
  BY DEF StreakInv, StreakSafety, StreakTypeOK, Days
<1>3. day' \in Days
  BY <1>1, <1>2, MaxDayAssumption DEF Days
<1>4. StreakTypeOK'
  BY <1>1, <1>2, <1>3 DEF StreakInv, StreakSafety, StreakTypeOK
<1>5. StreakCountsDays' /\ RewardOnceAndDeserved'
  BY <1>1, CountsStay DEF StreakInv, StreakSafety
<1>6. DatesAreLogins'
  BY <1>1 DEF StreakInv, DatesAreLogins, KeepsLoginDates
<1>7. RequestsAreOfToday'
  <2> SUFFICES ASSUME ~ late'
               PROVE StreakIsOfToday' /\ \A w \in Visits : IsOfToday(visit[w])'
    BY DEF RequestsAreOfToday
  <2>1. ~ late /\ \A w \in Visits : visit[w].at = "idle"
    BY <1>1
  <2>2. StreakIsOfToday
    BY <2>1 DEF StreakInv, RequestsAreOfToday
  <2>3. granted[day + 1] = <<>> /\ \A d \in Days : d > day + 1 => granted[d] = <<>>
    BY <1>1, <1>2, <1>3, <2>2 DEF StreakIsOfToday, Days
  <2>4. loginDays \subseteq 1..(day + 1)
    BY <1>2, <2>2 DEF StreakIsOfToday
  <2>5. StreakIsOfToday'
    BY <1>1, <2>2, <2>3, <2>4 DEF StreakIsOfToday
  <2>6. \A w \in Visits : IsOfToday(visit[w])'
    BY <1>1, <2>1 DEF IsOfToday
  <2> QED BY <2>5, <2>6
<1> QED BY <1>4, <1>5, <1>6, <1>7 DEF StreakInv, StreakSafety

LEMMA StreakStutter == StreakInv /\ UNCHANGED streakVars => StreakInv'
<1> SUFFICES ASSUME StreakInv, UNCHANGED streakVars PROVE StreakInv'
  OBVIOUS
<1>1. StreakCountsDays' /\ RewardOnceAndDeserved'
  BY CountsStay DEF streakVars, StreakInv, StreakSafety
<1>2. StreakTypeOK'
  BY DEF streakVars, StreakInv, StreakSafety, StreakTypeOK
<1>3. DatesAreLogins'
  BY DEF streakVars, StreakInv, DatesAreLogins, KeepsLoginDates
<1>4. RequestsAreOfToday'
  BY DEF streakVars, StreakInv, RequestsAreOfToday, IsOfToday, StreakIsOfToday
<1> QED BY <1>1, <1>2, <1>3, <1>4 DEF StreakInv, StreakSafety

(* However logins, claims and midnights cross, and whichever writes fail:  *)
(* when no request was in progress at midnight the streak is the number of *)
(* days in a row with a login, the longest streak the longest such run,    *)
(* and a day is rewarded at most once, with the coins of the days in a row *)
(* that end with it; and no day without a login is ever rewarded           *)
(* (processStreak, ClaimDailyReward).                                      *)
THEOREM StreakIsKept == StreakSpec => []StreakSafety
<1>1. StreakInit => StreakInv
  BY StreakInit_Inv
<1>2. StreakInv /\ [StreakNext]_streakVars => StreakInv'
  <2> SUFFICES ASSUME StreakInv, [StreakNext]_streakVars PROVE StreakInv'
    OBVIOUS
  <2>1. CASE NextDay
    BY <2>1, MidnightStep
  <2>2. ASSUME NEW v \in Visits,
               \/ LoginRead(v) \/ LoginDate(v) \/ LoginCompute(v) \/ LoginWrite(v)
               \/ ClaimRead(v) \/ ClaimDate(v) \/ ClaimGrant(v)
        PROVE  StreakInv'
    BY <2>2, ReadStep, DateStep, ComputeStep, WriteStep, ClaimDateStep, GrantStep
  <2>3. CASE UNCHANGED streakVars
    BY <2>3, StreakStutter
  <2> QED BY <2>1, <2>2, <2>3 DEF StreakNext
<1>3. StreakInv => StreakSafety
  BY DEF StreakInv
<1> QED BY <1>1, <1>2, <1>3, PTL DEF StreakSpec

-----------------------------------------------------------------------------
(***************************************************************************)
(* EmailCodes: the codes of one address, any number of requests.           *)
(***************************************************************************)

(* The purpose tried first of those left.                                  *)
First(left) == CASE "login" \in left -> "login"
                 [] "reset" \in left -> "reset"
                 [] OTHER -> "link"

(* A request that has read a code and not yet answered.                    *)
Holding == {"del", "incr", "expire", "retire"}

RequestFits(r) ==
    /\ r.at = "idle" => r = NoRequest
    /\ r.at # "idle" => r.purposes # {}
    /\ r.at \in Holding =>
         /\ r.stored \in 1..sent
         /\ \A q \in Purposes : code[q] = r.stored => q = First(r.purposes)

(* Codes that are kept were sent, each for one purpose, and accepted at    *)
(* most as often as a command failed.                                      *)
KeptCodes ==
    /\ \A p \in Purposes :
         /\ code[p] \in 0..sent
         /\ code[p] # 0 => codeTTL[p] > 0 /\ accepted[code[p]] <= errors[code[p]]
         /\ \A q \in Purposes : code[p] = code[q] /\ code[p] # 0 => p = q
    /\ \A c \in Codes : c > sent => accepted[c] = 0 /\ wrong[c] = 0
    /\ \A v \in Requests : RequestFits(request[v])

(* The requests that will accept a code.                                   *)
Accepting(c) == {v \in Requests : request[v].at = "del" /\ request[v].stored = c}

AcceptingFit ==
    \A c \in Codes :
        accepted[c] + Cardinality(Accepting(c)) <= Cardinality(Requests) + errors[c]

(* The wrong tries that the failed commands may leave uncounted.           *)
Excused == [c \in Codes |-> MaxAttempts * errors[c]]

(* A request is between the count of a wrong code for p and the end of     *)
(* that purpose.                                                           *)
At(p, steps) ==
    \E v \in Requests : request[v].at \in steps /\ First(request[v].purposes) = p

CalmRequests ==
    /\ \A v, w \in Requests : request[v] # NoRequest /\ request[w] # NoRequest => v = w
    /\ \A c \in Codes :
         accepted[c] <= 1 + errors[c] /\ wrong[c] <= MaxAttempts + Excused[c]
    /\ \A v \in Requests :
         LET r == request[v]
             p == First(r.purposes)
         IN
         /\ r.at = "del" => accepted[r.stored] <= errors[r.stored]
         /\ r.at = "incr" => wrong[r.stored] < MaxAttempts + Excused[r.stored]
         /\ r.at = "expire" =>
              \/ r.count = attempts[p]
              \/ r.count = 0 /\ wrong[r.stored] <= Excused[r.stored]
         /\ r.at \in {"incr", "expire", "retire"} /\ code[p] \notin {0, r.stored}
              => wrong[code[p]] = 0

CalmCounts ==
    \A p \in Purposes : code[p] # 0 =>
       /\ ~ At(p, {"expire", "retire"})
            => wrong[code[p]] < MaxAttempts + Excused[code[p]]
       /\ wrong[code[p]] <= attempts[p] + Excused[code[p]]
       /\ wrong[code[p]] > Excused[code[p]] /\ ~ At(p, {"expire"})
            => codeTTL[p] <= attemptsTTL[p]

CodeInv ==
    /\ EmailTypeOK /\ KeptCodes /\ AcceptingFit
    /\ calm => CalmRequests /\ CalmCounts
RequestType ==
    [op : {"none", "verify", "link", "reset"},
     at : {"idle", "get", "del", "incr", "expire", "retire"},
     purposes : SUBSET Purposes, given : 0..MaxCodes,
     stored : 0..MaxCodes, count : Nat]

-----------------------------------------------------------------------------
LEMMA NowIsFirst == \A v : Now(v) = First(request[v].purposes)
BY DEF Now, First

LEMMA FirstIsPurpose == \A left : First(left) \in Purposes
BY DEF First, Purposes

LEMMA NoRequestIn ==
    /\ NoRequest \in RequestType
    /\ NoRequest.at = "idle" /\ NoRequest.purposes = {}
    /\ RequestFits(NoRequest)
<1>1. NoRequest \in RequestType
  BY MaxCodesAssumption DEF NoRequest, RequestType
<1> QED BY <1>1 DEF NoRequest, RequestFits, Holding

LEMMA TypeFields ==
    ASSUME EmailTypeOK, NEW v \in Requests
    PROVE  /\ request[v] \in RequestType /\ request \in [Requests -> RequestType]
           /\ request[v].purposes \in SUBSET Purposes
           /\ request[v].stored \in 0..MaxCodes /\ request[v].count \in Nat
           /\ request[v].given \in 0..MaxCodes
<1>1. request \in [Requests -> RequestType]
  BY DEF EmailTypeOK, RequestType
<1>2. request[v] \in RequestType
  BY <1>1
<1> QED BY <1>1, <1>2 DEF RequestType

LEMMA ExcusedType == EmailTypeOK => Excused \in [Codes -> Nat]
<1> SUFFICES ASSUME EmailTypeOK, NEW c \in Codes PROVE MaxAttempts * errors[c] \in Nat
  BY DEF Excused
<1>1. errors[c] \in Nat
  BY DEF EmailTypeOK
<1> QED BY <1>1, MaxAttemptsAssumption

(* What errors do in a step: they are never forgotten, and only those of   *)
(* c are counted, each excusing MaxAttempts tries.                         *)
ErrorsGrow ==
    \A d \in Codes :
        /\ errors[d] \in Nat /\ errors'[d] \in Nat /\ errors[d] <= errors'[d]
        /\ Excused[d] \in Nat /\ Excused'[d] \in Nat /\ Excused[d] <= Excused'[d]

NoOtherError(c) ==
    \A d \in Codes : d # c => errors'[d] = errors[d] /\ Excused'[d] = Excused[d]

ErrorOf(c) == errors'[c] = errors[c] + 1 /\ Excused'[c] = Excused[c] + MaxAttempts

LEMMA ErrorsCount ==
    ASSUME EmailTypeOK, NEW v \in Requests, request[v].stored \in Codes,
           NoError \/ ErrorIn(v)
    PROVE  /\ errors' \in [Codes -> Nat] /\ MaxAttempts \in Nat
           /\ ErrorsGrow /\ NoOtherError(request[v].stored)
           /\ ErrorIn(v) => ErrorOf(request[v].stored)
<1> DEFINE c == request[v].stored
<1>1. errors \in [Codes -> Nat] /\ MaxAttempts \in Nat
  BY MaxAttemptsAssumption DEF EmailTypeOK
<1>2. Excused' = [d \in Codes |-> MaxAttempts * errors'[d]]
  BY DEF Excused
<1>3. CASE NoError
  <2>1. errors' = errors /\ Excused' = Excused
    BY <1>2, <1>3 DEF NoError, Excused
  <2>2. ~ ErrorIn(v)
    BY <1>1, <2>1 DEF ErrorIn
  <2>3. \A d \in Codes : errors[d] \in Nat /\ Excused[d] \in Nat
    BY <1>1, ExcusedType
  <2> QED BY <1>1, <2>1, <2>2, <2>3 DEF ErrorsGrow, NoOtherError
<1>4. CASE ErrorIn(v)
  <2>1. errors' = [errors EXCEPT ![c] = @ + 1]
    BY <1>4 DEF ErrorIn
  <2>2. ~ NoError
    BY <1>1, <2>1 DEF NoError
  <2> HIDE DEF c
  <2>3. c \in Codes
    BY DEF c
  <2>4. \A d \in Codes : errors'[d] = IF d = c THEN errors[c] + 1 ELSE errors[d]
    BY <1>1, <2>1
  <2>5. errors' \in [Codes -> Nat]
    BY <1>1, <2>1, <2>3
  <2>6. \A d \in Codes : Excused[d] = MaxAttempts * errors[d]
                        /\ Excused'[d] = MaxAttempts * errors'[d]
    BY <1>2 DEF Excused
  <2>7. MaxAttempts * (errors[c] + 1) = MaxAttempts * errors[c] + MaxAttempts
    <3>1. errors[c] \in Nat
      BY <1>1, <2>3
    <3> QED BY <1>1, <3>1
  <2>8. Excused'[c] = Excused[c] + MaxAttempts
    BY <2>3, <2>4, <2>6, <2>7
  <2>9. \A d \in Codes : d # c => errors'[d] = errors[d] /\ Excused'[d] = Excused[d]
    BY <2>4, <2>6
  <2>10. \A d \in Codes : Excused'[d] \in Nat
    <3> TAKE d \in Codes
    <3>1. errors'[d] \in Nat
      BY <2>5
    <3> QED BY <1>1, <2>6, <3>1
  <2>11. ErrorsGrow
    <3> SUFFICES ASSUME NEW d \in Codes
                 PROVE  /\ errors[d] \in Nat /\ errors'[d] \in Nat /\ errors[d] <= errors'[d]
                        /\ Excused[d] \in Nat /\ Excused'[d] \in Nat
                        /\ Excused[d] <= Excused'[d]
      BY DEF ErrorsGrow
    <3>1. errors[d] \in Nat /\ Excused[d] \in Nat
      BY <1>1, ExcusedType
    <3> QED BY <1>1, <2>4, <2>5, <2>8, <2>9, <2>10, <3>1
  <2> QED BY <1>1, <2>4, <2>3, <2>5, <2>8, <2>9, <2>11 DEF c, NoOtherError, ErrorOf
<1> QED BY <1>3, <1>4

(* Errors that come to it leave within its limits what was.                *)
LEMMA StillWithin ==
    ASSUME EmailTypeOK, KeptCodes, ErrorsGrow
    PROVE  \A q \in Purposes :
               code[q] # 0 => code[q] \in Codes /\ accepted[code[q]] <= errors'[code[q]]
<1> SUFFICES ASSUME NEW q \in Purposes, code[q] # 0
             PROVE  code[q] \in Codes /\ accepted[code[q]] <= errors'[code[q]]
  OBVIOUS
<1>1. code[q] \in Codes
  BY MaxCodesAssumption DEF EmailTypeOK, Codes
<1>2. accepted[code[q]] \in Nat /\ accepted[code[q]] <= errors[code[q]]
  BY <1>1 DEF KeptCodes, EmailTypeOK
<1>3. /\ errors[code[q]] \in Nat /\ errors'[code[q]] \in Nat
      /\ errors[code[q]] <= errors'[code[q]]
  BY <1>1 DEF ErrorsGrow
<1> QED BY <1>1, <1>2, <1>3

LEMMA CalmStillWithin ==
    ASSUME EmailTypeOK, CalmRequests, ErrorsGrow
    PROVE  \A d \in Codes : /\ accepted[d] <= 1 + errors'[d]
                            /\ wrong[d] <= MaxAttempts + Excused'[d]
<1> SUFFICES ASSUME NEW d \in Codes
             PROVE  accepted[d] <= 1 + errors'[d] /\ wrong[d] <= MaxAttempts + Excused'[d]
  OBVIOUS
<1>1. /\ accepted[d] <= 1 + errors[d] /\ wrong[d] <= MaxAttempts + Excused[d]
      /\ accepted[d] \in Nat /\ wrong[d] \in Nat
  BY DEF CalmRequests, EmailTypeOK
<1>2. /\ errors[d] \in Nat /\ errors'[d] \in Nat /\ errors[d] <= errors'[d]
      /\ Excused[d] \in Nat /\ Excused'[d] \in Nat /\ Excused[d] <= Excused'[d]
  BY DEF ErrorsGrow
<1> QED BY <1>1, <1>2, MaxAttemptsAssumption

LEMMA CountsStillWithin ==
    ASSUME EmailTypeOK, CalmCounts, ErrorsGrow, NEW q \in Purposes, code[q] # 0
    PROVE  /\ code[q] \in Codes /\ wrong[code[q]] \in Nat
           /\ Excused[code[q]] \in Nat /\ Excused'[code[q]] \in Nat
           /\ ~ At(q, {"expire", "retire"})
                => wrong[code[q]] < MaxAttempts + Excused'[code[q]]
           /\ wrong[code[q]] <= attempts[q] + Excused'[code[q]]
           /\ wrong[code[q]] > Excused'[code[q]] /\ ~ At(q, {"expire"})
                => codeTTL[q] <= attemptsTTL[q]
<1>1. code[q] \in Codes
  BY MaxCodesAssumption DEF EmailTypeOK, Codes
<1>2. wrong[code[q]] \in Nat /\ attempts[q] \in Nat /\ MaxAttempts \in Nat
  BY <1>1, MaxAttemptsAssumption DEF EmailTypeOK
<1>3. /\ Excused[code[q]] \in Nat /\ Excused'[code[q]] \in Nat
      /\ Excused[code[q]] <= Excused'[code[q]]
  BY <1>1 DEF ErrorsGrow
<1>4. /\ ~ At(q, {"expire", "retire"}) => wrong[code[q]] < MaxAttempts + Excused[code[q]]
      /\ wrong[code[q]] <= attempts[q] + Excused[code[q]]
      /\ wrong[code[q]] > Excused[code[q]] /\ ~ At(q, {"expire"})
           => codeTTL[q] <= attemptsTTL[q]
  BY DEF CalmCounts
<1> QED BY <1>1, <1>2, <1>3, <1>4

(* A request that leaves a purpose has the next to try, or is over.        *)
LEMMA NextPurposeFits ==
    ASSUME EmailTypeOK, NEW v \in Requests
    PROVE  /\ NextPurpose(v) \in RequestType
           /\ NextPurpose(v).at \in {"idle", "get"}
           /\ RequestFits(NextPurpose(v))
<1> DEFINE left == request[v].purposes \ {Now(v)}
           n == [NoRequest EXCEPT !.op = request[v].op, !.at = "get",
                           !.given = request[v].given, !.purposes = left]
<1>1. request[v] \in RequestType /\ left \in SUBSET Purposes
  BY TypeFields
<1>2. CASE left = {}
  BY <1>2, NoRequestIn DEF NextPurpose
<1>3. CASE left # {}
  <2>1. NextPurpose(v) = n
    BY <1>3 DEF NextPurpose
  <2> HIDE DEF left
  <2>2. n \in RequestType /\ n.at = "get" /\ n.purposes = left
    BY <1>1, NoRequestIn DEF RequestType
  <2> HIDE DEF n
  <2> QED BY <1>3, <2>1, <2>2 DEF RequestFits, Holding
<1> QED BY <1>2, <1>3

LEMMA AcceptingFinite ==
    \A c : /\ IsFiniteSet(Accepting(c)) /\ Cardinality(Accepting(c)) \in Nat
           /\ Cardinality(Accepting(c)) <= Cardinality(Requests)
           /\ Cardinality(Requests) \in Nat
BY RequestsAssumption, FS_Subset, FS_CardinalityType DEF Accepting

(* Without an acceptance, and with no more requests about to accept ...    *)
LEMMA AcceptingShrinks ==
    ASSUME AcceptingFit, EmailTypeOK, UNCHANGED accepted,
           NEW v \in Requests, NEW r, r.at = "del" => accepted[r.stored] <= errors[r.stored],
           \A c \in Codes : errors'[c] \in Nat /\ errors[c] <= errors'[c],
           \A w \in Requests : request'[w] \in {IF w = v THEN r ELSE request[w], NoRequest}
    PROVE  AcceptingFit'
<1>1. SUFFICES ASSUME NEW c \in Codes
               PROVE  accepted[c] + Cardinality(Accepting(c)')
                        <= Cardinality(Requests) + errors'[c]
  BY DEF AcceptingFit
<1>2. /\ Accepting(c)' \subseteq Requests /\ accepted[c] \in Nat
      /\ errors[c] \in Nat /\ errors'[c] \in Nat /\ errors[c] <= errors'[c]
  BY DEF Accepting, EmailTypeOK
<1>3. /\ Cardinality(Accepting(c)') \in Nat /\ Cardinality(Requests) \in Nat
      /\ Cardinality(Accepting(c)') <= Cardinality(Requests)
  BY <1>2, RequestsAssumption, FS_Subset, FS_CardinalityType
<1>4. CASE accepted[c] <= errors[c]
  BY <1>2, <1>3, <1>4
<1>5. CASE ~ accepted[c] <= errors[c]
  <2>1. Accepting(c)' \subseteq Accepting(c)
    BY <1>5, NoRequestIn DEF Accepting
  <2>2. Cardinality(Accepting(c)') <= Cardinality(Accepting(c))
    BY <2>1, AcceptingFinite, FS_Subset
  <2>3. accepted[c] + Cardinality(Accepting(c)) <= Cardinality(Requests) + errors[c]
    BY DEF AcceptingFit
  <2> QED BY <1>2, <1>3, <2>2, <2>3, AcceptingFinite
<1> QED BY <1>4, <1>5

LEMMA CodeInit_Inv == EmailInit => CodeInv
<1> SUFFICES ASSUME EmailInit PROVE CodeInv
  OBVIOUS
<1>1. \A v \in Requests : request[v] = NoRequest
  BY DEF EmailInit
<1>2. EmailTypeOK
  <2>1. request \in [Requests -> RequestType]
    BY NoRequestIn DEF EmailInit
  <2>2. 0 \in 0..MaxCodes /\ 0 \in 0..EmailCodeTTL /\ 0 \in Forever..EmailCodeTTL
        /\ 0 \in 0..RateLimitTTL
    BY MaxCodesAssumption, EmailCodeTTLAssumption, RateLimitTTLAssumption DEF Forever
  <2> QED BY <2>1, <2>2 DEF EmailInit, EmailTypeOK, RequestType
<1>3. KeptCodes
  BY <1>1, NoRequestIn DEF KeptCodes, EmailInit, Codes
<1>4. AcceptingFit
  <2>1. \A c \in Codes : Accepting(c) = {} /\ accepted[c] = 0 /\ errors[c] = 0
    BY <1>1, NoRequestIn DEF Accepting, EmailInit
  <2> QED BY <2>1, FS_EmptySet, AcceptingFinite DEF AcceptingFit
<1>5. CalmRequests
  <2>1. Excused \in [Codes -> Nat]
    BY <1>2, ExcusedType
  <2> QED BY <1>1, <2>1, NoRequestIn, MaxAttemptsAssumption DEF CalmRequests, EmailInit
<1>6. CalmCounts
  BY DEF CalmCounts, EmailInit
<1> QED BY <1>2, <1>3, <1>4, <1>5, <1>6 DEF CodeInv

-----------------------------------------------------------------------------
(* What a calm step of one request takes for granted.                      *)
StaysCalm(v, r) ==
    /\ calm' \in BOOLEAN
    /\ calm' => calm
    /\ calm' => /\ \A w \in Requests : w # v => request[w] = NoRequest
                /\ r.at = "incr" => wrong[r.stored] < MaxAttempts + Excused[r.stored]
                /\ r.at = "incr" => code[First(r.purposes)] = r.stored

(* A step of one request that only looks.                                  *)
LEMMA LookStep ==
    ASSUME CodeInv, NEW v \in Requests, NEW r \in RequestType,
           request' = [request EXCEPT ![v] = r],
           UNCHANGED <<owned, code, codeTTL, attempts, attemptsTTL, limitTTL,
                       sent, wrong, accepted, errors>>,
           StaysCalm(v, r), RequestFits(r),
           r.at = "del" => accepted[r.stored] <= errors[r.stored],
           request[v].at \in {"idle", "get"}, r.at \notin {"expire", "retire"}
    PROVE  CodeInv'
<1>1. EmailTypeOK /\ KeptCodes /\ AcceptingFit /\ request \in [Requests -> RequestType]
  BY TypeFields DEF CodeInv, EmailTypeOK, RequestType
<1>2. \A w \in Requests : request'[w] = IF w = v THEN r ELSE request[w]
  BY <1>1
<1>3. EmailTypeOK'
  <2>1. request' \in [Requests -> RequestType]
    BY <1>1
  <2>2. calm' \in BOOLEAN
    BY DEF StaysCalm
  <2> QED BY <1>1, <2>1, <2>2 DEF EmailTypeOK, RequestType
<1>4. KeptCodes'
  <2>1. \A w \in Requests : RequestFits(request'[w])
    BY <1>1, <1>2 DEF KeptCodes
  <2>2. \A w \in Requests : RequestFits(request[w])'
    BY <2>1 DEF RequestFits
  <2> QED BY <1>1, <2>2 DEF KeptCodes
<1>5. AcceptingFit'
  <2>1. \A c \in Codes : errors'[c] \in Nat /\ errors[c] <= errors'[c]
    BY <1>1 DEF EmailTypeOK
  <2> QED BY <1>1, <1>2, <2>1, AcceptingShrinks
<1>6. ASSUME calm' PROVE CalmRequests' /\ CalmCounts'
  <2>0. Excused' = Excused
    BY DEF Excused
  <2>1. CalmRequests /\ CalmCounts
    BY <1>6 DEF CodeInv, StaysCalm
  <2>2. CalmRequests'
    BY <1>2, <1>6, <2>0, <2>1, NoRequestIn DEF CalmRequests, StaysCalm
  <2>3. \A p, S : S \subseteq {"expire", "retire"} => (At(p, S)' <=> At(p, S))
    BY <1>2 DEF At
  <2>4. CalmCounts'
    BY <2>0, <2>1, <2>3 DEF CalmCounts
  <2> QED BY <2>2, <2>4
<1> QED BY <1>3, <1>4, <1>5, <1>6 DEF CodeInv

LEMMA StartStep ==
    ASSUME CodeInv, NEW v \in Requests, NEW op \in {"verify", "link", "reset"},
           NEW purposes \in SUBSET Purposes, purposes # {},
           StartCheck(v, op, purposes)
    PROVE  CodeInv'
<1>1. PICK given \in 0..sent :
        request' = [request EXCEPT ![v] =
                      [NoRequest EXCEPT !.op = op, !.at = "get",
                         !.given = given, !.purposes = purposes]]
  BY DEF StartCheck
<1> DEFINE r == [NoRequest EXCEPT !.op = op, !.at = "get",
                    !.given = given, !.purposes = purposes]
<1>2. given \in 0..MaxCodes /\ calm \in BOOLEAN
  BY MaxCodesAssumption DEF CodeInv, EmailTypeOK
<1>3. r \in RequestType /\ r.at = "get" /\ r.purposes = purposes
  BY <1>2, NoRequestIn DEF RequestType
<1>4. request' = [request EXCEPT ![v] = r]
  BY <1>1
<1> HIDE DEF r
<1>5. RequestFits(r)
  BY <1>3 DEF RequestFits, Holding
<1>6. request[v].at = "idle"
  BY NoRequestIn DEF StartCheck
<1>7. /\ UNCHANGED <<owned, code, codeTTL, attempts, attemptsTTL, limitTTL, sent,
                     wrong, accepted, errors>>
      /\ calm' \in BOOLEAN
      /\ calm' => calm
      /\ calm' => \A w \in Requests : request[w] = NoRequest
  BY <1>2 DEF StartCheck, Idle
<1>8. /\ r.at # "del" /\ r.at # "incr" /\ r.at \notin {"expire", "retire"}
      /\ request[v].at \in {"idle", "get"}
  BY <1>3, <1>6
<1>9. StaysCalm(v, r)
  BY <1>7, <1>8 DEF StaysCalm
<1> QED BY <1>3, <1>4, <1>5, <1>7, <1>8, <1>9, LookStep

LEMMA GetStep ==
    ASSUME CodeInv, NEW v \in Requests, GetCode(v)
    PROVE  CodeInv'
<1> DEFINE old == request[v]
           p == First(old.purposes)
<1>0. PICK held \in {code[p], 0} :
        request' = [request EXCEPT ![v] =
          IF held = 0 THEN NextPurpose(v)
          ELSE [@ EXCEPT !.stored = held,
                         !.at = IF held = old.given THEN "del" ELSE "incr"]]
  BY NowIsFirst DEF GetCode
<1> DEFINE a == IF held = old.given THEN "del" ELSE "incr"
           m == [old EXCEPT !.stored = held, !.at = a]
           r == IF held = 0 THEN NextPurpose(v) ELSE m
<1>1. /\ EmailTypeOK /\ KeptCodes /\ old \in RequestType
      /\ request \in [Requests -> RequestType] /\ p \in Purposes
      /\ calm => CalmRequests /\ CalmCounts
  BY TypeFields, FirstIsPurpose DEF CodeInv
<1>2. /\ old.at = "get"
      /\ UNCHANGED <<owned, code, codeTTL, attempts, attemptsTTL, limitTTL, sent,
                     wrong, accepted, errors, calm>>
  BY DEF GetCode
<1>3. request' = [request EXCEPT ![v] = r]
  BY <1>0, <1>1
<1>4. held \in 0..MaxCodes /\ held \in 0..sent /\ sent \in Nat
  <2>1. sent \in 0..MaxCodes /\ code[p] \in 0..sent
    BY <1>1 DEF EmailTypeOK, KeptCodes
  <2> QED BY <2>1, MaxCodesAssumption
<1>5. CASE held = 0
  <2>1. r = NextPurpose(v)
    BY <1>5
  <2>2. r \in RequestType /\ r.at \in {"idle", "get"} /\ RequestFits(r)
    BY <1>1, <2>1, NextPurposeFits
  <2>3. calm' => \A w \in Requests : w # v => request[w] = NoRequest
    BY <1>1, <1>2, NoRequestIn DEF CalmRequests
  <2>4. StaysCalm(v, r)
    BY <1>1, <1>2, <2>2, <2>3 DEF StaysCalm, EmailTypeOK
  <2> HIDE DEF r
  <2> QED BY <1>2, <1>3, <2>2, <2>4, LookStep
<1>6. CASE held # 0
  <2>1. r = m
    BY <1>6
  <2>2. a \in {"del", "incr"}
    OBVIOUS
  <2>3. code[p] = held
    BY <1>6
  <2> HIDE DEF a
  <2>4. /\ m \in RequestType
        /\ m.at = a /\ m.stored = held /\ m.purposes = old.purposes
    BY <1>1, <1>4, <2>2 DEF RequestType
  <2> HIDE DEF m
  <2>5. RequestFits(m)
    <3>1. \A q \in Purposes : code[q] = held => q = p
      BY <1>1, <1>6, <2>3 DEF KeptCodes
    <3>2. held \in 1..sent
      BY <1>4, <1>6
    <3>3. old.purposes # {}
      BY <1>1, <1>2 DEF KeptCodes, RequestFits
    <3> QED BY <2>2, <2>4, <3>1, <3>2, <3>3 DEF RequestFits
  <2>6. accepted[held] <= errors[held]
    BY <1>1, <1>6, <2>3 DEF KeptCodes
  <2>7. ASSUME calm'
        PROVE  /\ \A w \in Requests : w # v => request[w] = NoRequest
               /\ wrong[held] < MaxAttempts + Excused[held]
    <3>1. \A w \in Requests : w # v => request[w] = NoRequest
      BY <1>1, <1>2, <2>7, NoRequestIn DEF CalmRequests
    <3>2. ~ At(p, {"expire", "retire"})
      BY <1>2, <3>1, NoRequestIn DEF At
    <3> QED BY <1>1, <1>2, <1>6, <2>3, <2>7, <3>1, <3>2 DEF CalmCounts
  <2>8. code[First(m.purposes)] = m.stored
    BY <2>3, <2>4
  <2>9. StaysCalm(v, m)
    BY <1>1, <1>2, <2>4, <2>7, <2>8 DEF StaysCalm, EmailTypeOK
  <2>10. m.at \notin {"expire", "retire"}
    BY <2>2, <2>4
  <2> HIDE DEF r, p
  <2> QED BY <1>2, <1>3, <2>1, <2>4, <2>5, <2>6, <2>9, <2>10, LookStep
<1> QED BY <1>5, <1>6

(* The code given is accepted; the key of the purpose is gone, unless an   *)
(* error of that code is counted.                                          *)
LEMMA AcceptStep ==
    ASSUME CodeInv, NEW v \in Requests, AcceptCode(v)
    PROVE  CodeInv'
<1> DEFINE c == request[v].stored
           p == First(request[v].purposes)
<1>1. /\ EmailTypeOK /\ KeptCodes /\ AcceptingFit /\ p \in Purposes
      /\ request[v] \in RequestType /\ request \in [Requests -> RequestType]
      /\ calm => CalmRequests /\ CalmCounts
  BY TypeFields, FirstIsPurpose DEF CodeInv
<1>2. /\ request[v].at = "del"
      /\ accepted' = [accepted EXCEPT ![c] = @ + 1]
      /\ \/ /\ code' = [code EXCEPT ![p] = 0] /\ codeTTL' = [codeTTL EXCEPT ![p] = 0]
            /\ NoError
         \/ UNCHANGED <<code, codeTTL>> /\ ErrorIn(v)
      /\ owned' \in {owned, owned \/ request[v].op = "link"}
      /\ request' = [request EXCEPT ![v] = NoRequest]
      /\ UNCHANGED <<attempts, attemptsTTL, limitTTL, sent, wrong, calm>>
  BY NowIsFirst DEF AcceptCode, Accept, Drop
<1>3. /\ c \in 1..sent /\ c \in Codes /\ sent \in Nat
      /\ \A q \in Purposes : code[q] = c => q = p
  BY <1>1, <1>2, MaxCodesAssumption
  DEF KeptCodes, RequestFits, Holding, EmailTypeOK, Codes
<1>4. /\ errors' \in [Codes -> Nat] /\ MaxAttempts \in Nat
       /\ ErrorsGrow /\ NoOtherError(c) /\ (ErrorIn(v) => ErrorOf(c))
  BY <1>1, <1>2, <1>3, ErrorsCount
<1> HIDE DEF c, p
<1>5. /\ \A d \in Codes : accepted'[d] = IF d = c THEN accepted[c] + 1 ELSE accepted[d]
      /\ \A d \in Codes : accepted[d] \in Nat
      /\ \A q \in Purposes : q # p => code'[q] = code[q] /\ codeTTL'[q] = codeTTL[q]
      /\ \/ code'[p] = 0
         \/ code'[p] = code[p] /\ codeTTL'[p] = codeTTL[p] /\ ErrorIn(v)
      /\ \A q \in Purposes : code[q] \in 0..MaxCodes
  BY <1>1, <1>2 DEF EmailTypeOK
<1>6. \A w \in Requests : request'[w] = IF w = v THEN NoRequest ELSE request[w]
  BY <1>1, <1>2
<1>7. EmailTypeOK'
  <2>1. request' \in [Requests -> RequestType]
    BY <1>1, <1>2, NoRequestIn
  <2>2. accepted' \in [Codes -> Nat]
    BY <1>1, <1>2, <1>3 DEF EmailTypeOK
  <2>3. code' \in [Purposes -> 0..MaxCodes] /\ codeTTL' \in [Purposes -> 0..EmailCodeTTL]
    <3>1. code \in [Purposes -> 0..MaxCodes] /\ codeTTL \in [Purposes -> 0..EmailCodeTTL]
          /\ 0 \in 0..MaxCodes /\ 0 \in 0..EmailCodeTTL
      BY <1>1, MaxCodesAssumption, EmailCodeTTLAssumption DEF EmailTypeOK
    <3> QED BY <1>2, <3>1
  <2>4. owned' \in BOOLEAN
    BY <1>1, <1>2 DEF EmailTypeOK
  <2> QED BY <1>1, <1>2, <1>4, <2>1, <2>2, <2>3, <2>4 DEF EmailTypeOK, RequestType
<1>8. KeptCodes'
  <2>1. \A w \in Requests : RequestFits(request[w])'
    <3> TAKE w \in Requests
    <3>1. RequestFits(request[w]) /\ RequestFits(NoRequest)
      BY <1>1, NoRequestIn DEF KeptCodes
    <3>2. \A q \in Purposes : code'[q] \in {0, code[q]}
      BY <1>5
    <3>3. request[w].at \in Holding => request[w].stored # 0
      BY <3>1, <1>3 DEF RequestFits
    <3> QED BY <1>2, <1>6, <3>1, <3>2, <3>3 DEF RequestFits
  <2>2. \A q \in Purposes :
           /\ code'[q] \in 0..sent
           /\ code'[q] # 0 => codeTTL'[q] > 0 /\ accepted'[code'[q]] <= errors'[code'[q]]
           /\ \A s \in Purposes : code'[q] = code'[s] /\ code'[q] # 0 => q = s
    <3> TAKE q \in Purposes
    <3>1. CASE code'[q] = 0
      BY <1>3, <3>1
    <3>2. CASE code'[q] # 0
      <4>1. /\ code'[q] = code[q] /\ codeTTL'[q] = codeTTL[q]
            /\ q = p => ErrorIn(v)
        BY <1>5, <3>2
      <4>2. code[q] \in Codes
        BY <1>5, <3>2, <4>1, MaxCodesAssumption DEF Codes
      <4>3. /\ code[q] \in 0..sent /\ codeTTL[q] > 0 /\ accepted[code[q]] <= errors[code[q]]
            /\ \A s \in Purposes : code[q] = code[s] => q = s
        BY <1>1, <3>2, <4>1 DEF KeptCodes
      <4>4. accepted'[code[q]] <= errors'[code[q]]
        <5>1. CASE code[q] = c
          <6>1. ErrorIn(v)
            BY <1>3, <4>1, <5>1
          <6> QED BY <1>3, <1>5, <1>4, <4>3, <5>1, <6>1 DEF ErrorsGrow, ErrorOf
        <5>2. CASE code[q] # c
          BY <1>5, <1>4, <4>2, <4>3, <5>2 DEF NoOtherError
        <5> QED BY <5>1, <5>2
      <4>5. \A s \in Purposes : code'[q] = code'[s] => q = s
        BY <1>5, <3>2, <4>1, <4>3
      <4> QED BY <4>1, <4>3, <4>4, <4>5
    <3> QED BY <3>1, <3>2
  <2>3. \A d \in Codes : d > sent => accepted'[d] = 0 /\ wrong[d] = 0
    BY <1>1, <1>3, <1>5 DEF KeptCodes
  <2> QED BY <1>2, <2>1, <2>2, <2>3 DEF KeptCodes
<1>9. AcceptingFit'
  <2> SUFFICES ASSUME NEW d \in Codes
               PROVE  accepted'[d] + Cardinality(Accepting(d)')
                        <= Cardinality(Requests) + errors'[d]
    BY DEF AcceptingFit
  <2>1. accepted[d] + Cardinality(Accepting(d)) <= Cardinality(Requests) + errors[d]
    BY <1>1 DEF AcceptingFit
  <2>2. CASE d = c
    <3>1. v \in Accepting(d) /\ Accepting(d)' = Accepting(d) \ {v}
      BY <1>2, <1>6, <2>2, NoRequestIn DEF Accepting, c
    <3>2. Cardinality(Accepting(d)') = Cardinality(Accepting(d)) - 1
      BY <3>1, AcceptingFinite, FS_RemoveElement
    <3>3. accepted'[d] = accepted[d] + 1 /\ accepted[d] \in Nat
      BY <1>5, <2>2
    <3> QED BY <1>4, <2>1, <3>2, <3>3, AcceptingFinite DEF ErrorsGrow
  <2>3. CASE d # c
    <3>1. Accepting(d)' = Accepting(d)
      BY <1>6, <2>3, NoRequestIn DEF Accepting, c
    <3>2. accepted'[d] = accepted[d] /\ errors'[d] = errors[d]
      BY <1>5, <1>4, <2>3 DEF NoOtherError
    <3> QED BY <2>1, <3>1, <3>2
  <2> QED BY <2>2, <2>3
<1>10. ASSUME calm' PROVE CalmRequests' /\ CalmCounts'
  <2>1. CalmRequests /\ CalmCounts
    BY <1>1, <1>2, <1>10
  <2>2. \A w \in Requests : request'[w] = NoRequest
    BY <1>2, <1>6, <2>1, NoRequestIn DEF CalmRequests
  <2>3. accepted[c] <= errors[c]
    BY <1>2, <2>1 DEF CalmRequests, c
  <2>4. CalmRequests'
    <3>1. \A d \in Codes : accepted'[d] <= 1 + errors'[d]
      <4> TAKE d \in Codes
      <4>1. CASE d = c
        BY <1>5, <1>4, <2>3, <4>1 DEF ErrorsGrow
      <4>2. CASE d # c
        BY <1>5, <1>4, <2>1, <4>2 DEF CalmRequests, NoOtherError
      <4> QED BY <4>1, <4>2
    <3>2. \A d \in Codes : wrong'[d] <= MaxAttempts + Excused'[d]
      BY <1>1, <1>2, <1>4, <2>1, CalmStillWithin
    <3> QED BY <2>2, <3>1, <3>2, NoRequestIn DEF CalmRequests
  <2>5. \A q, S : S \subseteq {"expire", "retire"} => ~ At(q, S)' /\ ~ At(q, S)
    <3>1. \A w \in Requests : request[w] = NoRequest \/ w = v
      BY <1>6, <2>2
    <3> QED BY <1>2, <2>2, <3>1, NoRequestIn DEF At
  <2>6. CalmCounts'
    <3> SUFFICES ASSUME NEW q \in Purposes, code'[q] # 0
                 PROVE  /\ wrong[code'[q]] < MaxAttempts + Excused'[code'[q]]
                        /\ wrong[code'[q]] <= attempts[q] + Excused'[code'[q]]
                        /\ wrong[code'[q]] > Excused'[code'[q]]
                             => codeTTL'[q] <= attemptsTTL[q]
      BY <1>2 DEF CalmCounts
    <3>1. code'[q] = code[q] /\ codeTTL'[q] = codeTTL[q] /\ code[q] # 0
      BY <1>5
    <3> QED BY <1>1, <1>4, <2>1, <2>5, <3>1, CountsStillWithin
  <2> QED BY <2>4, <2>6
<1> QED BY <1>7, <1>8, <1>9, <1>10 DEF CodeInv

(* A wrong code is counted, or an error of the code is.                    *)
LEMMA CountStep ==
    ASSUME CodeInv, NEW v \in Requests, CountAttempt(v)
    PROVE  CodeInv'
<1> DEFINE old == request[v]
           c == old.stored
           p == First(old.purposes)
           ttl == IF attempts[p] = 0 THEN Forever ELSE attemptsTTL[p]
           Added == /\ attempts' = [attempts EXCEPT ![p] = @ + 1]
                    /\ attemptsTTL' = [attemptsTTL EXCEPT ![p] = ttl]
<1>1. /\ EmailTypeOK /\ KeptCodes /\ AcceptingFit /\ p \in Purposes
      /\ old \in RequestType /\ request \in [Requests -> RequestType]
      /\ calm => CalmRequests /\ CalmCounts
  BY TypeFields, FirstIsPurpose DEF CodeInv
<1>2. PICK k \in {attempts[p] + 1, 0} :
        /\ request' = [request EXCEPT ![v].at = "expire", ![v].count = k]
        /\ IF k = 0
             THEN ErrorIn(v) /\ (Added \/ UNCHANGED <<attempts, attemptsTTL>>)
             ELSE NoError /\ Added
  BY <1>1, NowIsFirst DEF CountAttempt, Incr
<1> DEFINE r == [old EXCEPT !.at = "expire", !.count = k]
<1>3. /\ old.at = "incr"
      /\ request' = [request EXCEPT ![v] = r]
      /\ wrong' = [wrong EXCEPT ![c] = @ + 1]
      /\ UNCHANGED <<owned, code, codeTTL, limitTTL, sent, accepted, calm>>
  BY <1>1, <1>2 DEF CountAttempt
<1>4. /\ c \in 1..sent /\ c \in Codes /\ sent \in Nat /\ old.purposes # {}
      /\ \A q \in Purposes : code[q] = c => q = p
  <2>1. RequestFits(old) /\ sent \in 0..MaxCodes
    BY <1>1 DEF KeptCodes, EmailTypeOK
  <2> HIDE DEF old
  <2> QED BY <1>3, <2>1, MaxCodesAssumption DEF RequestFits, Holding, Codes, c, p
<1>5. /\ attempts[p] \in Nat /\ k \in Nat /\ ttl \in Forever..EmailCodeTTL
      /\ attemptsTTL[p] \in Forever..EmailCodeTTL
  BY <1>1, <1>2, EmailCodeTTLAssumption DEF EmailTypeOK, Forever
<1>6. /\ errors' \in [Codes -> Nat] /\ MaxAttempts \in Nat
      /\ ErrorsGrow /\ NoOtherError(c) /\ (k = 0 => ErrorOf(c))
  BY <1>1, <1>2, <1>4, ErrorsCount
<1>7. /\ r \in RequestType /\ r.at = "expire" /\ r.count = k
      /\ r.stored = c /\ r.purposes = old.purposes
  BY <1>1, <1>5 DEF RequestType
<1> HIDE DEF r
<1>8. /\ \A w \in Requests : request'[w] = IF w = v THEN r ELSE request[w]
      /\ \A d \in Codes : wrong'[d] = IF d = c THEN wrong[c] + 1 ELSE wrong[d]
      /\ \A d \in Codes : wrong[d] \in Nat
      /\ wrong' \in [Codes -> Nat]
  BY <1>1, <1>3, <1>4 DEF EmailTypeOK
<1>9. /\ attempts' \in [Purposes -> Nat]
      /\ attemptsTTL' \in [Purposes -> Forever..EmailCodeTTL]
      /\ attempts'[p] \in {attempts[p], attempts[p] + 1}
      /\ k # 0 => attempts'[p] = attempts[p] + 1 /\ k = attempts'[p]
      /\ \A q \in Purposes :
           q # p => attempts'[q] = attempts[q] /\ attemptsTTL'[q] = attemptsTTL[q]
  <2>1. /\ attempts \in [Purposes -> Nat]
        /\ attemptsTTL \in [Purposes -> Forever..EmailCodeTTL]
    BY <1>1 DEF EmailTypeOK
  <2> HIDE DEF p, ttl
  <2>2. CASE Added
    BY <1>1, <1>2, <1>5, <2>1, <2>2
  <2>3. CASE UNCHANGED <<attempts, attemptsTTL>> /\ k = 0
    BY <2>1, <2>3
  <2> QED BY <1>2, <2>2, <2>3
<1> HIDE DEF Added, ttl
<1>10. EmailTypeOK'
  <2>1. request' \in [Requests -> RequestType]
    BY <1>1, <1>3, <1>7
  <2> QED BY <1>1, <1>3, <1>6, <1>8, <1>9, <2>1 DEF EmailTypeOK, RequestType
<1>11. KeptCodes'
  <2>1. \A w \in Requests : RequestFits(request[w])'
    <3> TAKE w \in Requests
    <3>1. RequestFits(request[w]) /\ RequestFits(old)
      BY <1>1 DEF KeptCodes
    <3> HIDE DEF old
    <3> QED BY <1>3, <1>4, <1>7, <1>8, <3>1 DEF RequestFits, p, Holding, c
  <2>2. \A d \in Codes : d > sent => accepted[d] = 0 /\ wrong'[d] = 0
    BY <1>1, <1>4, <1>8 DEF KeptCodes
  <2>3. \A q \in Purposes : code[q] # 0 => accepted[code[q]] <= errors'[code[q]]
    BY <1>1, <1>6, StillWithin
  <2> QED BY <1>1, <1>3, <2>1, <2>2, <2>3 DEF KeptCodes
<1>12. AcceptingFit'
  <2>1. \A w \in Requests : request'[w] \in {IF w = v THEN r ELSE request[w], NoRequest}
    BY <1>8
  <2>2. r.at # "del"
    BY <1>7
  <2>3. \A d \in Codes : errors'[d] \in Nat /\ errors[d] <= errors'[d]
    BY <1>6 DEF ErrorsGrow
  <2> QED BY <1>1, <1>3, <2>1, <2>2, <2>3, AcceptingShrinks
<1>13. ASSUME calm' PROVE CalmRequests' /\ CalmCounts'
  <2>1. CalmRequests /\ CalmCounts
    BY <1>1, <1>3, <1>13
  <2>2. \A w \in Requests : w # v => request[w] = NoRequest
    BY <1>3, <2>1, NoRequestIn DEF CalmRequests
  <2>3. /\ wrong[c] < MaxAttempts + Excused[c]
        /\ code[p] \notin {0, c} => wrong[code[p]] = 0
    BY <1>3, <2>1 DEF CalmRequests
  <2>4. /\ wrong[c] \in Nat /\ Excused[c] \in Nat /\ Excused'[c] \in Nat
        /\ Excused[c] <= Excused'[c] /\ wrong'[c] = wrong[c] + 1
        /\ k = 0 => Excused'[c] = Excused[c] + MaxAttempts
    BY <1>4, <1>6, <1>8 DEF ErrorsGrow, ErrorOf
  <2>5. /\ wrong'[c] <= MaxAttempts + Excused'[c]
        /\ k = 0 => wrong'[c] <= Excused'[c]
    BY <1>6, <2>3, <2>4
  <2>6. CalmRequests'
    <3>1. \A d \in Codes : accepted'[d] <= 1 + errors'[d]
                          /\ wrong'[d] <= MaxAttempts + Excused'[d]
      <4> TAKE d \in Codes
      <4>1. accepted[d] <= 1 + errors'[d] /\ wrong[d] <= MaxAttempts + Excused'[d]
        BY <1>1, <1>6, <2>1, CalmStillWithin
      <4> QED BY <1>3, <1>8, <2>5, <4>1
    <3>2. code[p] \notin {0, c} => wrong'[code[p]] = 0
      <4>1. code[p] # 0 => code[p] \in Codes
        BY <1>1, MaxCodesAssumption DEF EmailTypeOK, Codes
      <4> QED BY <1>8, <2>3, <4>1
    <3>3. \/ r.count = attempts'[p]
          \/ r.count = 0 /\ wrong'[r.stored] <= Excused'[r.stored]
      BY <1>7, <1>9, <2>5
    <3> HIDE DEF c, p
    <3>4. First(r.purposes) = p
      BY <1>7 DEF p
    <3> QED BY <1>3, <1>7, <1>8, <2>2, <3>1, <3>2, <3>3, <3>4, NoRequestIn DEF CalmRequests
  <2>7. \A q, S : S \subseteq {"expire", "retire"} => ~ At(q, S)
    BY <1>3, <2>2, NoRequestIn DEF At
  <2>8. \A q : q = p => At(q, {"expire"})' /\ At(q, {"expire", "retire"})'
    BY <1>7, <1>8 DEF At, p
  <2>9. CalmCounts'
    <3> SUFFICES ASSUME NEW q \in Purposes, code[q] # 0
                 PROVE  /\ ~ At(q, {"expire", "retire"})'
                             => wrong'[code[q]] < MaxAttempts + Excused'[code[q]]
                        /\ wrong'[code[q]] <= attempts'[q] + Excused'[code[q]]
                        /\ wrong'[code[q]] > Excused'[code[q]] /\ ~ At(q, {"expire"})'
                             => codeTTL[q] <= attemptsTTL'[q]
      BY <1>3 DEF CalmCounts
    <3>1. /\ wrong[code[q]] < MaxAttempts + Excused[code[q]]
          /\ wrong[code[q]] <= attempts[q] + Excused[code[q]]
          /\ wrong[code[q]] > Excused[code[q]] => codeTTL[q] <= attemptsTTL[q]
      BY <2>1, <2>7 DEF CalmCounts
    <3>2. code[q] \in Codes
      BY <1>1, MaxCodesAssumption DEF EmailTypeOK, Codes
    <3>3. CASE q = p
      <4>1. At(q, {"expire"})' /\ At(q, {"expire", "retire"})'
        BY <2>8, <3>3
      <4>2. wrong'[code[q]] <= attempts'[q] + Excused'[code[q]]
        <5>1. CASE code[q] = c
          <6>1. wrong[c] <= attempts[p] + Excused[c]
            BY <3>1, <3>3, <5>1
          <6>2. wrong'[c] <= attempts'[p] + Excused'[c]
            <7>1. attempts'[p] \in Nat
              BY <1>5, <1>9
            <7> HIDE DEF c, p
            <7>2. CASE k = 0
              BY <2>4, <2>5, <7>1, <7>2
            <7>3. CASE k # 0
              BY <1>5, <1>9, <2>4, <6>1, <7>3
            <7> QED BY <7>2, <7>3
          <6> QED BY <3>3, <5>1, <6>2
        <5>2. CASE code[q] # c
          <6>1. wrong'[code[q]] = 0
            BY <1>8, <2>3, <3>2, <3>3, <5>2
          <6>2. attempts'[q] \in Nat /\ Excused'[code[q]] \in Nat
            BY <1>6, <1>9, <3>2 DEF ErrorsGrow
          <6> QED BY <6>1, <6>2
        <5> QED BY <5>1, <5>2
      <4> QED BY <4>1, <4>2
    <3>4. CASE q # p
      <4>1. code[q] # c
        BY <1>4, <3>4
      <4>2. /\ wrong'[code[q]] = wrong[code[q]] /\ Excused'[code[q]] = Excused[code[q]]
            /\ attempts'[q] = attempts[q] /\ attemptsTTL'[q] = attemptsTTL[q]
        BY <1>6, <1>8, <1>9, <3>2, <3>4, <4>1 DEF NoOtherError
      <4> QED BY <3>1, <4>2
    <3> QED BY <3>3, <3>4
  <2> QED BY <2>6, <2>9
<1> QED BY <1>10, <1>11, <1>12, <1>13 DEF CodeInv

(* The count is given its time, or an error of the code is counted.        *)
LEMMA ExpireStep ==
    ASSUME CodeInv, NEW v \in Requests, ExpireAttempts(v)
    PROVE  CodeInv'
<1> DEFINE old == request[v]
           c == old.stored
           p == First(old.purposes)
           ttl == IF attempts[p] = 0 THEN 0 ELSE EmailCodeTTL
           m == [old EXCEPT !.at = "retire"]
           last == old.count >= MaxAttempts
           r == IF last THEN m ELSE NextPurpose(v)
<1>1. /\ EmailTypeOK /\ KeptCodes /\ AcceptingFit /\ p \in Purposes
      /\ old \in RequestType /\ request \in [Requests -> RequestType]
      /\ calm => CalmRequests /\ CalmCounts
  BY TypeFields, FirstIsPurpose DEF CodeInv
<1>2. /\ old.at = "expire"
      /\ \/ attemptsTTL' = [attemptsTTL EXCEPT ![p] = ttl] /\ NoError
         \/ UNCHANGED attemptsTTL /\ ErrorIn(v)
      /\ request' = [request EXCEPT ![v] = r]
      /\ UNCHANGED <<owned, code, codeTTL, attempts, limitTTL, sent, wrong,
                     accepted, calm>>
  BY <1>1, NowIsFirst DEF ExpireAttempts
<1>3. RequestFits(old) /\ old.count \in Nat
  BY <1>1, TypeFields DEF KeptCodes
<1>4. /\ c \in Codes
      /\ \A q \in Purposes : code[q] = c => q = p
  <2>1. sent \in 0..MaxCodes
    BY <1>1 DEF EmailTypeOK
  <2> HIDE DEF old
  <2> QED BY <1>2, <1>3, <2>1, MaxCodesAssumption DEF RequestFits, Holding, Codes, c, p
<1>5. /\ errors' \in [Codes -> Nat] /\ MaxAttempts \in Nat
      /\ ErrorsGrow /\ NoOtherError(c) /\ (ErrorIn(v) => ErrorOf(c))
  BY <1>1, <1>2, <1>4, ErrorsCount
<1>6. ttl \in Forever..EmailCodeTTL
  BY EmailCodeTTLAssumption DEF Forever
<1>7. /\ m \in RequestType /\ m.at = "retire" /\ m.count = old.count
      /\ m.stored = old.stored /\ m.purposes = old.purposes
  BY <1>1 DEF RequestType
<1> HIDE DEF m, ttl
<1>8. RequestFits(m)
  <2> HIDE DEF old
  <2> QED BY <1>2, <1>3, <1>7 DEF RequestFits, Holding
<1>9. /\ r \in RequestType /\ RequestFits(r)
      /\ last => r = m
      /\ ~ last => r.at \in {"idle", "get"}
  BY <1>1, <1>7, <1>8, NextPurposeFits
<1> HIDE DEF r, last
<1>10. \A w \in Requests : request'[w] = IF w = v THEN r ELSE request[w]
  BY <1>1, <1>2
<1>11. /\ \A q \in Purposes : q # p => attemptsTTL'[q] = attemptsTTL[q]
       /\ ErrorIn(v) \/ attemptsTTL'[p] = ttl
  BY <1>1, <1>2 DEF EmailTypeOK
<1>12. EmailTypeOK'
  <2>1. request' \in [Requests -> RequestType]
    BY <1>1, <1>2, <1>9
  <2>2. attemptsTTL' \in [Purposes -> Forever..EmailCodeTTL]
    BY <1>1, <1>2, <1>6 DEF EmailTypeOK
  <2> QED BY <1>1, <1>2, <1>5, <2>1, <2>2 DEF EmailTypeOK, RequestType
<1>13. KeptCodes'
  <2>1. \A w \in Requests : RequestFits(request'[w])
    BY <1>1, <1>9, <1>10 DEF KeptCodes
  <2>2. \A w \in Requests : RequestFits(request[w])'
    BY <1>2, <2>1 DEF RequestFits
  <2>3. \A q \in Purposes : code[q] # 0 => accepted[code[q]] <= errors'[code[q]]
    BY <1>1, <1>5, StillWithin
  <2> QED BY <1>1, <1>2, <2>2, <2>3 DEF KeptCodes
<1>14. AcceptingFit'
  <2>1. \A w \in Requests : request'[w] \in {IF w = v THEN r ELSE request[w], NoRequest}
    BY <1>10
  <2>2. r.at # "del"
    BY <1>7, <1>9
  <2>3. \A d \in Codes : errors'[d] \in Nat /\ errors[d] <= errors'[d]
    BY <1>5 DEF ErrorsGrow
  <2> QED BY <1>1, <1>2, <2>1, <2>2, <2>3, AcceptingShrinks
<1>15. ASSUME calm' PROVE CalmRequests' /\ CalmCounts'
  <2>1. CalmRequests /\ CalmCounts
    BY <1>1, <1>2, <1>15
  <2>2. \A w \in Requests : w # v => request[w] = NoRequest
    BY <1>2, <2>1, NoRequestIn DEF CalmRequests
  <2>3. /\ wrong[c] <= MaxAttempts + Excused[c]
        /\ old.count = attempts[p] \/ (old.count = 0 /\ wrong[c] <= Excused[c])
        /\ code[p] \notin {0, c} => wrong[code[p]] = 0
    BY <1>2, <1>4, <2>1 DEF CalmRequests
  <2>4. CalmRequests'
    <3>1. \A d \in Codes : /\ accepted[d] <= 1 + errors'[d]
                           /\ wrong[d] <= MaxAttempts + Excused'[d]
      BY <1>1, <1>5, <2>1, CalmStillWithin
    <3>2. r.at = "retire" => r.purposes = old.purposes /\ r.stored = c
      BY <1>7, <1>9
    <3>3. r.at \in {"idle", "get", "retire"}
      BY <1>7, <1>9
    <3>4. r.at = "retire" /\ code[First(r.purposes)] \notin {0, r.stored}
            => wrong[code[First(r.purposes)]] = 0
      BY <2>3, <3>2
    <3> HIDE DEF old, c, p
    <3> QED BY <1>2, <1>10, <2>2, <3>1, <3>3, <3>4, NoRequestIn DEF CalmRequests
  <2>5. \A q, S : S \subseteq {"expire", "retire"} /\ q # p => ~ At(q, S)
    BY <1>2, <2>2, NoRequestIn DEF At
  <2>6. \A q : q = p /\ last => At(q, {"expire", "retire"})'
    BY <1>7, <1>9, <1>10 DEF At
  <2>7. CalmCounts'
    <3> SUFFICES ASSUME NEW q \in Purposes, code[q] # 0
                 PROVE  /\ ~ At(q, {"expire", "retire"})'
                             => wrong[code[q]] < MaxAttempts + Excused'[code[q]]
                        /\ wrong[code[q]] <= attempts[q] + Excused'[code[q]]
                        /\ wrong[code[q]] > Excused'[code[q]]
                             => codeTTL[q] <= attemptsTTL'[q]
      BY <1>2 DEF CalmCounts
    <3>1. /\ code[q] \in Codes /\ wrong[code[q]] \in Nat
          /\ Excused[code[q]] \in Nat /\ Excused'[code[q]] \in Nat
          /\ ~ At(q, {"expire", "retire"})
               => wrong[code[q]] < MaxAttempts + Excused'[code[q]]
          /\ wrong[code[q]] <= attempts[q] + Excused'[code[q]]
          /\ wrong[code[q]] > Excused'[code[q]] /\ ~ At(q, {"expire"})
               => codeTTL[q] <= attemptsTTL[q]
      BY <1>1, <1>5, <2>1, CountsStillWithin
    <3>2. CASE q # p
      BY <1>11, <2>5, <3>1, <3>2
    <3>3. CASE q = p /\ wrong[code[q]] <= Excused'[code[q]]
      BY <1>5, <3>1, <3>3, MaxAttemptsAssumption
    <3>4. CASE q = p /\ ~ wrong[code[q]] <= Excused'[code[q]]
      <4>1. code[p] = c /\ ~ ErrorIn(v)
        <5>1. code[p] = c
          BY <2>3, <3>1, <3>4
        <5>2. ErrorIn(v) => Excused'[c] = Excused[c] + MaxAttempts
          BY <1>5 DEF ErrorOf
        <5> HIDE DEF c, p
        <5> QED BY <1>5, <2>3, <3>1, <3>4, <5>1, <5>2
      <4>2. Excused'[c] = Excused[c]
        <5>1. errors' = errors
          BY <1>2, <4>1 DEF NoError
        <5> QED BY <5>1 DEF Excused
      <4>3. old.count = attempts[p]
        BY <2>3, <3>1, <3>4, <4>1, <4>2
      <4>4. wrong[c] <= attempts[p] + Excused'[c] /\ wrong[c] > Excused'[c]
        BY <3>1, <3>4, <4>1
      <4>5. attempts[p] \in Nat /\ attempts[p] > 0
        <5>1. attempts[p] \in Nat /\ wrong[c] \in Nat /\ Excused'[c] \in Nat
          BY <1>1, <3>1, <4>1, <3>4 DEF EmailTypeOK
        <5> HIDE DEF c, p
        <5> QED BY <4>4, <5>1
      <4>6. codeTTL[p] <= attemptsTTL'[p]
        <5>1. attemptsTTL'[p] = EmailCodeTTL
          BY <1>11, <4>1, <4>5 DEF ttl
        <5>2. codeTTL[p] \in 0..EmailCodeTTL
          BY <1>1 DEF EmailTypeOK
        <5> QED BY <5>1, <5>2, EmailCodeTTLAssumption
      <4>7. ~ last => wrong[c] < MaxAttempts + Excused'[c]
        <5>1. ~ last => attempts[p] < MaxAttempts
          BY <1>3, <1>5, <4>3 DEF last
        <5>2. wrong[c] \in Nat /\ Excused'[c] \in Nat
          BY <3>1, <3>4, <4>1
        <5> HIDE DEF c, p
        <5> QED BY <1>5, <4>4, <4>5, <5>1, <5>2
      <4>8. last => At(q, {"expire", "retire"})'
        BY <2>6, <3>4
      <4> QED BY <3>1, <3>4, <4>1, <4>6, <4>7, <4>8
    <3> QED BY <3>2, <3>3, <3>4
  <2> QED BY <2>4, <2>7
<1> QED BY <1>12, <1>13, <1>14, <1>15 DEF CodeInv

(* After the last attempt the key of the purpose is dropped, with a code   *)
(* that was sent meanwhile, too, or an error of the code is counted.       *)
LEMMA RetireStep ==
    ASSUME CodeInv, NEW v \in Requests, RetireCode(v)
    PROVE  CodeInv'
<1> DEFINE c == request[v].stored
           p == First(request[v].purposes)
           r == NextPurpose(v)
           Kept == UNCHANGED <<code, codeTTL>>
           Dropped == /\ code' = [code EXCEPT ![p] = 0]
                      /\ codeTTL' = [codeTTL EXCEPT ![p] = 0]
           Counted == UNCHANGED <<attempts, attemptsTTL>>
           Cleared == /\ attempts' = [attempts EXCEPT ![p] = 0]
                      /\ attemptsTTL' = [attemptsTTL EXCEPT ![p] = 0]
<1>1. /\ EmailTypeOK /\ KeptCodes /\ AcceptingFit /\ p \in Purposes
      /\ request[v] \in RequestType /\ request \in [Requests -> RequestType]
      /\ calm => CalmRequests /\ CalmCounts
  BY TypeFields, FirstIsPurpose DEF CodeInv
<1>2. /\ request[v].at = "retire"
      /\ \/ Dropped /\ Cleared /\ NoError
         \/ Kept /\ (Cleared \/ Counted) /\ ErrorIn(v)
         \/ Dropped /\ Counted /\ ErrorIn(v)
      /\ request' = [request EXCEPT ![v] = r]
      /\ UNCHANGED <<owned, limitTTL, sent, wrong, accepted, calm>>
  BY <1>1, NowIsFirst DEF RetireCode, Drop
<1>3. r \in RequestType /\ RequestFits(r) /\ r.at \in {"idle", "get"}
  BY <1>1, NextPurposeFits
<1>4. /\ c \in 1..sent /\ c \in Codes /\ sent \in Nat
      /\ \A q \in Purposes : code[q] = c => q = p
  BY <1>1, <1>2, MaxCodesAssumption
  DEF KeptCodes, RequestFits, Holding, EmailTypeOK, Codes
<1>5. /\ errors' \in [Codes -> Nat] /\ MaxAttempts \in Nat
      /\ ErrorsGrow /\ NoOtherError(c) /\ (ErrorIn(v) => ErrorOf(c))
  BY <1>1, <1>2, <1>4, ErrorsCount
<1> HIDE DEF r, p, c
<1>6. \A w \in Requests : request'[w] = IF w = v THEN r ELSE request[w]
  BY <1>1, <1>2
<1>7. /\ code' \in [Purposes -> 0..MaxCodes]
      /\ codeTTL' \in [Purposes -> 0..EmailCodeTTL]
      /\ \A q \in Purposes : q # p => code'[q] = code[q] /\ codeTTL'[q] = codeTTL[q]
      /\ code'[p] = 0 \/ (Kept /\ ErrorIn(v))
  <2>1. /\ code \in [Purposes -> 0..MaxCodes] /\ 0 \in 0..MaxCodes
        /\ codeTTL \in [Purposes -> 0..EmailCodeTTL] /\ 0 \in 0..EmailCodeTTL
    BY <1>1, MaxCodesAssumption, EmailCodeTTLAssumption DEF EmailTypeOK
  <2>2. CASE Dropped
    BY <1>1, <2>1, <2>2
  <2>3. CASE Kept /\ ErrorIn(v)
    BY <2>1, <2>3
  <2> QED BY <1>2, <2>2, <2>3
<1>8. /\ attempts' \in [Purposes -> Nat]
      /\ attemptsTTL' \in [Purposes -> Forever..EmailCodeTTL]
      /\ \A q \in Purposes :
           q # p => attempts'[q] = attempts[q] /\ attemptsTTL'[q] = attemptsTTL[q]
  <2>1. /\ attempts \in [Purposes -> Nat]
        /\ attemptsTTL \in [Purposes -> Forever..EmailCodeTTL]
        /\ 0 \in Forever..EmailCodeTTL
    BY <1>1, EmailCodeTTLAssumption DEF EmailTypeOK, Forever
  <2>2. CASE Cleared
    BY <1>1, <2>1, <2>2
  <2>3. CASE Counted
    BY <2>1, <2>3
  <2> QED BY <1>2, <2>2, <2>3
<1> HIDE DEF Dropped, Cleared, Counted
<1>9. EmailTypeOK'
  <2>1. request' \in [Requests -> RequestType]
    BY <1>1, <1>2, <1>3
  <2> QED BY <1>1, <1>2, <1>5, <1>7, <1>8, <2>1 DEF EmailTypeOK, RequestType
<1>10. KeptCodes'
  <2>1. \A q \in Purposes :
           code'[q] # 0 => code'[q] = code[q] /\ codeTTL'[q] = codeTTL[q]
    BY <1>7
  <2>2. \A w \in Requests : RequestFits(request[w])'
    <3> TAKE w \in Requests
    <3>1. RequestFits(request[w]) /\ RequestFits(r)
      BY <1>1, <1>3 DEF KeptCodes
    <3>2. request[w].at \in Holding => request[w].stored # 0
      BY <1>4, <3>1 DEF RequestFits
    <3>3. \A q \in Purposes : code'[q] \in {0, code[q]}
      BY <1>7, <2>1
    <3> QED BY <1>2, <1>3, <1>6, <3>1, <3>2, <3>3 DEF RequestFits, Holding
  <2>3. \A q \in Purposes :
           /\ code'[q] \in 0..sent
           /\ code'[q] # 0 => codeTTL'[q] > 0 /\ accepted[code'[q]] <= errors'[code'[q]]
           /\ \A s \in Purposes : code'[q] = code'[s] /\ code'[q] # 0 => q = s
    <3> TAKE q \in Purposes
    <3>1. CASE code'[q] = 0
      BY <1>4, <3>1
    <3>2. CASE code'[q] # 0
      <4>1. code'[q] = code[q] /\ codeTTL'[q] = codeTTL[q] /\ code[q] # 0
        BY <2>1, <3>2
      <4>2. accepted[code[q]] <= errors'[code[q]]
        BY <1>1, <1>5, <4>1, StillWithin
      <4>3. /\ code[q] \in 0..sent /\ codeTTL[q] > 0
            /\ \A s \in Purposes : code[q] = code[s] => q = s
        BY <1>1, <4>1 DEF KeptCodes
      <4>4. \A s \in Purposes : code'[q] = code'[s] => q = s
        BY <2>1, <3>2, <4>1, <4>3
      <4> QED BY <4>1, <4>2, <4>3, <4>4
    <3> QED BY <3>1, <3>2
  <2> QED BY <1>1, <1>2, <2>2, <2>3 DEF KeptCodes
<1>11. AcceptingFit'
  <2>1. \A w \in Requests : request'[w] \in {IF w = v THEN r ELSE request[w], NoRequest}
    BY <1>6
  <2>2. \A d \in Codes : errors'[d] \in Nat /\ errors[d] <= errors'[d]
    BY <1>5 DEF ErrorsGrow
  <2> QED BY <1>1, <1>2, <1>3, <2>1, <2>2, AcceptingShrinks
<1>12. ASSUME calm' PROVE CalmRequests' /\ CalmCounts'
  <2>1. CalmRequests /\ CalmCounts
    BY <1>1, <1>2, <1>12
  <2>2. \A w \in Requests : w # v => request[w] = NoRequest
    BY <1>2, <2>1, NoRequestIn DEF CalmRequests
  <2>3. CalmRequests'
    <3>1. \A d \in Codes : /\ accepted[d] <= 1 + errors'[d]
                           /\ wrong[d] <= MaxAttempts + Excused'[d]
      BY <1>1, <1>5, <2>1, CalmStillWithin
    <3> QED BY <1>2, <1>3, <1>6, <2>2, <3>1, NoRequestIn DEF CalmRequests
  <2>4. /\ wrong[c] <= MaxAttempts + Excused[c]
        /\ code[p] \notin {0, c} => wrong[code[p]] = 0
    BY <1>2, <1>4, <2>1 DEF CalmRequests, c, p
  <2>5. \A q, S : S \subseteq {"expire", "retire"} /\ q # p => ~ At(q, S)
    BY <1>2, <2>2, NoRequestIn DEF At, p
  <2>6. CalmCounts'
    <3> SUFFICES ASSUME NEW q \in Purposes, code'[q] # 0
                 PROVE  /\ wrong[code'[q]] < MaxAttempts + Excused'[code'[q]]
                        /\ wrong[code'[q]] <= attempts'[q] + Excused'[code'[q]]
                        /\ wrong[code'[q]] > Excused'[code'[q]]
                             => codeTTL'[q] <= attemptsTTL'[q]
      BY <1>2 DEF CalmCounts
    <3>1. code'[q] = code[q] /\ codeTTL'[q] = codeTTL[q] /\ code[q] # 0
      BY <1>7
    <3>2. /\ code[q] \in Codes /\ wrong[code[q]] \in Nat
          /\ Excused'[code[q]] \in Nat
          /\ ~ At(q, {"expire", "retire"})
               => wrong[code[q]] < MaxAttempts + Excused'[code[q]]
          /\ wrong[code[q]] <= attempts[q] + Excused'[code[q]]
          /\ wrong[code[q]] > Excused'[code[q]] /\ ~ At(q, {"expire"})
               => codeTTL[q] <= attemptsTTL[q]
      BY <1>1, <1>5, <2>1, <3>1, CountsStillWithin
    <3>3. CASE q # p
      BY <1>8, <2>5, <3>1, <3>2, <3>3
    <3>4. CASE q = p
      <4>1. ErrorIn(v)
        BY <1>7, <3>1, <3>4
      <4>2. wrong[code[q]] <= Excused'[code[q]]
        <5>1. CASE code[q] = c
          <6>1. Excused'[c] = Excused[c] + MaxAttempts
            BY <1>5, <4>1 DEF ErrorOf
          <6>2. wrong[c] \in Nat /\ Excused[c] \in Nat
            BY <1>4, <1>5, <3>2, <5>1 DEF ErrorsGrow
          <6> QED BY <1>5, <2>4, <5>1, <6>1, <6>2
        <5>2. CASE code[q] # c
          BY <2>4, <3>1, <3>2, <3>4, <5>2
        <5> QED BY <5>1, <5>2
      <4>3. attempts'[q] \in Nat
        BY <1>8
      <4> QED BY <3>1, <3>2, <4>2, <4>3, MaxAttemptsAssumption
    <3> QED BY <3>3, <3>4
  <2> QED BY <2>3, <2>6
<1> QED BY <1>9, <1>10, <1>11, <1>12 DEF CodeInv

-----------------------------------------------------------------------------
(* What belongs to no request.                                             *)
LEMMA SendStep ==
    ASSUME CodeInv, NEW p \in Purposes, SendEmailCode(p)
    PROVE  CodeInv'
<1>1. /\ EmailTypeOK /\ KeptCodes /\ AcceptingFit
      /\ calm => CalmRequests /\ CalmCounts
  BY DEF CodeInv
<1>2. /\ sent < MaxCodes /\ limitTTL' = RateLimitTTL
      /\ UNCHANGED <<owned, attempts, attemptsTTL, request, wrong, accepted, errors, calm>>
      /\ Excused' = Excused
      /\ \/ /\ sent' = sent + 1
            /\ code' = [code EXCEPT ![p] = sent + 1]
            /\ codeTTL' = [codeTTL EXCEPT ![p] = EmailCodeTTL]
         \/ UNCHANGED <<sent, code, codeTTL>>
  BY DEF SendEmailCode, Excused
<1>3. limitTTL' \in 0..RateLimitTTL
  BY <1>2, RateLimitTTLAssumption, EmailCodeTTLAssumption
<1>4. AcceptingFit'
  BY <1>1, <1>2 DEF AcceptingFit, Accepting
<1>5. CASE UNCHANGED <<sent, code, codeTTL>>
  <2>1. EmailTypeOK'
    BY <1>1, <1>2, <1>3, <1>5 DEF EmailTypeOK
  <2>2. KeptCodes'
    BY <1>1, <1>2, <1>5 DEF KeptCodes, RequestFits
  <2>3. calm' => CalmRequests' /\ CalmCounts'
    BY <1>1, <1>2, <1>5 DEF CalmRequests, CalmCounts, At
  <2> QED BY <1>4, <2>1, <2>2, <2>3 DEF CodeInv
<1>6. CASE /\ sent' = sent + 1
           /\ code' = [code EXCEPT ![p] = sent + 1]
           /\ codeTTL' = [codeTTL EXCEPT ![p] = EmailCodeTTL]
  <2>1. /\ sent \in Nat /\ sent + 1 \in Codes /\ sent + 1 \in 0..MaxCodes
        /\ code \in [Purposes -> 0..MaxCodes]
        /\ codeTTL \in [Purposes -> 0..EmailCodeTTL]
    BY <1>1, <1>2, MaxCodesAssumption DEF EmailTypeOK, Codes
  <2>2. /\ \A q \in Purposes : code'[q] = IF q = p THEN sent + 1 ELSE code[q]
        /\ \A q \in Purposes :
             codeTTL'[q] = IF q = p THEN EmailCodeTTL ELSE codeTTL[q]
    BY <1>6, <2>1
  <2>3. EmailTypeOK'
    <3>1. code' \in [Purposes -> 0..MaxCodes]
      BY <1>6, <2>1
    <3>2. codeTTL' \in [Purposes -> 0..EmailCodeTTL]
      BY <1>6, <2>1, EmailCodeTTLAssumption
    <3> QED BY <1>1, <1>2, <1>3, <1>6, <2>1, <3>1, <3>2 DEF EmailTypeOK
  <2>4. /\ accepted[sent + 1] = 0 /\ wrong[sent + 1] = 0
        /\ errors[sent + 1] \in Nat /\ Excused[sent + 1] \in Nat
    BY <1>1, <2>1, ExcusedType DEF KeptCodes, EmailTypeOK
  <2>5. \A q \in Purposes : code[q] \in 0..sent
    BY <1>1 DEF KeptCodes
  <2>6. KeptCodes'
    <3>1. \A q \in Purposes :
             /\ code'[q] \in 0..(sent + 1)
             /\ code'[q] # 0 => codeTTL'[q] > 0 /\ accepted[code'[q]] <= errors[code'[q]]
             /\ \A s \in Purposes : code'[q] = code'[s] /\ code'[q] # 0 => q = s
      <4> TAKE q \in Purposes
      <4>1. \A s \in Purposes : code[q] = code[s] /\ code[q] # 0 => q = s
        BY <1>1 DEF KeptCodes
      <4>2. code[q] # 0 => codeTTL[q] > 0 /\ accepted[code[q]] <= errors[code[q]]
        BY <1>1 DEF KeptCodes
      <4> QED BY <2>1, <2>2, <2>4, <2>5, <4>1, <4>2, EmailCodeTTLAssumption
    <3>2. \A d \in Codes : d > sent + 1 => accepted[d] = 0 /\ wrong[d] = 0
      BY <1>1, <2>1, MaxCodesAssumption DEF KeptCodes, Codes
    <3>3. \A w \in Requests : RequestFits(request[w])'
      <4> TAKE w \in Requests
      <4>1. RequestFits(request[w])
        BY <1>1 DEF KeptCodes
      <4>2. ASSUME request[w].at \in Holding
            PROVE  /\ request[w].stored \in 1..(sent + 1)
                   /\ \A q \in Purposes :
                        code'[q] = request[w].stored => q = First(request[w].purposes)
        <5>1. /\ request[w].stored \in 1..sent
              /\ \A q \in Purposes :
                   code[q] = request[w].stored => q = First(request[w].purposes)
          BY <4>1, <4>2 DEF RequestFits
        <5> QED BY <2>1, <2>2, <5>1
      <4> QED BY <1>2, <1>6, <4>1, <4>2 DEF RequestFits
    <3> QED BY <1>2, <1>6, <3>1, <3>2, <3>3 DEF KeptCodes
  <2>7. ASSUME calm' PROVE CalmRequests' /\ CalmCounts'
    <3>1. CalmRequests /\ CalmCounts
      BY <1>1, <1>2, <2>7
    <3>2. CalmRequests'
      <4>1. \A w \in Requests :
              LET k == First(request[w].purposes) IN
              /\ k \in Purposes
              /\ code'[k] \notin {0, request[w].stored}
                   => wrong[code'[k]] = 0 \/ code'[k] = code[k]
        BY <2>2, <2>4, FirstIsPurpose
      <4> QED BY <1>2, <3>1, <4>1 DEF CalmRequests
    <3>3. \A q, S : At(q, S)' <=> At(q, S)
      BY <1>2 DEF At
    <3>4. CalmCounts'
      <4> SUFFICES ASSUME NEW q \in Purposes, code'[q] # 0
                   PROVE  /\ ~ At(q, {"expire", "retire"})
                               => wrong[code'[q]] < MaxAttempts + Excused[code'[q]]
                          /\ wrong[code'[q]] <= attempts[q] + Excused[code'[q]]
                          /\ wrong[code'[q]] > Excused[code'[q]] /\ ~ At(q, {"expire"})
                               => codeTTL'[q] <= attemptsTTL[q]
        BY <1>2, <3>3 DEF CalmCounts
      <4>1. CASE q = p
        <5>1. wrong[code'[q]] = 0 /\ Excused[code'[q]] \in Nat /\ attempts[q] \in Nat
          BY <1>1, <2>2, <2>4, <4>1 DEF EmailTypeOK
        <5> QED BY <5>1, MaxAttemptsAssumption
      <4>2. CASE q # p
        BY <2>2, <3>1, <4>2 DEF CalmCounts
      <4> QED BY <4>1, <4>2
    <3> QED BY <3>2, <3>4
  <2> QED BY <1>4, <2>3, <2>6, <2>7 DEF CodeInv
<1> QED BY <1>2, <1>5, <1>6

LEMMA CrashStep == CodeInv /\ CrashAuth => CodeInv'
<1> SUFFICES ASSUME CodeInv, CrashAuth PROVE CodeInv'
  OBVIOUS
<1>1. EmailTypeOK /\ KeptCodes /\ AcceptingFit
  BY DEF CodeInv
<1>2. /\ \A w \in Requests : request'[w] = NoRequest
      /\ request' = [v \in Requests |-> NoRequest] /\ calm' = FALSE
      /\ UNCHANGED <<owned, code, codeTTL, attempts, attemptsTTL, limitTTL, sent,
                     wrong, accepted, errors>>
  BY DEF CrashAuth
<1>3. EmailTypeOK'
  <2>1. request' \in [Requests -> RequestType]
    BY <1>2, NoRequestIn
  <2> QED BY <1>1, <1>2, <2>1 DEF EmailTypeOK, RequestType
<1>4. KeptCodes'
  <2>1. \A w \in Requests : RequestFits(request[w])'
    BY <1>2, NoRequestIn DEF RequestFits
  <2> QED BY <1>1, <1>2, <2>1 DEF KeptCodes
<1>5. AcceptingFit'
  <2> SUFFICES ASSUME NEW c \in Codes
               PROVE  accepted[c] + Cardinality(Accepting(c)')
                        <= Cardinality(Requests) + errors[c]
    BY <1>2 DEF AcceptingFit
  <2>1. Accepting(c)' = {}
    BY <1>2, NoRequestIn DEF Accepting
  <2>2. Cardinality(Accepting(c)') = 0
    BY <2>1, FS_EmptySet
  <2>3. /\ accepted[c] + Cardinality(Accepting(c)) <= Cardinality(Requests) + errors[c]
        /\ accepted[c] \in Nat /\ errors[c] \in Nat
    BY <1>1 DEF AcceptingFit, EmailTypeOK
  <2> QED BY <2>2, <2>3, AcceptingFinite
<1> QED BY <1>2, <1>3, <1>4, <1>5 DEF CodeInv

LEMMA TickStep == CodeInv /\ Tick => CodeInv'
<1> SUFFICES ASSUME CodeInv, Tick PROVE CodeInv'
  OBVIOUS
<1>1. EmailTypeOK /\ KeptCodes /\ AcceptingFit
  BY DEF CodeInv
<1>2. /\ codeTTL' = [p \in Purposes |-> IF codeTTL[p] > 0 THEN codeTTL[p] - 1 ELSE codeTTL[p]]
      /\ attemptsTTL' = [p \in Purposes |->
           IF attemptsTTL[p] > 0 THEN attemptsTTL[p] - 1 ELSE attemptsTTL[p]]
      /\ limitTTL' = IF limitTTL > 0 THEN limitTTL - 1 ELSE limitTTL
      /\ code' = [p \in Purposes |->
           IF codeTTL[p] > 0 /\ codeTTL'[p] = 0 THEN 0 ELSE code[p]]
      /\ attempts' = [p \in Purposes |->
           IF attemptsTTL[p] > 0 /\ attemptsTTL'[p] = 0 THEN 0 ELSE attempts[p]]
      /\ calm' = (calm /\ Idle)
      /\ UNCHANGED <<owned, sent, request, wrong, accepted, errors>>
      /\ Excused' = Excused
  BY DEF Tick, Excused
<1>3. /\ \A p \in Purposes :
           /\ code[p] \in 0..MaxCodes /\ codeTTL[p] \in 0..EmailCodeTTL
           /\ attempts[p] \in Nat /\ attemptsTTL[p] \in -1..EmailCodeTTL
      /\ calm \in BOOLEAN /\ limitTTL \in 0..RateLimitTTL /\ sent \in Nat
      /\ MaxCodes \in Nat /\ EmailCodeTTL \in Nat /\ RateLimitTTL \in Nat
  BY <1>1, MaxCodesAssumption, EmailCodeTTLAssumption, RateLimitTTLAssumption
  DEF EmailTypeOK, Forever
<1>4. \A p \in Purposes :
        /\ codeTTL'[p] \in 0..EmailCodeTTL /\ attemptsTTL'[p] \in -1..EmailCodeTTL
        /\ code'[p] \in {0, code[p]} /\ attempts'[p] \in {0, attempts[p]}
        /\ code'[p] # 0 /\ codeTTL[p] > 0 => codeTTL'[p] = codeTTL[p] - 1 /\ codeTTL'[p] > 0
        /\ codeTTL[p] > 1 /\ attemptsTTL[p] >= codeTTL[p]
             => attempts'[p] = attempts[p] /\ attemptsTTL'[p] = attemptsTTL[p] - 1
  <2> TAKE p \in Purposes
  <2>1. /\ codeTTL'[p] = IF codeTTL[p] > 0 THEN codeTTL[p] - 1 ELSE codeTTL[p]
        /\ attemptsTTL'[p] = IF attemptsTTL[p] > 0 THEN attemptsTTL[p] - 1 ELSE attemptsTTL[p]
        /\ code'[p] = IF codeTTL[p] > 0 /\ codeTTL'[p] = 0 THEN 0 ELSE code[p]
        /\ attempts'[p] = IF attemptsTTL[p] > 0 /\ attemptsTTL'[p] = 0 THEN 0 ELSE attempts[p]
    BY <1>2
  <2> QED BY <1>3, <2>1
<1>5. EmailTypeOK'
  <2>1. code' \in [Purposes -> 0..MaxCodes]
    BY <1>2, <1>3
  <2>2. codeTTL' \in [Purposes -> 0..EmailCodeTTL]
    BY <1>2, <1>4
  <2>3. attempts' \in [Purposes -> Nat]
    BY <1>2, <1>3
  <2>4. attemptsTTL' \in [Purposes -> Forever..EmailCodeTTL]
    BY <1>2, <1>4 DEF Forever
  <2>5. limitTTL' \in 0..RateLimitTTL /\ calm' \in BOOLEAN
    BY <1>2, <1>3
  <2> QED BY <1>1, <1>2, <2>1, <2>2, <2>3, <2>4, <2>5 DEF EmailTypeOK
<1>6. KeptCodes'
  <2>1. \A w \in Requests : RequestFits(request[w])'
    <3> TAKE w \in Requests
    <3>1. RequestFits(request[w])
      BY <1>1 DEF KeptCodes
    <3>2. ASSUME request[w].at \in Holding, NEW q \in Purposes,
                 code'[q] = request[w].stored
          PROVE  q = First(request[w].purposes)
      <4>1. code[q] = request[w].stored
        BY <1>3, <1>4, <3>1, <3>2 DEF RequestFits
      <4> QED BY <3>1, <3>2, <4>1 DEF RequestFits
    <3> QED BY <1>2, <3>1, <3>2 DEF RequestFits
  <2>2. \A p \in Purposes :
           /\ code'[p] \in 0..sent
           /\ code'[p] # 0 => codeTTL'[p] > 0 /\ accepted[code'[p]] <= errors[code'[p]]
           /\ \A q \in Purposes : code'[p] = code'[q] /\ code'[p] # 0 => p = q
    <3> TAKE p \in Purposes
    <3>1. code'[p] # 0 => /\ code'[p] = code[p] /\ codeTTL[p] > 0
                          /\ accepted[code[p]] <= errors[code[p]]
      BY <1>1, <1>4 DEF KeptCodes
    <3>2. code'[p] \in 0..sent
      BY <1>1, <1>3, <1>4 DEF KeptCodes
    <3>3. \A q \in Purposes : code'[p] = code'[q] /\ code'[p] # 0 => p = q
      BY <1>1, <1>4 DEF KeptCodes
    <3> QED BY <1>4, <3>1, <3>2, <3>3
  <2> QED BY <1>1, <1>2, <2>1, <2>2 DEF KeptCodes
<1>7. AcceptingFit'
  BY <1>1, <1>2 DEF AcceptingFit, Accepting
<1>8. ASSUME calm' PROVE CalmRequests' /\ CalmCounts'
  <2>1. CalmRequests /\ CalmCounts /\ \A v \in Requests : request[v] = NoRequest
    BY <1>2, <1>8 DEF CodeInv, Idle
  <2>2. CalmRequests'
    BY <1>2, <2>1, NoRequestIn DEF CalmRequests
  <2>3. \A p, S : S \subseteq {"expire", "retire"} => ~ At(p, S)
    BY <2>1, NoRequestIn DEF At
  <2>4. CalmCounts'
    <3> SUFFICES ASSUME NEW p \in Purposes, code'[p] # 0
                 PROVE  /\ wrong[code'[p]] < MaxAttempts + Excused[code'[p]]
                        /\ wrong[code'[p]] <= attempts'[p] + Excused[code'[p]]
                        /\ wrong[code'[p]] > Excused[code'[p]]
                             => codeTTL'[p] <= attemptsTTL'[p]
      BY <1>2 DEF CalmCounts
    <3>1. code'[p] = code[p] /\ code[p] # 0 /\ codeTTL[p] > 0
      BY <1>1, <1>4 DEF KeptCodes
    <3>2. /\ wrong[code[p]] < MaxAttempts + Excused[code[p]]
          /\ wrong[code[p]] <= attempts[p] + Excused[code[p]]
          /\ wrong[code[p]] > Excused[code[p]] => codeTTL[p] <= attemptsTTL[p]
      BY <2>1, <2>3, <3>1 DEF CalmCounts
    <3>3. codeTTL'[p] = codeTTL[p] - 1 /\ codeTTL'[p] > 0 /\ codeTTL[p] > 1
      BY <1>3, <1>4, <3>1
    <3>4. codeTTL[p] <= attemptsTTL[p]
            => attempts'[p] = attempts[p] /\ attemptsTTL'[p] = attemptsTTL[p] - 1
      BY <1>3, <1>4, <3>3
    <3>5. code[p] \in Codes /\ wrong[code[p]] \in Nat /\ Excused[code[p]] \in Nat
      <4>1. code[p] \in Codes
        BY <1>3, <3>1 DEF Codes
      <4> QED BY <1>1, <4>1, ExcusedType DEF EmailTypeOK
    <3>6. CASE wrong[code[p]] > Excused[code[p]]
      BY <1>3, <3>1, <3>2, <3>3, <3>4, <3>6
    <3>7. CASE ~ wrong[code[p]] > Excused[code[p]]
      <4>1. attempts'[p] \in Nat
        BY <1>5 DEF EmailTypeOK
      <4> QED BY <3>1, <3>2, <3>5, <3>7, <4>1
    <3> QED BY <3>6, <3>7
  <2> QED BY <2>2, <2>4
<1> QED BY <1>5, <1>6, <1>7, <1>8 DEF CodeInv

LEMMA CodeStutter == CodeInv /\ UNCHANGED codeVars => CodeInv'
<1> SUFFICES ASSUME CodeInv, UNCHANGED codeVars PROVE CodeInv'
  OBVIOUS
<1>1. EmailTypeOK'
  BY DEF codeVars, CodeInv, EmailTypeOK
<1>2. KeptCodes' /\ AcceptingFit'
  BY DEF codeVars, CodeInv, KeptCodes, RequestFits, AcceptingFit, Accepting
<1>3. calm' => CalmRequests' /\ CalmCounts'
  BY DEF codeVars, CodeInv, CalmRequests, CalmCounts, At, Excused
<1> QED BY <1>1, <1>2, <1>3 DEF CodeInv

(* Whatever requests, expiries, crashes and failed commands cross, a code  *)
(* is accepted at most as often as requests overlap and commands fail;     *)
(* while requests run one after the other, each within a tick, it is       *)
(* accepted at most once and gone after MaxAttempts wrong ones, and each   *)
(* command of CheckEmailCode that fails unnoticed allows one more          *)
(* acceptance or MaxAttempts more tries (CheckEmailCode, SendEmailCode).   *)
THEOREM CodesAreGivenUp == EmailSpec => []CodeSafety
<1>1. EmailInit => CodeInv
  BY CodeInit_Inv
<1>2. CodeInv /\ [EmailNext]_codeVars => CodeInv'
  <2> SUFFICES ASSUME CodeInv, [EmailNext]_codeVars PROVE CodeInv'
    OBVIOUS
  <2>1. ASSUME NEW p \in Purposes, SendEmailCode(p) PROVE CodeInv'
    BY <2>1, SendStep
  <2>2. ASSUME NEW v \in Requests,
               VerifyEmailCode(v) \/ LinkEmailCheck(v) \/ ResetPasswordCheck(v)
        PROVE  CodeInv'
    <3>1. /\ Purposes \in SUBSET Purposes /\ Purposes # {}
          /\ {"link"} \in SUBSET Purposes /\ {"reset"} \in SUBSET Purposes
      BY DEF Purposes
    <3> QED BY <2>2, <3>1, StartStep
            DEF VerifyEmailCode, LinkEmailCheck, ResetPasswordCheck
  <2>3. ASSUME NEW v \in Requests,
               \/ GetCode(v) \/ AcceptCode(v) \/ CountAttempt(v)
               \/ ExpireAttempts(v) \/ RetireCode(v)
        PROVE  CodeInv'
    BY <2>3, GetStep, AcceptStep, CountStep, ExpireStep, RetireStep
  <2>4. CASE CrashAuth \/ Tick \/ UNCHANGED codeVars
    BY <2>4, CrashStep, TickStep, CodeStutter
  <2> QED BY <2>1, <2>2, <2>3, <2>4 DEF EmailNext
<1>3. CodeInv => CodeSafety
  <2> SUFFICES ASSUME CodeInv PROVE CodeIsGivenUp
    BY DEF CodeSafety, CodeInv
  <2>1. ASSUME NEW c \in Codes PROVE accepted[c] <= Cardinality(Requests) + errors[c]
    <3>1. /\ accepted[c] + Cardinality(Accepting(c)) <= Cardinality(Requests) + errors[c]
          /\ accepted[c] \in Nat /\ errors[c] \in Nat
      BY DEF CodeInv, AcceptingFit, EmailTypeOK
    <3> QED BY <3>1, AcceptingFinite
  <2>2. ASSUME calm, NEW c \in Codes
        PROVE  /\ accepted[c] <= 1 + errors[c]
               /\ wrong[c] <= MaxAttempts + Excused[c]
               /\ c \in {code[p] : p \in Purposes} /\ Idle
                    => wrong[c] < MaxAttempts + Excused[c]
    <3>1. CalmRequests /\ CalmCounts
      BY <2>2 DEF CodeInv
    <3>2. ASSUME NEW p \in Purposes, c = code[p], Idle
          PROVE  wrong[c] < MaxAttempts + Excused[c]
      <4>1. ~ At(p, {"expire", "retire"})
        BY <3>2, NoRequestIn DEF At, Idle
      <4> QED BY <3>1, <3>2, <4>1 DEF CalmCounts, Codes
    <3> QED BY <3>1, <3>2 DEF CalmRequests
  <2>3. ASSUME NEW c \in Codes
        PROVE  MaxAttempts + Excused[c] = MaxAttempts * (1 + errors[c])
    <3>1. errors[c] \in Nat /\ Excused[c] = MaxAttempts * errors[c]
      BY DEF CodeInv, EmailTypeOK, Excused
    <3> QED BY <3>1, MaxAttemptsAssumption
  <2> QED BY <2>1, <2>2, <2>3 DEF CodeIsGivenUp
<1> QED BY <1>1, <1>2, <1>3, PTL DEF EmailSpec

-----------------------------------------------------------------------------
(***************************************************************************)
(* StreakReminders: the two daily jobs, any number of users and days.      *)
(***************************************************************************)

(* The slot job j is due in on day d.                                      *)
DueAt(j, d) == 3 * d + DueSlot(j)

Noticed(j, u) == notices[j][DayOf(slot)][u]

(* A job sleeps until its next due slot; it publishes in the slot it was   *)
(* due in, for users that it has not noticed today and that had not logged *)
(* in when it woke.                                                        *)
SleepsUntilDue(j, r) ==
    LET due == DueAt(j, DayOf(slot)) IN
    r.at = "sleep" =>
        /\ slot < due => r.target = due
        /\ slot = due => r.target \in {due, due + 3}
        /\ slot > due => r.target = due + 3
        /\ r.target = slot => \A u \in Learners : Noticed(j, u) = 0

PublishesWhenDue(j, r) ==
    r.at = "publish" =>
        /\ slot = DueAt(j, DayOf(slot))
        /\ \A u \in r.left :
             /\ Noticed(j, u) = 0
             /\ \A s \in logins[u] : DayOf(s) = DayOf(slot) => s = slot
             /\ j = "warning" => logins[u] # {}
             /\ j = "nudge" => u \notin guests

JobsFit == \A j \in Jobs : SleepsUntilDue(j, job[j]) /\ PublishesWhenDue(j, job[j])

NoticesAreTimely ==
    \A j \in Jobs, d \in CalendarDays, u \in Learners :
        notices[j][d][u] > 0 => DueAt(j, d) <= slot

LoginsArePast == \A u \in Learners : logins[u] \subseteq 0..slot

(* When nothing has failed, from the evening's slot on who may lose a      *)
(* streak is warned, or about to be.                                       *)
InDanger(u) ==
    LoggedInOn(u, DayOf(slot) - 1) /\ ~ LoggedInOn(u, DayOf(slot))

WarnedTonight(r) ==
    ~ faulty /\ DayOf(slot) >= 1 /\ slot = DueAt("warning", DayOf(slot)) =>
        \/ r.at = "sleep" /\ r.target = slot
        \/ \A u \in Learners : InDanger(u) =>
             \/ Noticed("warning", u) = 1
             \/ r.at = "publish" /\ u \in r.left

WarningInv ==
    /\ WarningSafety
    /\ JobsFit /\ NoticesAreTimely /\ LoginsArePast
    /\ WarnedTonight(job["warning"])

JobType == [at : JobAt, target : Nat, left : SUBSET Learners]

-----------------------------------------------------------------------------
LEMMA DayBounds ==
    \A s \in Nat : DayOf(s) \in Nat /\ 3 * DayOf(s) <= s /\ s < 3 * DayOf(s) + 3
BY DEF DayOf

(* The next slot is of the same day, or the first of the next.             *)
LEMMA NextSlot ==
    ASSUME NEW s \in Nat
    PROVE  /\ s < 3 * DayOf(s) + 2 => DayOf(s + 1) = DayOf(s)
           /\ s = 3 * DayOf(s) + 2 => DayOf(s + 1) = DayOf(s) + 1
<1> DEFINE d == DayOf(s)
           e == DayOf(s + 1)
<1>1. d \in Nat /\ 3 * d <= s /\ s < 3 * d + 3
  BY DayBounds
<1>2. s + 1 \in Nat
  OBVIOUS
<1>3. e \in Nat /\ 3 * e <= s + 1 /\ s + 1 < 3 * e + 3
  BY <1>2, DayBounds
<1> HIDE DEF d, e
<1>4. s < 3 * d + 2 => e = d
  BY <1>1, <1>3
<1>5. s = 3 * d + 2 => e = d + 1
  BY <1>1, <1>3
<1> QED BY <1>4, <1>5 DEF d, e

LEMMA DueSlots ==
    /\ DueSlot("nudge") = 1 /\ DueSlot("warning") = 2
    /\ \A j \in Jobs : DueSlot(j) \in {1, 2}
BY DEF DueSlot, Jobs

LEMMA WarningFacts ==
    ASSUME WarningInv
    PROVE  /\ slot \in Nat /\ slot \in Slots /\ DayOf(slot) \in CalendarDays
           /\ DayOf(slot) \in Nat
           /\ 3 * DayOf(slot) <= slot /\ slot < 3 * DayOf(slot) + 3
           /\ guests \subseteq Guests /\ logins \in [Learners -> SUBSET Slots]
           /\ job \in [Jobs -> JobType]
           /\ notices \in [Jobs -> [CalendarDays -> [Learners -> Nat]]]
           /\ faulty \in BOOLEAN
           /\ \A s \in Slots : s \in Nat
<1>1. /\ slot \in Slots /\ guests \subseteq Guests /\ logins \in [Learners -> SUBSET Slots]
      /\ job \in [Jobs -> JobType]
      /\ notices \in [Jobs -> [CalendarDays -> [Learners -> Nat]]]
      /\ faulty \in BOOLEAN
  BY DEF WarningInv, WarningSafety, ReminderTypeOK, JobType
<1>2. \A s \in Slots : s \in Nat /\ s < 3 * LastDay
  BY LastDayAssumption DEF Slots
<1>3. /\ DayOf(slot) \in Nat
      /\ 3 * DayOf(slot) <= slot /\ slot < 3 * DayOf(slot) + 3
  BY <1>1, <1>2, DayBounds
<1>4. DayOf(slot) \in CalendarDays
  BY <1>1, <1>2, <1>3, LastDayAssumption DEF CalendarDays
<1> QED BY <1>1, <1>2, <1>3, <1>4

LEMMA IdleJobIn ==
    IdleJob \in JobType /\ IdleJob.at = "plan"
BY DEF IdleJob, JobType, JobAt

-----------------------------------------------------------------------------
(* A step of jobs that publishes nothing.                                  *)
LEMMA JobsStep ==
    ASSUME WarningInv, job' \in [Jobs -> JobType],
           \A j \in Jobs : SleepsUntilDue(j, job'[j]) /\ PublishesWhenDue(j, job'[j]),
           UNCHANGED <<slot, guests, logins, notices>>,
           faulty' \in {faulty, TRUE},
           ~ faulty' => WarnedTonight(job'["warning"])
    PROVE  WarningInv'
<1>1. ReminderTypeOK'
  BY WarningFacts DEF WarningInv, WarningSafety, ReminderTypeOK, JobType
<1>2. NoticesAreFew'
  BY DEF WarningInv, WarningSafety, NoticesAreFew
<1>3. LostStreaksWereWarned'
  BY DEF WarningInv, WarningSafety, LostStreaksWereWarned, LoggedInOn
<1>4. NoticesAreTimely' /\ LoginsArePast'
  BY DEF WarningInv, NoticesAreTimely, LoginsArePast
<1>5. JobsFit'
  BY DEF JobsFit, SleepsUntilDue, PublishesWhenDue, Noticed
<1>6. (WarnedTonight(job["warning"]))'
  <2>1. CASE faulty'
    BY <2>1 DEF WarnedTonight
  <2>2. CASE ~ faulty'
    <3>0. faulty' = faulty
      BY <2>2, faulty' = faulty \/ faulty' = TRUE
    <3>1. ~ faulty /\ WarnedTonight(job'["warning"])
      BY <2>2, <3>0
    <3>2. \A u \in Learners : InDanger(u)' <=> InDanger(u)
      BY DEF InDanger, LoggedInOn
    <3>3. \A u \in Learners : Noticed("warning", u)' = Noticed("warning", u)
      BY DEF Noticed
    <3>4. DueAt("warning", DayOf(slot))' = DueAt("warning", DayOf(slot))
          /\ DayOf(slot)' = DayOf(slot)
      BY DEF DueAt
    <3> QED BY <3>1, <3>2, <3>3, <3>4 DEF WarnedTonight
  <2> QED BY <2>1, <2>2
<1> QED BY <1>1, <1>2, <1>3, <1>4, <1>5, <1>6 DEF WarningInv, WarningSafety

LEMMA OneJobStep ==
    ASSUME WarningInv, NEW j \in Jobs, NEW r \in JobType,
           job' = [job EXCEPT ![j] = r],
           SleepsUntilDue(j, r), PublishesWhenDue(j, r),
           UNCHANGED <<slot, guests, logins, notices>>,
           faulty' \in {faulty, TRUE},
           ~ faulty' /\ j = "warning" => WarnedTonight(r)
    PROVE  WarningInv'
<1>1. job' \in [Jobs -> JobType]
  BY WarningFacts
<1>2. \A k \in Jobs : job'[k] = IF k = j THEN r ELSE job[k]
  BY WarningFacts
<1>3. \A k \in Jobs : SleepsUntilDue(k, job'[k]) /\ PublishesWhenDue(k, job'[k])
  BY <1>2 DEF WarningInv, JobsFit
<1>4. "warning" \in Jobs /\ WarnedTonight(job["warning"])
  BY DEF Jobs, WarningInv
<1>5. ~ faulty' => WarnedTonight(job'["warning"])
  BY <1>2, <1>4
<1> QED BY <1>1, <1>3, <1>5, JobsStep

LEMMA PlanStep ==
    ASSUME WarningInv, NEW j \in Jobs, PlanJob(j)
    PROVE  WarningInv'
<1> DEFINE due == DueAt(j, DayOf(slot))
           t == NextTarget(j)
           r == [at |-> "sleep", target |-> t, left |-> {}]
<1>1. /\ job[j].at = "plan" /\ job' = [job EXCEPT ![j] = r]
      /\ UNCHANGED <<slot, guests, logins, notices, faulty>>
  BY DEF PlanJob
<1>2. t = IF slot >= due THEN due + 3 ELSE due
  BY DEF NextTarget, DueAt
<1>3. due \in Nat
  BY WarningFacts, DueSlots DEF DueAt
<1> HIDE DEF t
<1>4. t \in Nat /\ t > slot
  BY <1>2, <1>3, WarningFacts, DueSlots DEF DueAt
<1>5. r \in JobType
  BY <1>4 DEF JobType, JobAt
<1>6. r.at = "sleep" /\ r.target = t /\ r.left = {}
  OBVIOUS
<1> HIDE DEF r
<1>7. SleepsUntilDue(j, r)
  BY <1>2, <1>3, <1>4, <1>6, WarningFacts DEF SleepsUntilDue
<1>8. PublishesWhenDue(j, r)
  BY <1>6 DEF PublishesWhenDue
<1>9. j = "warning" => WarnedTonight(r)
  <2> SUFFICES ASSUME j = "warning" PROVE WarnedTonight(r)
    OBVIOUS
  <2>1. WarnedTonight(job["warning"]) /\ job["warning"].at = "plan"
    BY <1>1 DEF WarningInv
  <2> QED BY <2>1 DEF WarnedTonight
<1> QED BY <1>1, <1>5, <1>7, <1>8, <1>9, OneJobStep

(* A job that is due wakes in the slot it is due in.                       *)
LEMMA WakesWhenDue ==
    ASSUME WarningInv, NEW j \in Jobs, job[j].at = "sleep", slot >= job[j].target
    PROVE  slot = DueAt(j, DayOf(slot)) /\ job[j].target = slot
<1>1. SleepsUntilDue(j, job[j]) /\ DueAt(j, DayOf(slot)) \in Nat
      /\ DueAt(j, DayOf(slot)) = 3 * DayOf(slot) + DueSlot(j)
  BY WarningFacts, DueSlots DEF WarningInv, JobsFit, DueAt
<1>2. slot \in Nat /\ 3 * DayOf(slot) <= slot /\ slot < 3 * DayOf(slot) + 3
      /\ DayOf(slot) \in Nat /\ DueSlot(j) \in {1, 2}
  BY WarningFacts, DueSlots
<1> QED BY <1>1, <1>2 DEF SleepsUntilDue

LEMMA WakeStep ==
    ASSUME WarningInv, NEW j \in Jobs, WakeJob(j)
    PROVE  WarningInv'
<1> DEFINE old == job[j]
           left == {u \in Learners : Matches(j, u)}
           p == [old EXCEPT !.at = "publish", !.left = left]
           f == [old EXCEPT !.at = "plan"]
<1>1. /\ old.at = "sleep" /\ slot >= old.target
      /\ \/ job' = [job EXCEPT ![j] = p] /\ UNCHANGED faulty
         \/ faulty' = TRUE /\ job' = [job EXCEPT ![j] = f]
      /\ UNCHANGED <<slot, guests, logins, notices>>
  BY WarningFacts DEF WakeJob
<1>2. slot = DueAt(j, DayOf(slot)) /\ old.target = slot
  BY <1>1, WakesWhenDue
<1>3. old \in JobType
  BY WarningFacts
<1>4. /\ p \in JobType /\ p.at = "publish" /\ p.left = left
      /\ f \in JobType /\ f.at = "plan"
  <2>1. left \in SUBSET Learners
    OBVIOUS
  <2> HIDE DEF left
  <2> QED BY <1>3, <2>1 DEF JobType, JobAt
<1>5. CASE faulty' = TRUE /\ job' = [job EXCEPT ![j] = f]
  <2> HIDE DEF f
  <2>1. SleepsUntilDue(j, f) /\ PublishesWhenDue(j, f)
    BY <1>4 DEF SleepsUntilDue, PublishesWhenDue
  <2> QED BY <1>1, <1>4, <1>5, <2>1, OneJobStep
<1>6. CASE job' = [job EXCEPT ![j] = p] /\ UNCHANGED faulty
  <2> HIDE DEF p
  <2>1. SleepsUntilDue(j, p)
    BY <1>4 DEF SleepsUntilDue
  <2>2. \A u \in Learners : Noticed(j, u) = 0
    BY <1>1, <1>2 DEF WarningInv, JobsFit, SleepsUntilDue
  <2>3. PublishesWhenDue(j, p)
    <3> SUFFICES ASSUME NEW u \in left
                 PROVE  /\ Noticed(j, u) = 0
                        /\ \A s \in logins[u] : DayOf(s) # DayOf(slot)
                        /\ j = "warning" => logins[u] # {}
                        /\ j = "nudge" => u \notin guests
      BY <1>2, <1>4 DEF PublishesWhenDue
    <3>1. u \in Learners /\ Matches(j, u)
      OBVIOUS
    <3> QED BY <2>2, <3>1 DEF Matches, LoggedInOn
  <2>4. j = "warning" => WarnedTonight(p)
    <3> SUFFICES ASSUME j = "warning", NEW u \in Learners, InDanger(u)
                 PROVE  u \in left
      BY <1>4 DEF WarnedTonight
    <3> QED BY DEF InDanger, Matches, LoggedInOn
  <2> QED BY <1>1, <1>4, <1>6, <2>1, <2>3, <2>4, OneJobStep
<1> QED BY <1>1, <1>5, <1>6

LEMMA FinishStep ==
    ASSUME WarningInv, NEW j \in Jobs, FinishJob(j)
    PROVE  WarningInv'
<1>1. /\ job[j].at = "publish" /\ job[j].left = {}
      /\ job' = [job EXCEPT ![j] = IdleJob]
      /\ UNCHANGED <<slot, guests, logins, notices, faulty>>
  BY DEF FinishJob
<1>2. SleepsUntilDue(j, IdleJob) /\ PublishesWhenDue(j, IdleJob)
  BY IdleJobIn DEF SleepsUntilDue, PublishesWhenDue
<1>3. j = "warning" => WarnedTonight(IdleJob)
  <2> SUFFICES ASSUME j = "warning" PROVE WarnedTonight(IdleJob)
    OBVIOUS
  <2>1. /\ WarnedTonight(job["warning"]) /\ job["warning"].at = "publish"
        /\ job["warning"].left = {}
    BY <1>1 DEF WarningInv
  <2> QED BY <2>1 DEF WarnedTonight
<1> QED BY <1>1, <1>2, <1>3, IdleJobIn, OneJobStep

LEMMA RestartStep == WarningInv /\ RestartJobs => WarningInv'
<1> SUFFICES ASSUME WarningInv, RestartJobs PROVE WarningInv'
  OBVIOUS
<1>1. /\ job' = [j \in Jobs |-> IdleJob] /\ faulty' = TRUE
      /\ UNCHANGED <<slot, guests, logins, notices>>
  BY DEF RestartJobs
<1>2. \A j \in Jobs : SleepsUntilDue(j, job'[j]) /\ PublishesWhenDue(j, job'[j])
  BY <1>1, IdleJobIn DEF SleepsUntilDue, PublishesWhenDue
<1>3. job' \in [Jobs -> JobType]
  BY <1>1, IdleJobIn
<1> QED BY <1>1, <1>2, <1>3, JobsStep

LEMMA ReminderInit_Inv == ReminderInit => WarningInv
<1> SUFFICES ASSUME ReminderInit PROVE WarningInv
  OBVIOUS
<1>1. /\ slot \in {0, 2} /\ guests \in SUBSET Guests /\ faulty = FALSE
      /\ \A u \in Learners : logins[u] = {}
      /\ \A j \in Jobs : job[j] = IdleJob
      /\ \A j \in Jobs, d \in CalendarDays, u \in Learners : notices[j][d][u] = 0
  BY DEF ReminderInit
<1>2. slot \in Slots /\ slot \in Nat
  BY <1>1, LastDayAssumption DEF Slots
<1>3. DayOf(slot) = 0
  BY <1>1 DEF DayOf
<1>4. ReminderTypeOK
  BY <1>1, <1>2, IdleJobIn DEF ReminderInit, ReminderTypeOK, JobType
<1>5. NoticesAreFew /\ NoticesAreTimely
  BY <1>1 DEF NoticesAreFew, NoticesAreTimely
<1>6. LostStreaksWereWarned
  BY <1>3 DEF LostStreaksWereWarned
<1>7. JobsFit
  BY <1>1, IdleJobIn DEF JobsFit, SleepsUntilDue, PublishesWhenDue
<1>8. LoginsArePast
  BY <1>1 DEF LoginsArePast
<1>9. WarnedTonight(job["warning"])
  BY <1>3 DEF WarnedTonight
<1> QED BY <1>4, <1>5, <1>6, <1>7, <1>8, <1>9 DEF WarningInv, WarningSafety

(* A login of today is no login before a notice that is out.               *)
LEMMA LogInStep ==
    ASSUME WarningInv, NEW v \in Learners, LogIn(v)
    PROVE  WarningInv'
<1>1. /\ v \notin guests /\ ~ LoggedInOn(v, DayOf(slot))
      /\ logins' = [logins EXCEPT ![v] = @ \cup {slot}]
      /\ UNCHANGED <<slot, guests, job, notices, faulty>>
  BY DEF LogIn
<1>2. logins' \in [Learners -> SUBSET Slots]
  BY <1>1, WarningFacts
<1>3. \A u \in Learners :
        logins'[u] = IF u = v THEN logins[u] \cup {slot} ELSE logins[u]
  BY <1>1, WarningFacts
<1> DEFINE NowOn(u, d) == \E s \in logins'[u] : DayOf(s) = d
<1>4. \A u \in Learners, d \in Int :
        /\ LoggedInOn(u, d) => NowOn(u, d)
        /\ d # DayOf(slot) => (NowOn(u, d) => LoggedInOn(u, d))
  BY <1>1, <1>3 DEF LoggedInOn
<1>5. ReminderTypeOK'
  BY <1>1, <1>2, WarningFacts DEF WarningInv, WarningSafety, ReminderTypeOK
<1>6. NoticesAreFew'
  <2> SUFFICES ASSUME NEW j \in Jobs, NEW d \in CalendarDays, NEW u \in Learners,
                      notices[j][d][u] > 0
               PROVE  /\ notices[j][d][u] = 1
                      /\ \A s \in logins'[u] : DayOf(s) = d => s >= 3 * d + DueSlot(j)
                      /\ j = "warning" => \E s \in logins'[u] : s <= 3 * d + 2
                      /\ j = "nudge" => u \notin guests
    BY <1>1 DEF NoticesAreFew
  <2>1. /\ notices[j][d][u] = 1
        /\ \A s \in logins[u] : DayOf(s) = d => s >= 3 * d + DueSlot(j)
        /\ j = "warning" => \E s \in logins[u] : s <= 3 * d + 2
        /\ j = "nudge" => u \notin guests
    BY DEF WarningInv, WarningSafety, NoticesAreFew
  <2>2. 3 * d + DueSlot(j) <= slot
    BY DEF WarningInv, NoticesAreTimely, DueAt
  <2>3. slot >= 3 * d + DueSlot(j)
    BY <2>2, WarningFacts, DueSlots DEF CalendarDays
  <2>4. \A s \in logins'[u] : s \in logins[u] \/ s = slot
    BY <1>3
  <2>5. logins[u] \subseteq logins'[u]
    BY <1>3
  <2> QED BY <2>1, <2>3, <2>4, <2>5
<1>7. LostStreaksWereWarned'
  <2> SUFFICES ASSUME ~ faulty, NEW u \in Learners, NEW d \in 1..(DayOf(slot) - 1),
                      NowOn(u, d - 1), ~ NowOn(u, d)
               PROVE  notices["warning"][d][u] = 1
    BY <1>1 DEF LostStreaksWereWarned, LoggedInOn
  <2>1. d \in Int /\ d - 1 \in Int /\ d - 1 # DayOf(slot)
    BY WarningFacts
  <2>2. LoggedInOn(u, d - 1) /\ ~ LoggedInOn(u, d)
    BY <1>4, <2>1
  <2> QED BY <2>2 DEF WarningInv, WarningSafety, LostStreaksWereWarned
<1>8. JobsFit'
  <2> SUFFICES ASSUME NEW j \in Jobs
               PROVE  SleepsUntilDue(j, job[j])' /\ PublishesWhenDue(j, job[j])'
    BY DEF JobsFit
  <2>1. SleepsUntilDue(j, job[j]) /\ PublishesWhenDue(j, job[j])
    BY DEF WarningInv, JobsFit
  <2>2. SleepsUntilDue(j, job[j])'
    BY <1>1, <2>1 DEF SleepsUntilDue, Noticed, DueAt
  <2>3. job[j].left \subseteq Learners
    BY WarningFacts DEF JobType
  <2>4. PublishesWhenDue(j, job[j])'
    BY <1>1, <1>3, <2>1, <2>3 DEF PublishesWhenDue, Noticed, DueAt
  <2> QED BY <2>2, <2>4
<1>9. NoticesAreTimely'
  BY <1>1 DEF WarningInv, NoticesAreTimely
<1>10. LoginsArePast'
  BY <1>1, <1>3, WarningFacts DEF WarningInv, LoginsArePast
<1>11. (WarnedTonight(job["warning"]))'
  <2>1. WarnedTonight(job["warning"])
    BY DEF WarningInv
  <2>2. \A u \in Learners : InDanger(u)' => InDanger(u)
    <3> SUFFICES ASSUME NEW u \in Learners, InDanger(u)' PROVE InDanger(u)
      OBVIOUS
    <3>1. DayOf(slot) \in Int /\ DayOf(slot) - 1 \in Int /\ DayOf(slot) - 1 # DayOf(slot)
      BY WarningFacts
    <3>2. NowOn(u, DayOf(slot) - 1) /\ ~ NowOn(u, DayOf(slot))
      BY <1>1 DEF InDanger, LoggedInOn
    <3> HIDE DEF NowOn
    <3>3. LoggedInOn(u, DayOf(slot) - 1)
      BY <1>4, <3>1, <3>2
    <3>4. ~ LoggedInOn(u, DayOf(slot))
      BY <1>4, <3>1, <3>2
    <3> QED BY <3>3, <3>4 DEF InDanger
  <2>3. \A u \in Learners : Noticed("warning", u)' = Noticed("warning", u)
    BY <1>1 DEF Noticed
  <2>4. DueAt("warning", DayOf(slot))' = DueAt("warning", DayOf(slot))
        /\ DayOf(slot)' = DayOf(slot)
    BY <1>1 DEF DueAt
  <2> QED BY <1>1, <2>1, <2>2, <2>3, <2>4 DEF WarnedTonight
<1> QED BY <1>5, <1>6, <1>7, <1>8, <1>9, <1>10, <1>11 DEF WarningInv, WarningSafety

LEMMA LinkAddressStep ==
    ASSUME WarningInv, NEW v \in Learners, LinkAddress(v)
    PROVE  WarningInv'
<1>1. /\ guests' = guests \ {v}
      /\ UNCHANGED <<slot, logins, job, notices, faulty>>
  BY DEF LinkAddress
<1>2. ReminderTypeOK'
  BY <1>1 DEF WarningInv, WarningSafety, ReminderTypeOK
<1>3. NoticesAreFew'
  BY <1>1 DEF WarningInv, WarningSafety, NoticesAreFew
<1>4. LostStreaksWereWarned'
  BY <1>1 DEF WarningInv, WarningSafety, LostStreaksWereWarned, LoggedInOn
<1>5. NoticesAreTimely' /\ LoginsArePast'
  BY <1>1 DEF WarningInv, NoticesAreTimely, LoginsArePast
<1>6. JobsFit'
  <2> SUFFICES ASSUME NEW j \in Jobs
               PROVE  SleepsUntilDue(j, job[j])' /\ PublishesWhenDue(j, job[j])'
    BY DEF JobsFit
  <2>1. SleepsUntilDue(j, job[j]) /\ PublishesWhenDue(j, job[j])
    BY DEF WarningInv, JobsFit
  <2>2. SleepsUntilDue(j, job[j])'
    BY <1>1, <2>1 DEF SleepsUntilDue, Noticed, DueAt
  <2>3. PublishesWhenDue(j, job[j])'
    BY <1>1, <2>1 DEF PublishesWhenDue, Noticed, DueAt
  <2> QED BY <2>2, <2>3
<1>7. (WarnedTonight(job["warning"]))'
  <2>1. WarnedTonight(job["warning"])
    BY DEF WarningInv
  <2>2. \A u \in Learners : InDanger(u)' <=> InDanger(u)
    BY <1>1 DEF InDanger, LoggedInOn
  <2>3. \A u \in Learners : Noticed("warning", u)' = Noticed("warning", u)
    BY <1>1 DEF Noticed
  <2>4. DueAt("warning", DayOf(slot))' = DueAt("warning", DayOf(slot))
        /\ DayOf(slot)' = DayOf(slot)
    BY <1>1 DEF DueAt
  <2> QED BY <1>1, <2>1, <2>2, <2>3, <2>4 DEF WarnedTonight
<1> QED BY <1>2, <1>3, <1>4, <1>5, <1>6, <1>7 DEF WarningInv, WarningSafety

(* The user was not noticed today, so the notice is its first.             *)
LEMMA PublishStep ==
    ASSUME WarningInv, NEW j \in Jobs, PublishNotice(j)
    PROVE  WarningInv'
<1> DEFINE old == job[j]
           today == DayOf(slot)
<1>1. PICK v \in old.left :
        /\ old.at = "publish"
        /\ job' = [job EXCEPT ![j].left = @ \ {v}]
        /\ \/ /\ notices' = [notices EXCEPT ![j][today][v] = @ + 1]
              /\ UNCHANGED faulty
           \/ /\ faulty' = TRUE
              /\ UNCHANGED notices
        /\ UNCHANGED <<slot, guests, logins>>
  BY DEF PublishNotice
<1> DEFINE r == [old EXCEPT !.left = @ \ {v}]
<1>2. old \in JobType /\ v \in Learners
  BY <1>1, WarningFacts DEF JobType
<1>3. job' = [job EXCEPT ![j] = r]
  BY <1>1, WarningFacts
<1>4. r \in JobType /\ r.at = "publish" /\ r.left = old.left \ {v}
  BY <1>1, <1>2 DEF JobType
<1> HIDE DEF r
<1>5. PublishesWhenDue(j, old)
  BY DEF WarningInv, JobsFit
<1>6. /\ slot = DueAt(j, today)
      /\ Noticed(j, v) = 0
      /\ \A s \in logins[v] : DayOf(s) = today => s = slot
      /\ j = "warning" => logins[v] # {}
      /\ j = "nudge" => v \notin guests
  BY <1>1, <1>5 DEF PublishesWhenDue
<1>7. CASE faulty' = TRUE /\ UNCHANGED notices
  <2>1. SleepsUntilDue(j, r) /\ PublishesWhenDue(j, r)
    BY <1>4, <1>5, <1>1 DEF SleepsUntilDue, PublishesWhenDue
  <2> QED BY <1>1, <1>3, <1>4, <1>7, <2>1, OneJobStep
<1>8. CASE notices' = [notices EXCEPT ![j][today][v] = @ + 1] /\ UNCHANGED faulty
  <2>1. /\ today \in CalendarDays /\ slot \in Nat
        /\ notices \in [Jobs -> [CalendarDays -> [Learners -> Nat]]]
    BY WarningFacts
  <2>2. notices[j][today][v] = 0
    BY <1>6 DEF Noticed
  <2> HIDE DEF today
  <2>3. notices' \in [Jobs -> [CalendarDays -> [Learners -> Nat]]]
    BY <1>8, <2>1, <1>2
  <2>4. \A k \in Jobs, d \in CalendarDays, u \in Learners :
          notices'[k][d][u] = IF k = j /\ d = today /\ u = v THEN 1 ELSE notices[k][d][u]
    BY <1>8, <2>1, <2>2, <1>2
  <2>5. \A k \in Jobs : job'[k] = IF k = j THEN r ELSE job[k]
    BY <1>3, WarningFacts
  <2>6. ReminderTypeOK'
    <3>1. job' \in [Jobs -> JobType]
      BY <1>3, <1>4, WarningFacts
    <3> QED BY <1>1, <1>8, <2>3, <3>1
            DEF WarningInv, WarningSafety, ReminderTypeOK, JobType
  <2>7. NoticesAreFew'
    <3> SUFFICES ASSUME NEW k \in Jobs, NEW d \in CalendarDays, NEW u \in Learners,
                        notices'[k][d][u] > 0
                 PROVE  /\ notices'[k][d][u] = 1
                        /\ \A s \in logins[u] : DayOf(s) = d => s >= 3 * d + DueSlot(k)
                        /\ k = "warning" => \E s \in logins[u] : s <= 3 * d + 2
                        /\ k = "nudge" => u \notin guests
      BY <1>1 DEF NoticesAreFew
    <3>1. CASE ~ (k = j /\ d = today /\ u = v)
      BY <2>4, <3>1 DEF WarningInv, WarningSafety, NoticesAreFew
    <3>2. CASE k = j /\ d = today /\ u = v
      <4>1. notices'[k][d][u] = 1
        BY <2>4, <3>2
      <4>2. slot = 3 * d + DueSlot(k)
        BY <1>6, <3>2 DEF DueAt, today
      <4>3. \A s \in logins[u] : DayOf(s) = d => s = slot
        BY <1>6, <3>2
      <4>4. \A s \in logins[u] : DayOf(s) = d => s >= 3 * d + DueSlot(k)
        BY <2>1, <4>2, <4>3
      <4>5. k = "warning" => \E s \in logins[u] : s <= 3 * d + 2
        <5> SUFFICES ASSUME k = "warning" PROVE \E s \in logins[u] : s <= 3 * d + 2
          OBVIOUS
        <5>1. PICK s \in logins[u] : TRUE
          BY <1>6, <3>2
        <5>2. s <= slot
          BY <2>1 DEF WarningInv, LoginsArePast
        <5>3. slot = 3 * d + 2
          BY <4>2, DueSlots
        <5> QED BY <5>1, <5>2, <5>3
      <4>6. k = "nudge" => u \notin guests
        BY <1>6, <3>2
      <4> QED BY <4>1, <4>4, <4>5, <4>6
    <3> QED BY <3>1, <3>2
  <2>8. LostStreaksWereWarned'
    <3> SUFFICES ASSUME ~ faulty, NEW u \in Learners, NEW d \in 1..(DayOf(slot) - 1),
                        LoggedInOn(u, d - 1), ~ LoggedInOn(u, d)
                 PROVE  notices'["warning"][d][u] = 1
      BY <1>1, <1>8 DEF LostStreaksWereWarned, LoggedInOn
    <3>1. notices["warning"][d][u] = 1
      BY DEF WarningInv, WarningSafety, LostStreaksWereWarned
    <3>2. d # today /\ d \in CalendarDays /\ "warning" \in Jobs
      <4>1. today \in 0..(LastDay - 1) /\ d \in 1..(today - 1)
        BY <2>1 DEF today, CalendarDays
      <4> QED BY <4>1, LastDayAssumption DEF CalendarDays, Jobs
    <3> QED BY <2>4, <3>1, <3>2
  <2>9. \A k \in Jobs, u \in Learners :
          Noticed(k, u)' = IF k = j /\ u = v THEN 1 ELSE Noticed(k, u)
    BY <1>1, <2>1, <2>4 DEF Noticed, today
  <2>10. /\ DayOf(slot)' = DayOf(slot)
         /\ \A k \in Jobs : DueAt(k, DayOf(slot))' = DueAt(k, DayOf(slot))
    BY <1>1 DEF DueAt
  <2>11. JobsFit'
    <3> SUFFICES ASSUME NEW k \in Jobs
                 PROVE  SleepsUntilDue(k, job[k])' /\ PublishesWhenDue(k, job[k])'
      BY DEF JobsFit
    <3>0. SleepsUntilDue(k, job[k]) /\ PublishesWhenDue(k, job[k])
      BY DEF WarningInv, JobsFit
    <3>1. CASE k # j
      <4>1. job'[k] = job[k]
        BY <2>5, <3>1
      <4>2. \A u \in Learners : Noticed(k, u)' = Noticed(k, u)
        BY <2>9, <3>1
      <4>3. job[k].left \subseteq Learners
        BY WarningFacts DEF JobType
      <4>4. SleepsUntilDue(k, job[k])'
        BY <1>1, <2>10, <3>0, <4>1, <4>2 DEF SleepsUntilDue
      <4>5. PublishesWhenDue(k, job[k])'
        BY <1>1, <2>10, <3>0, <4>1, <4>2, <4>3 DEF PublishesWhenDue
      <4> QED BY <4>4, <4>5
    <3>2. CASE k = j
      <4>1. job'[k] = r
        BY <2>5, <3>2
      <4>2. \A u \in Learners \ {v} : Noticed(k, u)' = Noticed(k, u)
        BY <2>9, <3>2
      <4>3. old.left \subseteq Learners
        BY <1>2 DEF JobType
      <4>4. SleepsUntilDue(k, job[k])'
        BY <1>4, <4>1 DEF SleepsUntilDue
      <4>5. PublishesWhenDue(k, job[k])'
        BY <1>1, <1>4, <1>5, <2>10, <3>2, <4>1, <4>2, <4>3 DEF PublishesWhenDue
      <4> QED BY <4>4, <4>5
    <3> QED BY <3>1, <3>2
  <2>12. NoticesAreTimely'
    <3> SUFFICES ASSUME NEW k \in Jobs, NEW d \in CalendarDays, NEW u \in Learners,
                        notices'[k][d][u] > 0
                 PROVE  DueAt(k, d) <= slot
      BY <1>1 DEF NoticesAreTimely, DueAt
    <3>1. CASE ~ (k = j /\ d = today /\ u = v)
      BY <2>4, <3>1 DEF WarningInv, NoticesAreTimely
    <3>2. CASE k = j /\ d = today /\ u = v
      BY <1>6, <2>1, <3>2
    <3> QED BY <3>1, <3>2
  <2>13. LoginsArePast'
    BY <1>1 DEF WarningInv, LoginsArePast
  <2>14. (WarnedTonight(job["warning"]))'
    <3>1. WarnedTonight(job["warning"]) /\ "warning" \in Jobs
      BY DEF WarningInv, Jobs
    <3>2. \A u \in Learners : InDanger(u)' <=> InDanger(u)
      BY <1>1 DEF InDanger, LoggedInOn
    <3>3. CASE j # "warning"
      <4>1. job'["warning"] = job["warning"]
        BY <2>5, <3>1, <3>3
      <4>2. \A u \in Learners : Noticed("warning", u)' = Noticed("warning", u)
        BY <2>9, <3>1, <3>3
      <4> QED BY <1>1, <1>8, <2>10, <3>1, <3>2, <4>1, <4>2 DEF WarnedTonight
    <3>4. CASE j = "warning"
      <4>1. job'["warning"] = r
        BY <2>5, <3>1, <3>4
      <4>2. \A u \in Learners :
              Noticed("warning", u)' = IF u = v THEN 1 ELSE Noticed("warning", u)
        BY <2>9, <3>1, <3>4
      <4>3. WarnedTonight(old) /\ old.at = "publish"
        BY <1>1, <3>1, <3>4
      <4> HIDE DEF old
      <4> QED BY <1>1, <1>4, <1>8, <2>10, <3>1, <3>2, <4>1, <4>2, <4>3 DEF WarnedTonight
    <3> QED BY <3>3, <3>4
  <2> QED BY <2>6, <2>7, <2>8, <2>11, <2>12, <2>13, <2>14 DEF WarningInv, WarningSafety
<1> QED BY <1>1, <1>7, <1>8

(* Both jobs sleep, and not until this slot: the evening's warnings are    *)
(* out when the day ends.                                                  *)
LEMMA PassStep == WarningInv /\ PassSlot => WarningInv'
<1> SUFFICES ASSUME WarningInv, PassSlot PROVE WarningInv'
  OBVIOUS
<1> DEFINE today == DayOf(slot)
           next == DayOf(slot + 1)
<1>1. /\ slot + 1 \in Slots /\ slot' = slot + 1
      /\ \A j \in Jobs : job[j].at = "sleep" /\ slot < job[j].target
      /\ UNCHANGED <<guests, logins, job, notices, faulty>>
  BY DEF PassSlot
<1>2. /\ slot \in Nat /\ today \in Nat
      /\ 3 * today <= slot /\ slot < 3 * today + 3
      /\ slot + 1 \in Nat
      /\ \A j \in Jobs : job[j].target \in Nat
  BY WarningFacts DEF JobType
<1>3. /\ slot < 3 * today + 2 => next = today
      /\ slot = 3 * today + 2 => next = today + 1
  BY <1>2, NextSlot
<1>4. DayOf(slot)' = next /\ next \in Nat /\ next \in CalendarDays
      /\ 3 * next <= slot + 1 /\ slot + 1 < 3 * next + 3
  <2>1. DayOf(slot)' = next
    BY <1>1
  <2>2. next \in Nat /\ 3 * next <= slot + 1 /\ slot + 1 < 3 * next + 3
    BY <1>2, DayBounds
  <2>3. slot + 1 < 3 * LastDay
    BY <1>1, LastDayAssumption DEF Slots
  <2> HIDE DEF next, today
  <2>4. next \in CalendarDays
    BY <2>2, <2>3, <1>2, LastDayAssumption DEF CalendarDays
  <2> QED BY <2>1, <2>2, <2>4
<1> HIDE DEF today, next
<1>5. \A j \in Jobs : SleepsUntilDue(j, job[j])
  BY DEF WarningInv, JobsFit
<1>6. \A j \in Jobs :
        /\ DueSlot(j) \in {1, 2}
        /\ DueAt(j, today) = 3 * today + DueSlot(j)
        /\ DueAt(j, next) = 3 * next + DueSlot(j)
  BY DueSlots DEF DueAt
<1>7. \A j \in Jobs :
        /\ slot < DueAt(j, today) => job[j].target = DueAt(j, today)
        /\ slot >= DueAt(j, today) => job[j].target = DueAt(j, today) + 3
  <2> SUFFICES ASSUME NEW j \in Jobs
               PROVE  /\ slot < DueAt(j, today) => job[j].target = DueAt(j, today)
                      /\ slot >= DueAt(j, today) => job[j].target = DueAt(j, today) + 3
    OBVIOUS
  <2>1. /\ slot < DueAt(j, today) => job[j].target = DueAt(j, today)
        /\ slot = DueAt(j, today) => job[j].target \in {DueAt(j, today), DueAt(j, today) + 3}
        /\ slot > DueAt(j, today) => job[j].target = DueAt(j, today) + 3
    BY <1>1, <1>5 DEF SleepsUntilDue, today
  <2>2. DueAt(j, today) \in Nat
    BY <1>2, <1>6
  <2> QED BY <1>1, <1>2, <2>1, <2>2
(* Where the next slot lies with respect to its day's due slots.           *)
<1>8. \A j \in Jobs :
        /\ slot + 1 <= DueAt(j, next) => job[j].target = DueAt(j, next)
        /\ slot + 1 > DueAt(j, next) => job[j].target = DueAt(j, next) + 3
  <2> SUFFICES ASSUME NEW j \in Jobs
               PROVE  /\ slot + 1 <= DueAt(j, next) => job[j].target = DueAt(j, next)
                      /\ slot + 1 > DueAt(j, next) => job[j].target = DueAt(j, next) + 3
    OBVIOUS
  <2>1. CASE slot < 3 * today + 2
    <3>1. next = today
      BY <1>3, <2>1
    <3> QED BY <1>2, <1>6, <1>7, <3>1
  <2>2. CASE slot = 3 * today + 2
    <3>1. next = today + 1
      BY <1>3, <2>2
    <3>2. slot >= DueAt(j, today) /\ DueAt(j, next) = DueAt(j, today) + 3
          /\ slot + 1 <= DueAt(j, next)
      BY <1>2, <1>6, <2>2, <3>1
    <3> QED BY <1>2, <1>6, <1>7, <3>2
  <2> QED BY <1>2, <2>1, <2>2
<1>9. ReminderTypeOK'
  BY <1>1 DEF WarningInv, WarningSafety, ReminderTypeOK
<1>10. NoticesAreFew'
  BY <1>1 DEF WarningInv, WarningSafety, NoticesAreFew
<1>11. NoticesAreTimely'
  <2> SUFFICES ASSUME NEW j \in Jobs, NEW d \in CalendarDays, NEW u \in Learners,
                      notices[j][d][u] > 0
               PROVE  DueAt(j, d) <= slot + 1
    BY <1>1 DEF NoticesAreTimely, DueAt
  <2>1. DueAt(j, d) <= slot
    BY DEF WarningInv, NoticesAreTimely
  <2>2. DueAt(j, d) \in Int
    BY DueSlots, LastDayAssumption DEF DueAt, CalendarDays
  <2> QED BY <1>2, <2>1, <2>2
<1>12. LoginsArePast'
  BY <1>1, <1>2 DEF WarningInv, LoginsArePast
<1>13. \A j \in Jobs : DueAt(j, DayOf(slot))' = DueAt(j, next)
  BY <1>4 DEF DueAt
<1>14. JobsFit'
  <2> SUFFICES ASSUME NEW j \in Jobs
               PROVE  SleepsUntilDue(j, job[j])' /\ PublishesWhenDue(j, job[j])'
    BY DEF JobsFit
  <2>1. job[j].target = slot + 1 => \A u \in Learners : Noticed(j, u)' = 0
    <3> SUFFICES ASSUME job[j].target = slot + 1, NEW u \in Learners
                 PROVE  notices[j][next][u] = 0
      BY <1>1, <1>4 DEF Noticed
    <3>1. DueAt(j, next) \in Nat /\ DueAt(j, next) > slot
      BY <1>2, <1>4, <1>6, <1>8
    <3>2. ~ notices[j][next][u] > 0
      BY <1>2, <1>4, <3>1 DEF WarningInv, NoticesAreTimely
    <3>3. notices[j][next][u] \in Nat
      BY <1>4, WarningFacts
    <3> QED BY <3>2, <3>3
  <2>2. SleepsUntilDue(j, job[j])'
    BY <1>1, <1>2, <1>4, <1>6, <1>8, <1>13, <2>1 DEF SleepsUntilDue
  <2>3. PublishesWhenDue(j, job[j])'
    BY <1>1 DEF PublishesWhenDue
  <2> QED BY <2>2, <2>3
<1>15. "warning" \in Jobs /\ DueSlot("warning") = 2
  BY DueSlots DEF Jobs
<1>16. (WarnedTonight(job["warning"]))'
  <2> SUFFICES ASSUME slot' = DueAt("warning", DayOf(slot))'
               PROVE  job'["warning"].at = "sleep" /\ job'["warning"].target = slot'
    BY DEF WarnedTonight
  <2>1. slot + 1 = DueAt("warning", next)
    BY <1>1, <1>13, <1>15
  <2> QED BY <1>1, <1>2, <1>8, <1>15, <2>1
<1>17. LostStreaksWereWarned'
  <2> SUFFICES ASSUME ~ faulty, NEW u \in Learners, NEW d \in 1..(next - 1),
                      LoggedInOn(u, d - 1), ~ LoggedInOn(u, d)
               PROVE  notices["warning"][d][u] = 1
    BY <1>1, <1>4 DEF LostStreaksWereWarned, LoggedInOn
  <2>1. CASE d \in 1..(today - 1)
    BY <2>1 DEF WarningInv, WarningSafety, LostStreaksWereWarned, today
  <2>2. CASE d \notin 1..(today - 1)
    <3>1. d = today /\ slot = 3 * today + 2 /\ today >= 1
      BY <1>2, <1>3, <1>4, <2>2
    <3>2. slot = DueAt("warning", today)
      BY <1>6, <1>15, <3>1
    <3>3. InDanger(u)
      BY <3>1 DEF InDanger, today
    <3>4. job["warning"].at = "sleep" /\ job["warning"].target # slot
      BY <1>1, <1>2, <1>15
    <3>5. Noticed("warning", u) = 1
      BY <3>1, <3>2, <3>3, <3>4 DEF WarningInv, WarnedTonight, today
    <3> QED BY <3>1, <3>5 DEF Noticed, today
  <2> QED BY <2>1, <2>2
<1> QED BY <1>9, <1>10, <1>11, <1>12, <1>14, <1>16, <1>17 DEF WarningInv, WarningSafety

-----------------------------------------------------------------------------
LEMMA ReminderStep == WarningInv /\ [ReminderNext]_reminderVars => WarningInv'
<1> SUFFICES ASSUME WarningInv, [ReminderNext]_reminderVars PROVE WarningInv'
  OBVIOUS
<1>1. CASE \E u \in Learners : LogIn(u)
  BY <1>1, LogInStep
<1>2. CASE \E u \in Learners : LinkAddress(u)
  BY <1>2, LinkAddressStep
<1>3. CASE \E j \in Jobs : PlanJob(j)
  BY <1>3, PlanStep
<1>4. CASE \E j \in Jobs : WakeJob(j)
  BY <1>4, WakeStep
<1>5. CASE \E j \in Jobs : PublishNotice(j)
  BY <1>5, PublishStep
<1>6. CASE \E j \in Jobs : FinishJob(j)
  BY <1>6, FinishStep
<1>7. CASE RestartJobs
  BY <1>7, RestartStep
<1>8. CASE PassSlot
  BY <1>8, PassStep
<1>9. CASE UNCHANGED reminderVars
  <2>1. /\ UNCHANGED <<slot, guests, logins, notices, faulty>>
        /\ UNCHANGED job
    BY <1>9 DEF reminderVars
  <2>2. job \in [Jobs -> JobType] /\ "warning" \in Jobs
    BY WarningFacts DEF Jobs
  <2>3. /\ \A j \in Jobs : SleepsUntilDue(j, job'[j]) /\ PublishesWhenDue(j, job'[j])
        /\ WarnedTonight(job'["warning"])
    BY <2>1 DEF WarningInv, JobsFit
  <2> QED BY <2>1, <2>2, <2>3, JobsStep
<1> QED BY <1>1, <1>2, <1>3, <1>4, <1>5, <1>6, <1>7, <1>8, <1>9 DEF ReminderNext

(* Whatever fails, however often the service restarts and whenever users   *)
(* log in, a day has one notice of each job for a user at most, and none   *)
(* that a login of that day made needless; and while nothing has failed    *)
(* nobody's streak ends at a midnight without a warning in the evening.    *)
THEOREM StreaksAreWarned == ReminderSpec => []WarningSafety
<1>1. WarningInv => WarningSafety
  BY DEF WarningInv
<1> QED BY <1>1, ReminderInit_Inv, ReminderStep, PTL DEF ReminderSpec

-----------------------------------------------------------------------------
(***************************************************************************)
(* PlanScreens: any number of requests and of changes of the plan.         *)
(***************************************************************************)

(* What a request still knows is true: a plan read since the last change   *)
(* is the stored one, and so are the rows' plan of a request that nothing  *)
(* disturbed, and any profile shown.                                       *)
RequestsKnowPlan ==
    \A s \in Screens :
        /\ screen[s].at = "fill" /\ screen[s].fresh => screen[s].rows = stored
        /\ screen[s].calm => screen[s].rows \in {NoPlan, stored}
        /\ screen[s].at = "shown" => screen[s].profile \in {NoPlan, stored}
        /\ screen[s].at # "shown" => screen[s].profile = NoPlan

PlanInv == PlanTypeOK /\ CopyFollowsPlan /\ RequestsKnowPlan

ScreenType == [kind : Kinds, at : ScreenAt, rows : MaybePlan,
               profile : MaybePlan, fresh : BOOLEAN, calm : BOOLEAN]

-----------------------------------------------------------------------------
LEMMA PlanInit_Inv == PlanInit => PlanInv
<1> SUFFICES ASSUME PlanInit PROVE PlanInv
  OBVIOUS
<1>1. NoScreen \in ScreenType /\ NoCopy \in [plan : MaybePlan, stray : BOOLEAN]
  BY DEF NoScreen, NoCopy, ScreenType, MaybePlan, NoPlan, Plans, Kinds, ScreenAt
<1>2. screen \in [Screens -> ScreenType]
  BY <1>1 DEF PlanInit
<1>3. changes \in 0..MaxChanges
  BY MaxChangesAssumption DEF PlanInit
<1>4. PlanTypeOK
  BY <1>1, <1>2, <1>3 DEF PlanInit, PlanTypeOK, ScreenType
<1>5. \A s \in Screens : screen[s] = NoScreen
  BY DEF PlanInit
<1>6. NoScreen.at = "idle" /\ NoScreen.rows = NoPlan /\ NoScreen.profile = NoPlan
  BY DEF NoScreen
<1>7. RequestsKnowPlan
  BY <1>5, <1>6 DEF RequestsKnowPlan
<1>8. CopyFollowsPlan
  BY DEF PlanInit, CopyFollowsPlan, NoCopy
<1> QED BY <1>4, <1>7, <1>8 DEF PlanInv

(* The changes of the plan and of its copy.                                *)
LEMMA ChangesKeepInv ==
    ASSUME PlanInv,
           WritePlan \/ DeletePlan \/ DeletePlanFails \/ CopyExpires
    PROVE  PlanInv'
<1>1. CASE WritePlan
  <2>1. PICK p \in Plans \ {stored} : stored' = p
    BY <1>1 DEF WritePlan
  <2>2. \A s \in Screens :
          screen'[s] = IF screen[s].at \in {"idle", "shown"} THEN NoScreen
                       ELSE [screen[s] EXCEPT !.fresh = FALSE, !.calm = FALSE]
    BY <1>1 DEF WritePlan
  <2>3. \A s \in Screens : screen[s] \in ScreenType
    BY DEF PlanInv, PlanTypeOK, ScreenType
  <2>4. NoScreen \in ScreenType
    BY DEF NoScreen, ScreenType, MaybePlan, NoPlan, Plans, Kinds, ScreenAt
  <2>5. \A s \in Screens : screen'[s] \in ScreenType
    <3> TAKE s \in Screens
    <3>1. [screen[s] EXCEPT !.fresh = FALSE, !.calm = FALSE] \in ScreenType
      BY <2>3 DEF ScreenType
    <3> QED BY <2>2, <2>4, <3>1
  <2>6. screen' = [s \in Screens |-> screen'[s]]
    BY <1>1 DEF WritePlan
  <2>7. PlanTypeOK'
    <3>1. screen' \in [Screens -> ScreenType]
      BY <2>5, <2>6
    <3>2. changes' \in 0..MaxChanges
      <4>1. changes < MaxChanges /\ changes' = changes + 1
        BY <1>1 DEF WritePlan
      <4>2. changes \in 0..MaxChanges
        BY DEF PlanInv, PlanTypeOK
      <4> QED BY <4>1, <4>2, MaxChangesAssumption
    <3>3. UNCHANGED copy /\ changing' = TRUE
      BY <1>1 DEF WritePlan
    <3> QED BY <2>1, <3>1, <3>2, <3>3 DEF PlanInv, PlanTypeOK, ScreenType
  <2>8. CopyFollowsPlan'
    BY <1>1 DEF WritePlan, CopyFollowsPlan
  <2>9. RequestsKnowPlan'
    <3> SUFFICES ASSUME NEW s \in Screens
                 PROVE  /\ ~ screen'[s].calm \/ screen'[s] = NoScreen
                        /\ screen'[s].at = "fill" => ~ screen'[s].fresh
                        /\ screen'[s].at # "shown"
                        /\ screen'[s].profile = NoPlan
      <4>1. NoScreen.rows = NoPlan /\ NoScreen.at # "fill"
        BY DEF NoScreen
      <4> QED BY <4>1, Zenon DEF RequestsKnowPlan
    <3>1. CASE screen[s].at \in {"idle", "shown"}
      <4>1. screen'[s] = NoScreen
        BY <2>2, <3>1
      <4>2. NoScreen.at = "idle" /\ NoScreen.profile = NoPlan
        BY DEF NoScreen
      <4> QED BY <4>1, <4>2
    <3>2. CASE screen[s].at \notin {"idle", "shown"}
      <4>1. screen[s].profile = NoPlan
        BY <3>2 DEF PlanInv, RequestsKnowPlan
      <4>2. screen'[s] = [screen[s] EXCEPT !.fresh = FALSE, !.calm = FALSE]
        BY <2>2, <3>2
      <4> QED BY <2>3, <3>2, <4>1, <4>2 DEF ScreenType
    <3> QED BY <3>1, <3>2
  <2> QED BY <2>7, <2>8, <2>9 DEF PlanInv
<1>2. CASE DeletePlan \/ CopyExpires
  <2>1. /\ copy' = NoCopy /\ changing' \in BOOLEAN
        /\ UNCHANGED <<stored, changes, screen>>
    BY <1>2 DEF DeletePlan, EndChange, CopyExpires, PlanInv, PlanTypeOK
  <2>2. NoCopy \in [plan : MaybePlan, stray : BOOLEAN] /\ NoCopy.plan = NoPlan
    BY DEF NoCopy, MaybePlan
  <2>3. PlanTypeOK' /\ CopyFollowsPlan' /\ RequestsKnowPlan'
    BY <2>1, <2>2
    DEF PlanInv, PlanTypeOK, CopyFollowsPlan, RequestsKnowPlan
  <2> QED BY <2>3 DEF PlanInv
<1>3. CASE DeletePlanFails
  <2>1. /\ changing' \in BOOLEAN /\ UNCHANGED <<stored, changes, screen>>
        /\ copy' = IF copy.plan \in {NoPlan, stored} THEN copy
                   ELSE [copy EXCEPT !.stray = TRUE]
    BY <1>3 DEF DeletePlanFails, EndChange
  <2>2. copy \in [plan : MaybePlan, stray : BOOLEAN]
    BY DEF PlanInv, PlanTypeOK
  <2>3. /\ copy' \in [plan : MaybePlan, stray : BOOLEAN]
        /\ ~ copy'.stray => copy'.plan \in {NoPlan, stored}
    BY <2>1, <2>2
  <2>4. PlanTypeOK' /\ CopyFollowsPlan' /\ RequestsKnowPlan'
    BY <2>1, <2>3
    DEF PlanInv, PlanTypeOK, CopyFollowsPlan, RequestsKnowPlan
  <2> QED BY <2>4 DEF PlanInv
<1> QED BY <1>1, <1>2, <1>3

(* A step of a request leaves the plan as it is: what it makes of its own  *)
(* record is enough.                                                       *)
LEMMA OneRequest ==
    ASSUME PlanInv, NEW s \in Screens, NEW r \in ScreenType,
           screen' = [screen EXCEPT ![s] = r],
           UNCHANGED <<stored, changing, changes>>,
           copy' \in [plan : MaybePlan, stray : BOOLEAN], CopyFollowsPlan',
           r.at = "fill" /\ r.fresh => r.rows = stored,
           r.calm => r.rows \in {NoPlan, stored},
           r.at = "shown" => r.profile \in {NoPlan, stored},
           r.at # "shown" => r.profile = NoPlan
    PROVE  PlanInv'
<1>1. screen \in [Screens -> ScreenType]
  BY DEF PlanInv, PlanTypeOK, ScreenType
<1>2. PlanTypeOK'
  BY <1>1 DEF PlanInv, PlanTypeOK, ScreenType
<1>3. \A t \in Screens : screen'[t] = IF t = s THEN r ELSE screen[t]
  BY <1>1
<1>4. RequestsKnowPlan'
  BY <1>3 DEF PlanInv, RequestsKnowPlan
<1> QED BY <1>2, <1>4 DEF PlanInv

LEMMA RequestsKeepInv ==
    ASSUME PlanInv, NEW s \in Screens,
           OpenScreen(s) \/ FindPlan(s) \/ FillPlan(s) \/ ReadProfile(s)
    PROVE  PlanInv'
<1>1. /\ screen \in [Screens -> ScreenType] /\ screen[s] \in ScreenType
      /\ stored \in Plans /\ changing \in BOOLEAN
      /\ copy \in [plan : MaybePlan, stray : BOOLEAN] /\ CopyFollowsPlan
  BY DEF PlanInv, PlanTypeOK, ScreenType
<1>2. /\ screen[s].at = "fill" /\ screen[s].fresh => screen[s].rows = stored
      /\ screen[s].calm => screen[s].rows \in {NoPlan, stored}
      /\ screen[s].at # "shown" => screen[s].profile = NoPlan
  BY DEF PlanInv, RequestsKnowPlan
<1>3. NoScreen \in ScreenType
  BY DEF NoScreen, ScreenType, MaybePlan, NoPlan, Plans, Kinds, ScreenAt
<1>4. CASE OpenScreen(s)
  <2> DEFINE
        Status(kind) == [NoScreen EXCEPT !.kind = kind, !.at = "profile",
                                         !.calm = ~ changing]
        Find(kind) == [NoScreen EXCEPT !.kind = kind, !.at = "find",
                                       !.calm = ~ changing]
        Hit(kind) == [NoScreen EXCEPT !.kind = kind, !.at = Then(kind),
                                      !.rows = copy.plan,
                                      !.calm = ~ changing /\ ~ copy.stray]
  <2>1. PICK kind \in Kinds :
          screen' = [screen EXCEPT ![s] = IF kind = "status" THEN Status(kind)
                                          ELSE IF copy = NoCopy THEN Find(kind)
                                          ELSE Hit(kind)]
    BY <1>4 DEF OpenScreen
  <2>2. /\ Status(kind) \in ScreenType /\ Find(kind) \in ScreenType
        /\ Hit(kind) \in ScreenType
    BY <1>1 DEF ScreenType, NoScreen, Kinds, ScreenAt, Then, MaybePlan
  <2>3. /\ Status(kind).rows = NoPlan /\ Find(kind).rows = NoPlan
        /\ Status(kind).profile = NoPlan /\ Find(kind).profile = NoPlan
        /\ Status(kind).at = "profile" /\ Find(kind).at = "find"
    BY DEF NoScreen
  <2>4. /\ Hit(kind).rows = copy.plan /\ Hit(kind).profile = NoPlan
        /\ Hit(kind).at \in {"profile", "shown"}
        /\ Hit(kind).calm <=> ~ changing /\ ~ copy.stray
    BY DEF NoScreen, Then
  <2>5. Hit(kind).calm => Hit(kind).rows \in {NoPlan, stored}
    BY <1>1, <2>4 DEF CopyFollowsPlan
  <2>6. CopyFollowsPlan' /\ UNCHANGED <<stored, copy, changing, changes>>
    BY <1>1, <1>4 DEF OpenScreen, CopyFollowsPlan
  <2> HIDE DEF Status, Find, Hit
  <2>7. CASE kind = "status"
    BY <1>1, <2>1, <2>2, <2>3, <2>6, <2>7, OneRequest
  <2>8. CASE kind # "status" /\ copy = NoCopy
    BY <1>1, <2>1, <2>2, <2>3, <2>6, <2>8, OneRequest
  <2>9. CASE kind # "status" /\ copy # NoCopy
    BY <1>1, <2>1, <2>2, <2>4, <2>5, <2>6, <2>9, OneRequest
  <2> QED BY <2>7, <2>8, <2>9
<1>5. CASE FindPlan(s)
  <2> DEFINE
        Found == [screen[s] EXCEPT !.at = "fill", !.rows = stored, !.fresh = TRUE]
        Failed == [screen[s] EXCEPT !.at = "fill", !.rows = "free",
                                    !.fresh = FALSE, !.calm = FALSE]
  <2>1. /\ \/ screen' = [screen EXCEPT ![s] = Found]
           \/ screen' = [screen EXCEPT ![s] = Failed]
        /\ UNCHANGED <<stored, copy, changing, changes>>
        /\ screen[s].profile = NoPlan
    BY <1>1, <1>2, <1>5 DEF FindPlan
  <2>2. /\ Found \in ScreenType /\ Failed \in ScreenType
        /\ Found.at = "fill" /\ Found.rows = stored
        /\ Found.profile = screen[s].profile
        /\ Failed.at = "fill" /\ ~ Failed.fresh /\ ~ Failed.calm
        /\ Failed.profile = screen[s].profile
    BY <1>1 DEF ScreenType, ScreenAt, MaybePlan, Plans
  <2>3. CopyFollowsPlan'
    BY <1>1, <2>1 DEF CopyFollowsPlan
  <2> HIDE DEF Found, Failed
  <2>4. CASE screen' = [screen EXCEPT ![s] = Found]
    BY <1>1, <2>1, <2>2, <2>3, <2>4, OneRequest
  <2>5. CASE screen' = [screen EXCEPT ![s] = Failed]
    BY <1>1, <2>1, <2>2, <2>3, <2>5, OneRequest
  <2> QED BY <2>1, <2>4, <2>5
<1>6. CASE FillPlan(s)
  <2> DEFINE Filled == [screen[s] EXCEPT !.at = Then(screen[s].kind)]
  <2>1. /\ screen' = [screen EXCEPT ![s] = Filled]
        /\ screen[s].at = "fill"
        /\ copy' = [plan |-> screen[s].rows, stray |-> ~ screen[s].fresh]
        /\ UNCHANGED <<stored, changing, changes>>
    BY <1>1, <1>6 DEF FillPlan
  <2>2. /\ Filled \in ScreenType /\ Filled.at \in {"profile", "shown"}
        /\ Filled.rows = screen[s].rows /\ Filled.calm = screen[s].calm
        /\ Filled.profile = screen[s].profile
    BY <1>1 DEF ScreenType, ScreenAt, Then
  <2>3. copy' \in [plan : MaybePlan, stray : BOOLEAN]
    BY <1>1, <2>1 DEF ScreenType
  <2>4. ~ copy'.stray => copy'.plan = stored
    BY <1>2, <2>1
  <2>5. CopyFollowsPlan'
    BY <2>1, <2>4 DEF CopyFollowsPlan
  <2> HIDE DEF Filled
  <2> QED BY <1>1, <1>2, <2>1, <2>2, <2>3, <2>5, OneRequest
<1>7. CASE ReadProfile(s)
  <2> DEFINE Shown == [screen[s] EXCEPT !.at = "shown", !.profile = stored]
  <2>1. /\ \/ screen' = [screen EXCEPT ![s] = Shown]
           \/ screen' = [screen EXCEPT ![s] = NoScreen]
        /\ UNCHANGED <<stored, copy, changing, changes>>
    BY <1>1, <1>7 DEF ReadProfile
  <2>2. /\ Shown \in ScreenType /\ Shown.at = "shown" /\ Shown.profile = stored
        /\ Shown.rows = screen[s].rows /\ Shown.calm = screen[s].calm
    BY <1>1 DEF ScreenType, ScreenAt, MaybePlan
  <2>3. NoScreen.at = "idle" /\ NoScreen.rows = NoPlan /\ NoScreen.profile = NoPlan
    BY DEF NoScreen
  <2>4. CopyFollowsPlan'
    BY <1>1, <2>1 DEF CopyFollowsPlan
  <2> HIDE DEF Shown
  <2>5. CASE screen' = [screen EXCEPT ![s] = Shown]
    BY <1>1, <1>2, <2>1, <2>2, <2>4, <2>5, OneRequest
  <2>6. CASE screen' = [screen EXCEPT ![s] = NoScreen]
    BY <1>1, <1>3, <2>1, <2>3, <2>4, <2>6, OneRequest
  <2> QED BY <2>1, <2>5, <2>6
<1> QED BY <1>4, <1>5, <1>6, <1>7

(* Once a change of the plan is complete, the copy that other requests use *)
(* is the stored plan, and an undisturbed request shows it, for any number *)
(* of requests and changes, except for copies whose deletion failed, or    *)
(* made by a request that read the plan before or failed to read it.       *)
THEOREM PlanShown == PlanSpec => []PlanShownSafety
<1>1. PlanInv /\ [PlanNextStep]_planVars => PlanInv'
  <2> SUFFICES ASSUME PlanInv, [PlanNextStep]_planVars PROVE PlanInv'
    OBVIOUS
  <2>1. CASE UNCHANGED planVars
    BY <2>1 DEF planVars, PlanInv, PlanTypeOK, CopyFollowsPlan,
                RequestsKnowPlan
  <2>2. CASE PlanNextStep
    BY <2>2, ChangesKeepInv, RequestsKeepInv DEF PlanNextStep
  <2> QED BY <2>1, <2>2
<1>2. PlanInv => PlanShownSafety
  BY DEF PlanInv, RequestsKnowPlan, ScreensShowPlan, PlanShownSafety
<1> QED BY PlanInit_Inv, <1>1, <1>2, PTL DEF PlanSpec
=============================================================================
