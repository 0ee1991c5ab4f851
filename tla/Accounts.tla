------------------------------ MODULE Accounts ------------------------------
(***************************************************************************)
(* How accounts come to be (services/auth/main.go): Register, GuestLogin   *)
(* and GoogleSignIn, which look for an account, draw a referral code and   *)
(* insert the account, one request at a time to MongoDB or Redis each;     *)
(* LinkEmail, once the code it was given is accepted; DeleteAccount.       *)
(*                                                                         *)
(* Each request that may make an account stands for the id that it draws.  *)
(* Names, addresses and codes are numbers, 0 is none; the accounts of      *)
(* Google are given, each with an address and the name in front of its @.  *)
(***************************************************************************)
EXTENDS Integers, FiniteSets

CONSTANTS
    SignUps,       \* requests that may make an account, each once
    Nowhere,       \* no id
    Links,         \* requests that link an e-mail address
    Names,         \* user names
    Addresses,     \* e-mail addresses
    GoogleIds,     \* accounts of Google
    GoogleAddress, \* their addresses
    GoogleName,    \* the names in front of their @
    RefCodes,      \* referral codes that may be drawn
    RefCodeTries,  \* draws before a code is taken by force
    AccountFaults  \* whether auth crashes and updates fail

ASSUME AccountsAssumption ==
    /\ Nowhere \notin SignUps
    /\ Names \subseteq Nat \ {0} /\ Addresses \subseteq Nat \ {0}
    /\ GoogleIds \subseteq Nat \ {0} /\ RefCodes \subseteq Nat \ {0}
    /\ GoogleAddress \in [GoogleIds -> Addresses]
    /\ GoogleName \in [GoogleIds -> Names]
    /\ RefCodeTries \in Nat \ {0}
    /\ AccountFaults \in BOOLEAN

VARIABLES
    users,    \* the users collection, by id: a sign-up's account
    refOwner, \* the id each referral code leads to in Redis
    signUp,   \* the sign-ups
    link,     \* requests that link an address
    forced,   \* history: a code was taken by force
    broken    \* history: auth crashed or an update failed

accountVars == <<users, refOwner, signUp, link, forced, broken>>

NoAccount == [name |-> 0, email |-> 0, google |-> 0, refCode |-> 0,
              guest |-> FALSE]

(* A sign-up: what it is, its next step, the account it makes and how many *)
(* codes it has drawn.  It ends answered, with the id of an account, or    *)
(* refused.                                                                *)
NewSignUp == [op |-> "none", at |-> "new", account |-> NoAccount,
              draws |-> 0, id |-> Nowhere]
NoLink == [at |-> "idle", user |-> Nowhere, email |-> 0]

Accounts == [name : Names \cup {0}, email : Addresses \cup {0},
             google : GoogleIds \cup {0}, refCode : RefCodes \cup {0},
             guest : BOOLEAN]

AccountTypeOK ==
    /\ users \in [SignUps -> Accounts]
    /\ refOwner \in [RefCodes -> SignUps \cup {Nowhere}]
    /\ signUp \in [SignUps -> [op : {"none", "register", "guest", "google"},
                               at : {"new", "draw", "insert", "setCode",
                                     "answered", "refused"},
                               account : Accounts, draws : 0..RefCodeTries,
                               id : SignUps \cup {Nowhere}]]
    /\ link \in [Links -> [at : {"update"}, user : SignUps, email : Addresses]
                             \cup {NoLink}]
    /\ forced \in BOOLEAN
    /\ broken \in BOOLEAN

AccountInit ==
    /\ users = [s \in SignUps |-> NoAccount]
    /\ refOwner = [c \in RefCodes |-> Nowhere]
    /\ signUp = [s \in SignUps |-> NewSignUp]
    /\ link = [l \in Links |-> NoLink]
    /\ forced = FALSE
    /\ broken = FALSE

Exists(i) == users[i] # NoAccount

(* The unique indexes of the collection, which leave out what is not set:  *)
(* auth makes two as it starts, the seed that fills the database the other *)
(* two, without which nothing keeps Google's ids and the codes apart.      *)
AuthIndexes == {"name", "email"}
SeedIndexes == {"google", "refCode"}

Unique(account, i) ==
    \A j \in SignUps \ {i} : \A field \in AuthIndexes \cup SeedIndexes :
        account[field] = 0 \/ users[j][field] # account[field]

Proceed(s, at) == signUp' = [signUp EXCEPT ![s].at = at]
Answered(s, i) == signUp' = [signUp EXCEPT ![s].at = "answered", ![s].id = i]

Begin(s, op, at, account) ==
    /\ signUp[s] = NewSignUp
    /\ signUp' = [signUp EXCEPT ![s].op = op, ![s].at = at,
                                ![s].account = account]
    /\ UNCHANGED <<users, refOwner, link, forced, broken>>

-----------------------------------------------------------------------------
(* Register: neither the name nor the address, if one is given, is found.  *)
Register(s) ==
    \E n \in Names, e \in Addresses \cup {0} :
        /\ Unique([NoAccount EXCEPT !.name = n, !.email = e], s)
        /\ Begin(s, "register", "draw",
                 [NoAccount EXCEPT !.name = n, !.email = e])

(* GuestLogin: the name is made of the id.                                 *)
GuestLogin(s) == Begin(s, "guest", "draw", [NoAccount EXCEPT !.guest = TRUE])

(* GoogleSignIn: the account is looked up by its Google id.  A returning   *)
(* user is answered, a new one is inserted before its code is drawn.       *)
GoogleSignIn(s) ==
    \E g \in GoogleIds :
        \/ /\ \A i \in SignUps : users[i].google # g
           /\ Begin(s, "google", "insert",
                    [NoAccount EXCEPT !.name = GoogleName[g],
                       !.email = GoogleAddress[g], !.google = g])
        \/ \E i \in SignUps :
             /\ users[i].google = g
             /\ signUp[s] = NewSignUp
             /\ Answered(s, i)
             /\ UNCHANGED <<users, refOwner, link, forced, broken>>

(* generateUniqueReferralCode: SETNX of a code that is drawn, and after    *)
(* RefCodeTries draws SET of one more, whoever has it.                     *)
Take(s, c) ==
    /\ refOwner' = [refOwner EXCEPT ![c] = s]
    /\ signUp' = [signUp EXCEPT
                    ![s].account.refCode = c,
                    ![s].at = IF signUp[s].op = "google" THEN "setCode"
                                                         ELSE "insert"]

DrawCode_Unchecked(s) ==
    /\ signUp[s].at = "draw"
    /\ \E c \in RefCodes : Take(s, c)
    /\ UNCHANGED <<users, link, forced, broken>>

DrawCode(s) ==
    /\ signUp[s].at = "draw"
    /\ \E c \in RefCodes :
         \/ /\ refOwner[c] = Nowhere
            /\ Take(s, c)
            /\ UNCHANGED forced
         \/ /\ refOwner[c] # Nowhere /\ signUp[s].draws < RefCodeTries
            /\ signUp' = [signUp EXCEPT ![s].draws = @ + 1]
            /\ UNCHANGED <<refOwner, forced>>
         \/ /\ refOwner[c] # Nowhere /\ signUp[s].draws = RefCodeTries
            /\ Take(s, c)
            /\ forced' = TRUE
    /\ UNCHANGED <<users, link, broken>>

(* InsertOne, which the unique indexes refuse.                             *)
InsertAccount(s) ==
    /\ signUp[s].at = "insert"
    /\ LET account == signUp[s].account IN
         IF Unique(account, s)
           THEN /\ users' = [users EXCEPT ![s] = account]
                /\ IF signUp[s].op = "google" THEN Proceed(s, "draw")
                                              ELSE Answered(s, s)
           ELSE Proceed(s, "refused") /\ UNCHANGED users
    /\ UNCHANGED <<refOwner, link, forced, broken>>

(* The code of a Google account is set after it, and an error ignored.     *)
SetReferralCode(s) ==
    /\ signUp[s].at = "setCode"
    /\ LET code == signUp[s].account.refCode
           ok == Exists(s) /\ Unique([NoAccount EXCEPT !.refCode = code], s)
       IN \/ /\ users' = IF ok THEN [users EXCEPT ![s].refCode = code]
                               ELSE users
             /\ UNCHANGED broken
          \/ /\ AccountFaults /\ broken' = TRUE
             /\ UNCHANGED users
    /\ Answered(s, s)
    /\ UNCHANGED <<refOwner, link, forced>>

(* auth stops: its sign-ups and links end where they are.                  *)
CrashAccounts ==
    /\ AccountFaults
    /\ signUp' = [s \in SignUps |->
                    IF signUp[s].at \in {"draw", "insert", "setCode"}
                      THEN [signUp[s] EXCEPT !.at = "refused"] ELSE signUp[s]]
    /\ link' = [l \in Links |-> NoLink]
    /\ <<signUp', link'>> # <<signUp, link>>
    /\ broken' = TRUE
    /\ UNCHANGED <<users, refOwner, forced>>

-----------------------------------------------------------------------------
(* LinkEmail, after its code was accepted: the address is looked for ...   *)
LinkEmail(l, u, e) ==
    /\ link[l] = NoLink
    /\ Exists(u)
    /\ \A i \in SignUps : users[i].email # e
    /\ link' = [link EXCEPT ![l] = [at |-> "update", user |-> u, email |-> e]]
    /\ UNCHANGED <<users, refOwner, signUp, forced, broken>>

(* ... and set, unless the account is gone or the index refuses it.        *)
LinkUpdate(l) ==
    /\ link[l].at = "update"
    /\ LET u == link[l].user
           account == [users[u] EXCEPT !.email = link[l].email, !.guest = FALSE]
       IN users' = IF Exists(u) /\ Unique(account, u)
                     THEN [users EXCEPT ![u] = account] ELSE users
    /\ link' = [link EXCEPT ![l] = NoLink]
    /\ UNCHANGED <<refOwner, signUp, forced, broken>>

(* DeleteAccount: the referral code goes on leading to the id.             *)
DeleteAccount(u) ==
    /\ Exists(u)
    /\ users' = [users EXCEPT ![u] = NoAccount]
    /\ UNCHANGED <<refOwner, signUp, link, forced, broken>>

AccountNext ==
    \/ \E s \in SignUps :
         \/ Register(s) \/ GuestLogin(s) \/ GoogleSignIn(s)
         \/ DrawCode(s) \/ InsertAccount(s) \/ SetReferralCode(s)
    \/ \E l \in Links :
         \/ \E u \in SignUps, e \in Addresses : LinkEmail(l, u, e)
         \/ LinkUpdate(l)
    \/ \E u \in SignUps : DeleteAccount(u)
    \/ CrashAccounts

AccountSpec == AccountInit /\ [][AccountNext]_accountVars

-----------------------------------------------------------------------------
(* generateUniqueReferralCode, "two concurrent signups can't be assigned   *)
(* the same code": however sign-ups cross, an account's code leads to it,  *)
(* unless a code was taken by force.  An account that was answered has a   *)
(* code, at the latest when no sign-up is in progress, unless auth stopped *)
(* or the update failed: a returning Google user never gets another.       *)
CodeLeadsToItsAccount ==
    /\ ~ forced =>
         \A i \in SignUps :
            users[i].refCode # 0 => refOwner[users[i].refCode] = i
    /\ ~ forced /\ ~ broken =>
         \/ \E s \in SignUps : signUp[s].at \in {"draw", "insert", "setCode"}
         \/ \A i \in SignUps : Exists(i) => users[i].refCode # 0

(* A name, an address and a Google account lead to one account, whichever  *)
(* of Register, GoogleSignIn and LinkEmail have found them free; an        *)
(* account without a name and a Google id is a guest's or has an address.  *)
OneAccountEach ==
    \A i \in SignUps :
        /\ Unique([users[i] EXCEPT !.refCode = 0], i)
        /\ Exists(i) /\ users[i].name = 0 => users[i].guest = (users[i].email = 0)

(* Accounts stay apart, whatever sign-ups, links and deletions cross.      *)
AccountSafety == AccountTypeOK /\ CodeLeadsToItsAccount /\ OneAccountEach
=============================================================================
