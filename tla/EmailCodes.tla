----------------------------- MODULE EmailCodes -----------------------------
(***************************************************************************)
(* The verification codes of one e-mail address: SendEmailCode,            *)
(* VerifyEmailCode, LinkEmail and ResetPassword (services/auth/main.go)    *)
(* over the keys that pkg/keys/redis.go keeps per purpose.  Every command  *)
(* to Redis is a step; other requests and the keys' expiry may come in     *)
(* between.  Addresses do not share keys, so one is enough.                *)
(*                                                                         *)
(* A code is the number of its sending: each is new.  0 is no code, and,   *)
(* given by a user, one that was never sent.  Time is counted in ticks.    *)
(***************************************************************************)
EXTENDS Integers, FiniteSets

CONSTANTS
    Requests,     \* requests that check a code at the same time
    EmailCodeTTL, \* ticks a code, and a count of attempts, is kept
    RateLimitTTL, \* ticks until another code may be sent
    MaxAttempts,  \* MaxCodeAttempts
    MaxCodes,     \* bound: codes sent
    MaxChecks,    \* bound: wrong codes given for a code that was sent
    MaxErrors     \* bound: commands that fail for a code that was sent

ASSUME RequestsAssumption == IsFiniteSet(Requests)
ASSUME EmailCodeTTLAssumption == EmailCodeTTL \in Nat \ {0}
ASSUME RateLimitTTLAssumption == RateLimitTTL \in 1..EmailCodeTTL
ASSUME MaxAttemptsAssumption == MaxAttempts \in Nat \ {0}
ASSUME MaxCodesAssumption == MaxCodes \in Nat
ASSUME MaxChecksAssumption == MaxChecks \in Nat
ASSUME MaxErrorsAssumption == MaxErrors \in Nat

Purposes == {"login", "reset", "link"}
Codes == 1..MaxCodes

VARIABLES
    owned,       \* an account has the address
    code,        \* the code kept per purpose
    codeTTL,     \* its ticks left
    attempts,    \* wrong attempts counted per purpose, 0 when not kept
    attemptsTTL, \* its ticks left, Forever before EXPIRE
    limitTTL,    \* ticks left of the rate limit, 0 when there is none
    sent,        \* codes sent
    request,     \* requests in progress
    wrong,       \* history: wrong codes given while a code was kept
    accepted,    \* history: how often a code was accepted
    errors,      \* history: commands that failed in checks against a code
    calm         \* history: requests ran alone, to their end and within a tick

codeVars == <<owned, code, codeTTL, attempts, attemptsTTL, limitTTL, sent,
              request, wrong, accepted, errors, calm>>

Forever == -1

(* A request: what it is, its next command, the purposes it still has to   *)
(* try (the first one now), the code given, the one read and the attempts  *)
(* counted.                                                                *)
NoRequest == [op |-> "none", at |-> "idle", purposes |-> {}, given |-> 0, stored |-> 0,
              count |-> 0]

Idle == \A v \in Requests : request[v] = NoRequest

EmailTypeOK ==
    /\ owned \in BOOLEAN
    /\ code \in [Purposes -> 0..MaxCodes]
    /\ codeTTL \in [Purposes -> 0..EmailCodeTTL]
    /\ attempts \in [Purposes -> Nat]
    /\ attemptsTTL \in [Purposes -> Forever..EmailCodeTTL]
    /\ limitTTL \in 0..RateLimitTTL
    /\ sent \in 0..MaxCodes
    /\ request \in [Requests ->
                      [op : {"none", "verify", "link", "reset"},
                       at : {"idle", "get", "del", "incr", "expire", "retire"},
                       purposes : SUBSET Purposes, given : 0..MaxCodes,
                       stored : 0..MaxCodes, count : Nat]]
    /\ wrong \in [Codes -> Nat]
    /\ accepted \in [Codes -> Nat]
    /\ errors \in [Codes -> Nat]
    /\ calm \in BOOLEAN

EmailInit ==
    /\ owned \in BOOLEAN
    /\ code = [p \in Purposes |-> 0]
    /\ codeTTL = [p \in Purposes |-> 0]
    /\ attempts = [p \in Purposes |-> 0]
    /\ attemptsTTL = [p \in Purposes |-> 0]
    /\ limitTTL = 0
    /\ sent = 0
    /\ request = [v \in Requests |-> NoRequest]
    /\ wrong = [c \in Codes |-> 0]
    /\ accepted = [c \in Codes |-> 0]
    /\ errors = [c \in Codes |-> 0]
    /\ calm = TRUE

-----------------------------------------------------------------------------
(* SendEmailCode and LoginWithEmail: an account must have the address      *)
(* unless it is to be linked; SETNX of the limit; SET of the code.  The    *)
(* count of attempts is left as it is.  A crash, or an error, may lose the *)
(* code.                                                                   *)
SendEmailCode(p) ==
    /\ p \in {"login", "reset"} => owned
    /\ limitTTL = 0
    /\ sent < MaxCodes
    /\ limitTTL' = RateLimitTTL
    /\ \/ /\ sent' = sent + 1
          /\ code' = [code EXCEPT ![p] = sent + 1]
          /\ codeTTL' = [codeTTL EXCEPT ![p] = EmailCodeTTL]
       \/ UNCHANGED <<sent, code, codeTTL>>
    /\ UNCHANGED <<owned, attempts, attemptsTTL, request, wrong, accepted,
                   errors, calm>>

-----------------------------------------------------------------------------
(* CheckEmailCode, one command at a time.                                  *)

(* VerifyEmailCode tries the purposes in this order.                       *)
Now(v) == LET left == request[v].purposes IN
          CASE "login" \in left -> "login"
            [] "reset" \in left -> "reset"
            [] OTHER -> "link"

(* The request starts: any code sent so far, or a wrong one, is given.     *)
(* VerifyEmailCode tries every purpose, the others one.                    *)
StartCheck(v, op, purposes) ==
    /\ request[v] = NoRequest
    /\ \E given \in 0..sent :
         request' = [request EXCEPT ![v] =
                       [NoRequest EXCEPT !.op = op, !.at = "get",
                          !.given = given, !.purposes = purposes]]
    /\ calm' = (calm /\ Idle)
    /\ UNCHANGED <<owned, code, codeTTL, attempts, attemptsTTL, limitTTL, sent,
                   wrong, accepted, errors>>

VerifyEmailCode(v) == StartCheck(v, "verify", Purposes)
LinkEmailCheck(v) == StartCheck(v, "link", {"link"})
ResetPasswordCheck(v) == StartCheck(v, "reset", {"reset"})

(* A purpose that failed is left for the next, if there is one.            *)
NextPurpose(v) ==
    LET left == request[v].purposes \ {Now(v)} IN
    IF left = {} THEN NoRequest
    ELSE [NoRequest EXCEPT !.op = request[v].op, !.at = "get",
                           !.given = request[v].given, !.purposes = left]

(* GET, and the comparison with the code given.  If it fails the purpose   *)
(* is left as if there were no code.                                       *)
GetCode(v) ==
    /\ request[v].at = "get"
    /\ \E stored \in {code[Now(v)], 0} :
         request' = [request EXCEPT ![v] =
           IF stored = 0 THEN NextPurpose(v)
           ELSE [@ EXCEPT !.stored = stored,
                          !.at = IF stored = request[v].given
                                   THEN "del" ELSE "incr"]]
    /\ UNCHANGED <<owned, code, codeTTL, attempts, attemptsTTL, limitTTL, sent,
                   wrong, accepted, errors, calm>>

(* The commands that follow may fail, which no one looks at.               *)
NoError == UNCHANGED errors

ErrorIn(v) ==
    /\ errors[request[v].stored] < MaxErrors
    /\ errors' = [errors EXCEPT ![request[v].stored] = @ + 1]

Drop(p) ==
    /\ code' = [code EXCEPT ![p] = 0]
    /\ codeTTL' = [codeTTL EXCEPT ![p] = 0]

Accept(v) ==
    /\ request[v].at = "del"
    /\ accepted' = [accepted EXCEPT ![request[v].stored] = @ + 1]
    /\ owned' \in {owned, owned \/ request[v].op = "link"}
    /\ request' = [request EXCEPT ![v] = NoRequest]
    /\ UNCHANGED <<attempts, attemptsTTL, limitTTL, sent, wrong, calm>>

AcceptCode_Kept(v) == Accept(v) /\ NoError /\ UNCHANGED <<code, codeTTL>>

(* DEL: the code is valid, whichever code the key has by now and whether   *)
(* or not the key goes, and no other purpose is tried.  LinkEmail then     *)
(* gives the address to the account, unless another has it or the update   *)
(* fails.  (VerifyEmailCode answers with a token, or stores a flag that    *)
(* nothing reads.)                                                         *)
AcceptCode(v) ==
    /\ Accept(v)
    /\ \/ Drop(Now(v)) /\ NoError
       \/ UNCHANGED <<code, codeTTL>> /\ ErrorIn(v)

(* INCR of the count, which makes a key without expiry.  If it fails, with *)
(* or without effect, this counts as no attempt.                           *)
Incr(p) ==
    /\ attempts' = [attempts EXCEPT ![p] = @ + 1]
    /\ attemptsTTL' = [attemptsTTL EXCEPT
                         ![p] = IF attempts[p] = 0 THEN Forever ELSE @]

CountAttempt(v) ==
    /\ request[v].at = "incr"
    /\ wrong[request[v].stored] < MaxChecks
    /\ wrong' = [wrong EXCEPT ![request[v].stored] = @ + 1]
    /\ \E count \in {attempts[Now(v)] + 1, 0} :
         /\ request' = [request EXCEPT ![v].at = "expire", ![v].count = count]
         /\ IF count = 0
              THEN ErrorIn(v) /\ (Incr(Now(v)) \/ UNCHANGED <<attempts, attemptsTTL>>)
              ELSE NoError /\ Incr(Now(v))
    /\ UNCHANGED <<owned, code, codeTTL, limitTTL, sent, accepted, calm>>

(* EXPIRE of the count; at the last attempt the code is given up.          *)
ExpireAttempts(v) ==
    /\ request[v].at = "expire"
    /\ LET p == Now(v) IN
         \/ /\ attemptsTTL' = [attemptsTTL EXCEPT
                                ![p] = IF attempts[p] = 0 THEN 0 ELSE EmailCodeTTL]
            /\ NoError
         \/ UNCHANGED attemptsTTL /\ ErrorIn(v)
    /\ request' = [request EXCEPT ![v] =
                     IF @.count >= MaxAttempts THEN [@ EXCEPT !.at = "retire"]
                     ELSE NextPurpose(v)]
    /\ UNCHANGED <<owned, code, codeTTL, attempts, limitTTL, sent, wrong,
                   accepted, calm>>

(* DEL of the code and DEL of the count, whatever was stored meanwhile;    *)
(* each may fail.                                                          *)
RetireCode(v) ==
    /\ request[v].at = "retire"
    /\ LET p == Now(v)
           Kept == UNCHANGED <<code, codeTTL>>
           Counted == UNCHANGED <<attempts, attemptsTTL>>
           Cleared == /\ attempts' = [attempts EXCEPT ![p] = 0]
                      /\ attemptsTTL' = [attemptsTTL EXCEPT ![p] = 0]
       IN \/ Drop(p) /\ Cleared /\ NoError
          \/ Kept /\ (Cleared \/ Counted) /\ ErrorIn(v)
          \/ Drop(p) /\ Counted /\ ErrorIn(v)
    /\ request' = [request EXCEPT ![v] = NextPurpose(v)]
    /\ UNCHANGED <<owned, limitTTL, sent, wrong, accepted, calm>>

(* The process, and with it every request, ends between two commands.      *)
CrashAuth ==
    /\ ~ Idle
    /\ request' = [v \in Requests |-> NoRequest]
    /\ calm' = FALSE
    /\ UNCHANGED <<owned, code, codeTTL, attempts, attemptsTTL, limitTTL, sent,
                   wrong, accepted, errors>>

(* A key is gone when its time is over.                                    *)
Tick ==
    LET Left(ttl) == IF ttl > 0 THEN ttl - 1 ELSE ttl
        Gone(ttl, p) == ttl[p] > 0 /\ ttl'[p] = 0
    IN /\ codeTTL' = [p \in Purposes |-> Left(codeTTL[p])]
       /\ attemptsTTL' = [p \in Purposes |-> Left(attemptsTTL[p])]
       /\ limitTTL' = Left(limitTTL)
       /\ code' = [p \in Purposes |-> IF Gone(codeTTL, p) THEN 0 ELSE code[p]]
       /\ attempts' = [p \in Purposes |->
                         IF Gone(attemptsTTL, p) THEN 0 ELSE attempts[p]]
       /\ calm' = (calm /\ Idle)
       /\ UNCHANGED <<owned, sent, request, wrong, accepted, errors>>

EmailNext ==
    \/ \E p \in Purposes : SendEmailCode(p)
    \/ \E v \in Requests :
         \/ VerifyEmailCode(v) \/ LinkEmailCheck(v) \/ ResetPasswordCheck(v)
         \/ GetCode(v) \/ AcceptCode(v)
         \/ CountAttempt(v) \/ ExpireAttempts(v) \/ RetireCode(v)
    \/ CrashAuth
    \/ Tick

EmailSpec == EmailInit /\ [][EmailNext]_codeVars

-----------------------------------------------------------------------------
(* CheckEmailCode, "one-time use" and "after max attempts".  Requests that *)
(* overlap may each accept a code, but none that comes after them, and as  *)
(* long as requests run one after the other and in little time, a code is  *)
(* accepted once and is gone after MaxAttempts wrong ones: no count        *)
(* expires before the code it counts for, or lets it live longer.  This is *)
(* for checks whose commands succeed.  Errors of Redis after the GET go    *)
(* unnoticed: each lets the code be accepted once more, or be tried        *)
(* MaxAttempts times more, but no oftener.                                 *)
CodeIsGivenUp ==
    \A c \in Codes :
        /\ accepted[c] <= Cardinality(Requests) + errors[c]
        /\ calm =>
             /\ accepted[c] <= 1 + errors[c]
             /\ wrong[c] <= MaxAttempts * (1 + errors[c])
             /\ c \in {code[p] : p \in Purposes} /\ Idle
                  => wrong[c] < MaxAttempts * (1 + errors[c])

(* The codes of an address.                                                *)
CodeSafety == EmailTypeOK /\ CodeIsGivenUp
=============================================================================
