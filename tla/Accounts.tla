------------------------------ MODULE Accounts ------------------------------
(***************************************************************************)
(* One member: the User row's status with its dates, the ways in (password *)
(* login, lib/auth.ts authorize; social login, callbacks signIn and jwt),  *)
(* the sessions, which are tokens that carry a blocked flag and are        *)
(* compared with the row again after STATUS_RECHECK_MS, the member's       *)
(* withdrawal, the password's reset, the administrator's change of status, *)
(* and the dormancy cron, which converts and, later, purges.               *)
(*                                                                         *)
(* Two clocks: Minute, the age of tokens (a request is shorter), and Years *)
(* that pass: long enough for every limit of the cron.  Dates are "none",  *)
(* "new" or "old" (beyond the cron's limit for them).                      *)
(***************************************************************************)
EXTENDS Naturals

CONSTANTS
  Browsers,
  Logins,       \* password logins under way at once
  Recheck,      \* STATUS_RECHECK_MS, in minutes
  MaxStaff      \* bound: the administrator's changes of status

ASSUME RecheckAssumption == Recheck \in Nat \ {0} /\ MaxStaff \in Nat

VARIABLES
  user,      \* [status, password, linked, lastLogin, created, dormantAt, withdrawnAt, purged]
  login,     \* by login: NoLogin or the row as authorize read it
  token,     \* by browser: NoToken or [blocked, age]
  owing,     \* an order of the member is PAID, PREPARING or SHIPPED
  link,      \* a link is out that resets the password (ResetLink has its rows)
  leaving,   \* POST /api/me/withdraw is past its checks
  purging,   \* the cron has found the member to be purged
  staff,     \* how often the administrator changed the status
  gone,      \* history: minutes the member has been blocked by now
  away,      \* history: neither a login nor a session since the years last passed
  lapsed,    \* history: no login by password since the years last passed
  by,        \* history: who wrote the status last
  returned   \* history: a login ended since the cron looked

accountVars == <<user, login, token, owing, link, leaving, purging, staff, gone, away, lapsed, by,
                 returned>>

Statuses == {"ACTIVE", "DORMANT", "SUSPENDED", "WITHDRAWN"}
Dates    == {"none", "new", "old"}
Blocking == {"WITHDRAWN", "SUSPENDED"}

NoLogin == [status |-> "none"]
NoToken == [age |-> 0]

Old == Recheck + 1   \* ages from here on are not told apart

UserRows == [status : Statuses, password : BOOLEAN, linked : BOOLEAN,
             lastLogin : Dates, created : {"new", "old"}, dormantAt : Dates,
             withdrawnAt : Dates, purged : BOOLEAN]
LoginRows == [status : Statuses \ Blocking, dormantAt : Dates]
Tokens    == [blocked : BOOLEAN, age : 0..Old]

AccountsTypeOK ==
  /\ user \in UserRows
  /\ login \in [Logins -> {NoLogin} \cup LoginRows]
  /\ token \in [Browsers -> {NoToken} \cup Tokens]
  /\ owing \in BOOLEAN /\ link \in BOOLEAN /\ leaving \in BOOLEAN /\ purging \in BOOLEAN
  /\ away \in BOOLEAN /\ lapsed \in BOOLEAN /\ returned \in BOOLEAN
  /\ staff \in 0..MaxStaff /\ gone \in 0..Old
  /\ by \in {"member", "staff", "cron"}

(* Registered by password or by a social account; some have both           *)
(* (lib/phone-dup.ts lists several methods of one member).                 *)
AccountsInit ==
  /\ \E password, linked \in BOOLEAN :
       /\ password \/ linked
       /\ user = [status |-> "ACTIVE", password |-> password, linked |-> linked,
                  lastLogin |-> "none", created |-> "new", dormantAt |-> "none",
                  withdrawnAt |-> "none", purged |-> FALSE]
  /\ login = [l \in Logins |-> NoLogin]
  /\ token = [b \in Browsers |-> NoToken]
  /\ owing = FALSE /\ link = FALSE /\ leaving = FALSE /\ purging = FALSE
  /\ staff = 0 /\ gone = 0
  /\ away = FALSE /\ lapsed = FALSE /\ by = "member" /\ returned = FALSE

BlockedNow == user.status \in Blocking

(* gone follows the status the step leaves behind.                         *)
Writes(new, who) ==
  /\ user' = new
  /\ by' = who
  /\ gone' = IF new.status \in Blocking THEN gone ELSE 0

-----------------------------------------------------------------------------
(* The ways in.                                                            *)
LoginRead(l) ==
  /\ login[l] = NoLogin
  /\ user.password /\ ~BlockedNow
  /\ login' = [login EXCEPT ![l] = [status |-> user.status, dormantAt |-> user.dormantAt]]
  /\ UNCHANGED <<user, token, owing, link, leaving, purging, staff, gone, away, lapsed, by, returned>>

NewToken(b) == token' = [token EXCEPT ![b] = [blocked |-> FALSE, age |-> 0]]

LoginWrite_NoStamp(l, b) ==
  /\ login[l] # NoLogin
  /\ LET back == login[l].status = "DORMANT"
     IN  Writes([user EXCEPT !.status = IF back THEN "ACTIVE" ELSE login[l].status,
                             !.dormantAt = IF back THEN "none" ELSE login[l].dormantAt], "member")
  /\ NewToken(b)
  /\ login' = [login EXCEPT ![l] = NoLogin]
  /\ away' = FALSE
  /\ lapsed' = FALSE
  /\ returned' = TRUE
  /\ UNCHANGED <<owing, link, leaving, purging, staff>>

(* After the password was compared: the row gets back the status it had    *)
(* when it was read, or ACTIVE if that was DORMANT.                        *)
LoginWrite(l, b) ==
  /\ login[l] # NoLogin
  /\ LET seen == login[l]
         back == seen.status = "DORMANT"
     IN  Writes([user EXCEPT !.status = IF back THEN "ACTIVE" ELSE seen.status,
                             !.dormantAt = IF back THEN "none" ELSE seen.dormantAt,
                             !.lastLogin = "new"], "member")
  /\ NewToken(b)
  /\ login' = [login EXCEPT ![l] = NoLogin]
  /\ away' = FALSE
  /\ lapsed' = FALSE
  /\ returned' = TRUE
  /\ UNCHANGED <<owing, link, leaving, purging, staff>>

(* A social login reads the status and writes no more than the login log.  *)
SocialLogin(b) ==
  /\ user.linked /\ ~BlockedNow
  /\ NewToken(b)
  /\ away' = FALSE
  /\ returned' = TRUE
  /\ UNCHANGED <<user, login, owing, link, leaving, purging, staff, gone, lapsed, by>>

RecheckToken_StampOnly(b) ==
  /\ token[b] # NoToken
  /\ token' = [token EXCEPT ![b].age = 0]
  /\ UNCHANGED <<user, login, owing, link, leaving, purging, staff, gone, away, lapsed, by, returned>>

(* The jwt callback.  Only /api/auth/session sends the new token back to   *)
(* the browser; a route that calls getServerSession computes it in vain.   *)
RecheckToken(b) ==
  /\ token[b] # NoToken
  /\ token[b].age > Recheck
  /\ token' = [token EXCEPT ![b] = [blocked |-> BlockedNow, age |-> 0]]
  /\ UNCHANGED <<user, login, owing, link, leaving, purging, staff, gone, away, lapsed, by, returned>>

SessionExpires(b) ==
  /\ token[b] # NoToken
  /\ token' = [token EXCEPT ![b] = NoToken]
  /\ UNCHANGED <<user, login, owing, link, leaving, purging, staff, gone, away, lapsed, by, returned>>

(* The link is asked for by e-mail (forgot-password), or after the phone   *)
(* was verified (find-password/by-pass), which does not ask whether the    *)
(* member has a password yet.                                              *)
IssueLink ==
  /\ ~link
  /\ user.status # "WITHDRAWN"
  /\ link' = TRUE
  /\ UNCHANGED <<user, login, token, owing, leaving, purging, staff, gone, away, lapsed, by, returned>>

(* Whatever has become of the member since.                                *)
ResetPassword ==
  /\ link
  /\ link' = FALSE
  /\ user' = [user EXCEPT !.password = TRUE]
  /\ UNCHANGED <<login, token, owing, leaving, purging, staff, gone, away, lapsed, by, returned>>

-----------------------------------------------------------------------------
(* Withdrawal: the checks, then one transaction.                           *)
ServedSession ==
  \E b \in Browsers : token[b] # NoToken
    /\ IF token[b].age > Recheck THEN ~BlockedNow ELSE ~token[b].blocked

WithdrawRead ==
  /\ ~leaving
  /\ ServedSession
  /\ user.status # "WITHDRAWN"
  /\ ~owing
  /\ leaving' = TRUE
  /\ UNCHANGED <<user, login, token, owing, link, purging, staff, gone, away, lapsed, by, returned>>

WithdrawCommit ==
  /\ leaving
  /\ leaving' = FALSE
  /\ Writes([user EXCEPT !.status = "WITHDRAWN", !.withdrawnAt = "new",
                         !.password = FALSE, !.linked = FALSE], "member")
  /\ UNCHANGED <<login, token, owing, link, purging, staff, away, lapsed, returned>>

(* Payments and deliveries are Checkout's and AfterSales'.                 *)
OrderPaidOrDelivered ==
  /\ owing' = ~owing
  /\ UNCHANGED <<user, login, token, link, leaving, purging, staff, gone, away, lapsed, by, returned>>

StaffSetsStatus(s) ==
  /\ staff < MaxStaff
  /\ s # user.status
  /\ staff' = staff + 1
  /\ Writes([user EXCEPT !.status = s], "staff")
  /\ UNCHANGED <<login, token, owing, link, leaving, purging, away, lapsed, returned>>

-----------------------------------------------------------------------------
(* The cron.                                                               *)
LongUnseen == user.lastLogin = "old" \/ (user.lastLogin = "none" /\ user.created = "old")

Converts_AnyStatus == LongUnseen

Converts == user.status = "ACTIVE" /\ LongUnseen

ConvertDormant ==
  /\ Converts
  /\ Writes([user EXCEPT !.status = "DORMANT", !.dormantAt = "new"], "cron")
  /\ UNCHANGED <<login, token, owing, link, leaving, purging, staff, away, lapsed, returned>>

Purgeable ==
  \/ user.status = "DORMANT" /\ user.dormantAt = "old"
  \/ user.status = "WITHDRAWN" /\ user.withdrawnAt = "old"

FindPurge ==
  /\ ~purging /\ ~user.purged
  /\ Purgeable
  /\ purging' = TRUE
  /\ returned' = FALSE
  /\ UNCHANGED <<user, login, token, owing, link, leaving, staff, gone, away, lapsed, by>>

Purge ==
  /\ purging
  /\ purging' = FALSE
  /\ Writes([user EXCEPT !.status = "WITHDRAWN", !.withdrawnAt = "new", !.purged = TRUE,
                         !.password = FALSE, !.linked = FALSE], "cron")
  /\ UNCHANGED <<login, token, owing, link, leaving, staff, away, lapsed, returned>>

-----------------------------------------------------------------------------
AtRest == ~leaving /\ ~purging /\ \A l \in Logins : login[l] = NoLogin

Later(age) == IF age = Old THEN Old ELSE age + 1

Minute ==
  /\ AtRest
  /\ token' = [b \in Browsers |-> IF token[b] = NoToken THEN NoToken
                                  ELSE [token[b] EXCEPT !.age = Later(@)]]
  /\ gone' = IF BlockedNow THEN Later(gone) ELSE 0
  /\ UNCHANGED <<user, login, owing, link, leaving, purging, staff, away, lapsed, by, returned>>

LongAgo(date) == IF date = "none" THEN "none" ELSE "old"

NoSession == \A b \in Browsers : token[b] = NoToken

(* A session in daily use is prolonged and may last; a link does not.      *)
Years ==
  /\ AtRest
  /\ user' = [user EXCEPT !.lastLogin = LongAgo(@), !.created = "old",
                          !.dormantAt = LongAgo(@), !.withdrawnAt = LongAgo(@)]
  /\ token' = [b \in Browsers |-> IF token[b] = NoToken THEN NoToken
                                  ELSE [token[b] EXCEPT !.age = Old]]
  /\ gone' = IF BlockedNow THEN Old ELSE 0
  /\ link' = FALSE
  /\ away' = NoSession
  /\ lapsed' = TRUE
  /\ UNCHANGED <<login, owing, leaving, purging, staff, by, returned>>

AccountsNext ==
  \/ \E b \in Browsers :
       \/ \E l \in Logins : LoginWrite(l, b)
       \/ SocialLogin(b)
       \/ RecheckToken(b) \/ SessionExpires(b)
  \/ \E l \in Logins : LoginRead(l)
  \/ IssueLink \/ ResetPassword
  \/ WithdrawRead \/ WithdrawCommit
  \/ OrderPaidOrDelivered
  \/ \E s \in Statuses : StaffSetsStatus(s)
  \/ ConvertDormant \/ FindPurge \/ Purge
  \/ Minute \/ Years

AccountsSpec == AccountsInit /\ [][AccountsNext]_accountVars

-----------------------------------------------------------------------------
(* A member who was suspended or has withdrawn is served by no session     *)
(* longer than STATUS_RECHECK_MS: a token that is believed without asking  *)
(* is no younger than the block (auth.ts lines 242-247).                   *)
SignedOutSoon ==
  \A b \in Browsers :
    token[b] # NoToken /\ token[b].age <= Recheck /\ ~token[b].blocked => gone <= token[b].age

(* A blocked member comes back by the administrator alone, or by a         *)
(* password login that had read the row before (auth.ts line 132 writes    *)
(* the status it read).                                                    *)
BlockedStays ==
  [][BlockedNow /\ ~BlockedNow' => by' = "staff" \/ \E l \in Logins : login[l] # NoLogin]_accountVars

(* A login by password keeps the member: the cron converts only those      *)
(* without one for years, and purges only those who were so converted or   *)
(* have withdrawn, unless the administrator set the status or a login      *)
(* ended while the cron was working through its list.  Social logins and   *)
(* sessions that are prolonged keep nobody: they write no stamp            *)
(* (DormantMeansAway).                                                     *)
PasswordLoginKeeps ==
  [][/\ ConvertDormant => lapsed
     /\ Purge /\ user.status # "WITHDRAWN" => lapsed \/ returned \/ by = "staff"]_accountVars

(* dormant-users/route.ts line 6: members who were away for a year become  *)
(* dormant, and so not those who come by a social login or whose session   *)
(* lasts.                                                                  *)
DormantMeansAway == [][ConvertDormant => away]_accountVars
=============================================================================
