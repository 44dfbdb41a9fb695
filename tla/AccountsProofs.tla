--------------------------- MODULE AccountsProofs ---------------------------
(***************************************************************************)
(* Proofs about Accounts, for every number of browsers and of concurrent   *)
(* logins, every recheck period and every number of changes of status.     *)
(*                                                                         *)
(* AccountsInv is inductive.  A token that is believed is compared with    *)
(* gone, which is 0 while the member is not blocked; and what the cron may *)
(* conclude from the row is compared with lapsed, from the reading of the  *)
(* row (Suspects) to the purge.                                            *)
(***************************************************************************)
EXTENDS Accounts, TLAPS

(* Each login by password stamps the row, so an old or missing stamp means *)
(* years without one.                                                      *)
StampTrue == LongUnseen => lapsed

(* Who may be purged without having withdrawn: those without a login by    *)
(* password for years, and those whose status the administrator has set.   *)
Suspects ==
  /\ user.status = "DORMANT" => lapsed \/ by = "staff"
  /\ purging /\ user.status # "WITHDRAWN" => lapsed \/ returned \/ by = "staff"

GoneOnlyBlocked == ~BlockedNow => gone = 0

AccountsInv ==
  /\ AccountsTypeOK
  /\ GoneOnlyBlocked
  /\ SignedOutSoon
  /\ StampTrue
  /\ Suspects

LEMMA AgeFacts ==
  /\ Recheck \in Nat /\ Old \in Nat /\ Recheck < Old
  /\ \A age \in 0..Old : Later(age) \in 0..Old
BY RecheckAssumption DEF Old, Later

LEMMA DateFacts ==
  \A d \in Dates : LongAgo(d) \in Dates /\ LongAgo(d) \in {"none", "old"}
BY DEF Dates, LongAgo

(* The row stays a row whatever a request or the cron writes into it.      *)
LEMMA RowWritten ==
  ASSUME NEW u \in UserRows, NEW s \in Statuses, NEW d \in Dates
  PROVE  /\ [u EXCEPT !.status = s] \in UserRows
         /\ [u EXCEPT !.password = TRUE] \in UserRows
         /\ [u EXCEPT !.status = s, !.dormantAt = d] \in UserRows
         /\ [u EXCEPT !.status = s, !.dormantAt = d, !.lastLogin = "new"] \in UserRows
         /\ [u EXCEPT !.status = s, !.withdrawnAt = "new",
                      !.password = FALSE, !.linked = FALSE] \in UserRows
         /\ [u EXCEPT !.status = s, !.withdrawnAt = "new", !.purged = TRUE,
                      !.password = FALSE, !.linked = FALSE] \in UserRows
         /\ [u EXCEPT !.lastLogin = LongAgo(@), !.created = "old",
                      !.dormantAt = LongAgo(@), !.withdrawnAt = LongAgo(@)] \in UserRows
BY DateFacts DEF UserRows, Dates

LEMMA AccountsInitially == AccountsInit => AccountsInv
<1> SUFFICES ASSUME AccountsInit PROVE AccountsInv
  OBVIOUS
<1>1. PICK password \in BOOLEAN, linked \in BOOLEAN :
        user = [status |-> "ACTIVE", password |-> password, linked |-> linked,
                lastLogin |-> "none", created |-> "new", dormantAt |-> "none",
                withdrawnAt |-> "none", purged |-> FALSE]
  BY DEF AccountsInit
<1>2. user \in UserRows
  BY <1>1 DEF UserRows, Statuses, Dates
<1>3. user.status = "ACTIVE" /\ ~LongUnseen
  BY <1>1 DEF LongUnseen
<1>4. AccountsTypeOK
  <2>1. staff \in 0..MaxStaff /\ gone \in 0..Old
    BY RecheckAssumption DEF AccountsInit, Old
  <2>2. login \in [Logins -> {NoLogin} \cup LoginRows] /\ token \in [Browsers -> {NoToken} \cup Tokens]
    BY DEF AccountsInit
  <2> QED BY <1>2, <2>1, <2>2 DEF AccountsInit, AccountsTypeOK
<1>5. GoneOnlyBlocked /\ StampTrue /\ Suspects
  BY <1>3 DEF AccountsInit, GoneOnlyBlocked, StampTrue, Suspects
<1>6. SignedOutSoon
  BY DEF AccountsInit, SignedOutSoon
<1> QED BY <1>4, <1>5, <1>6 DEF AccountsInv

-----------------------------------------------------------------------------
(* The types, conjunct by conjunct: the row, the logins, the tokens, the   *)
(* rest.                                                                   *)
LEMMA RowTypeStep ==
  ASSUME AccountsTypeOK, AccountsNext \/ UNCHANGED accountVars
  PROVE  user' \in UserRows
<1>0. user \in UserRows /\ login \in [Logins -> {NoLogin} \cup LoginRows]
  BY DEF AccountsTypeOK
<1>1. ASSUME NEW b \in Browsers, NEW l \in Logins, LoginWrite(l, b) PROVE user' \in UserRows
  <2> DEFINE s == IF login[l].status = "DORMANT" THEN "ACTIVE" ELSE login[l].status
             d == IF login[l].status = "DORMANT" THEN "none" ELSE login[l].dormantAt
  <2>1. login[l] \in LoginRows
    BY <1>0, <1>1 DEF LoginWrite
  <2>2. s \in Statuses /\ d \in Dates
    BY <2>1 DEF LoginRows, Statuses, Dates, Blocking
  <2>3. user' = [user EXCEPT !.status = s, !.dormantAt = d, !.lastLogin = "new"]
    BY <1>1 DEF LoginWrite, Writes
  <2> QED BY <1>0, <2>2, <2>3, RowWritten
<1>2. CASE WithdrawCommit
  BY <1>0, <1>2, RowWritten DEF WithdrawCommit, Writes, Statuses, Dates
<1>3. ASSUME NEW s \in Statuses, StaffSetsStatus(s) PROVE user' \in UserRows
  <2>1. user' = [user EXCEPT !.status = s]
    BY <1>3 DEF StaffSetsStatus, Writes
  <2> QED BY <1>0, <2>1, RowWritten DEF Dates
<1>4. CASE ConvertDormant
  BY <1>0, <1>4, RowWritten DEF ConvertDormant, Writes, Statuses, Dates
<1>5. CASE Purge
  BY <1>0, <1>5, RowWritten DEF Purge, Writes, Statuses, Dates
<1>6. CASE Years
  BY <1>0, <1>6, RowWritten DEF Years, Statuses, Dates
<1>7. CASE ResetPassword
  BY <1>0, <1>7, RowWritten DEF ResetPassword, Statuses, Dates
<1>8. CASE user' = user
  BY <1>0, <1>8
<1> QED
  BY <1>1, <1>2, <1>3, <1>4, <1>5, <1>6, <1>7, <1>8
     DEF AccountsNext, accountVars, SocialLogin, RecheckToken, SessionExpires, LoginRead,
         IssueLink, WithdrawRead, OrderPaidOrDelivered, FindPurge, Minute

LEMMA TokenTypeStep ==
  ASSUME AccountsTypeOK, AccountsNext \/ UNCHANGED accountVars
  PROVE  token' \in [Browsers -> {NoToken} \cup Tokens]
<1>0. token \in [Browsers -> {NoToken} \cup Tokens]
  BY DEF AccountsTypeOK
<1>1. ASSUME NEW b \in Browsers, NewToken(b) PROVE token' \in [Browsers -> {NoToken} \cup Tokens]
  <2>1. [blocked |-> FALSE, age |-> 0] \in Tokens
    BY AgeFacts DEF Tokens
  <2> QED BY <1>0, <1>1, <2>1 DEF NewToken
<1>2. ASSUME NEW b \in Browsers, RecheckToken(b)
      PROVE  token' \in [Browsers -> {NoToken} \cup Tokens]
  <2>1. [blocked |-> BlockedNow, age |-> 0] \in Tokens
    BY AgeFacts DEF Tokens, BlockedNow
  <2> QED BY <1>0, <1>2, <2>1 DEF RecheckToken
<1>3. ASSUME NEW b \in Browsers, SessionExpires(b)
      PROVE  token' \in [Browsers -> {NoToken} \cup Tokens]
  BY <1>0, <1>3 DEF SessionExpires
<1>4. CASE Minute
  <2>1. \A t \in Tokens : [t EXCEPT !.age = Later(@)] \in Tokens
    BY AgeFacts DEF Tokens
  <2> QED BY <1>0, <1>4, <2>1 DEF Minute
<1>5. CASE Years
  <2>1. \A t \in Tokens : [t EXCEPT !.age = Old] \in Tokens
    BY AgeFacts DEF Tokens
  <2> QED BY <1>0, <1>5, <2>1 DEF Years
<1>6. CASE token' = token
  BY <1>0, <1>6
<1> QED
  BY <1>1, <1>2, <1>3, <1>4, <1>5, <1>6
     DEF AccountsNext, accountVars, LoginWrite, SocialLogin, LoginRead, IssueLink,
         ResetPassword, WithdrawRead, WithdrawCommit, OrderPaidOrDelivered, StaffSetsStatus, ConvertDormant, FindPurge, Purge

LEMMA LoginTypeStep ==
  ASSUME AccountsTypeOK, AccountsNext \/ UNCHANGED accountVars
  PROVE  login' \in [Logins -> {NoLogin} \cup LoginRows]
<1>0. user \in UserRows /\ login \in [Logins -> {NoLogin} \cup LoginRows]
  BY DEF AccountsTypeOK
<1>1. ASSUME NEW l \in Logins, LoginRead(l) PROVE login' \in [Logins -> {NoLogin} \cup LoginRows]
  <2>1. [status |-> user.status, dormantAt |-> user.dormantAt] \in LoginRows
    BY <1>0, <1>1 DEF LoginRead, LoginRows, UserRows, BlockedNow
  <2> QED BY <1>0, <1>1, <2>1 DEF LoginRead
<1>2. ASSUME NEW b \in Browsers, NEW l \in Logins, LoginWrite(l, b)
      PROVE  login' \in [Logins -> {NoLogin} \cup LoginRows]
  BY <1>0, <1>2 DEF LoginWrite
<1>3. CASE login' = login
  BY <1>0, <1>3
<1> QED
  BY <1>1, <1>2, <1>3
     DEF AccountsNext, accountVars, SocialLogin, RecheckToken, SessionExpires, IssueLink,
         ResetPassword, WithdrawRead, WithdrawCommit, OrderPaidOrDelivered, StaffSetsStatus, ConvertDormant, FindPurge,
         Purge, Minute, Years

(* gone is an age, and 0 unless the member is blocked.                     *)
LEMMA GoneStep ==
  ASSUME AccountsTypeOK, GoneOnlyBlocked, AccountsNext \/ UNCHANGED accountVars
  PROVE  gone' \in 0..Old /\ GoneOnlyBlocked'
<1>0. gone \in 0..Old /\ 0 \in 0..Old /\ Old \in 0..Old /\ Later(gone) \in 0..Old
  BY AgeFacts DEF AccountsTypeOK
<1>1. ASSUME NEW u, NEW who, Writes(u, who) PROVE gone' \in 0..Old /\ GoneOnlyBlocked'
  BY <1>0, <1>1 DEF Writes, GoneOnlyBlocked, BlockedNow
<1>2. CASE Minute
  BY <1>0, <1>2 DEF Minute, GoneOnlyBlocked, BlockedNow
<1>3. CASE Years
  <2>1. user'.status = user.status
    BY <1>3 DEF Years, AccountsTypeOK, UserRows
  <2> QED BY <1>0, <1>3, <2>1 DEF Years, GoneOnlyBlocked, BlockedNow
<1>4. CASE ResetPassword
  <2>1. user'.status = user.status
    BY <1>4 DEF ResetPassword, AccountsTypeOK, UserRows
  <2> QED BY <1>0, <1>4, <2>1 DEF ResetPassword, GoneOnlyBlocked, BlockedNow
<1>5. CASE UNCHANGED <<gone, user>>
  BY <1>0, <1>5 DEF GoneOnlyBlocked, BlockedNow
<1> QED
  BY <1>1, <1>2, <1>3, <1>4, <1>5
     DEF AccountsNext, accountVars, LoginWrite, LoginRead, SocialLogin, RecheckToken, SessionExpires,
         IssueLink, WithdrawRead, WithdrawCommit, OrderPaidOrDelivered, StaffSetsStatus,
         ConvertDormant, FindPurge, Purge

LEMMA AccountsTypeStep ==
  ASSUME AccountsTypeOK, GoneOnlyBlocked, AccountsNext \/ UNCHANGED accountVars
  PROVE  AccountsTypeOK'
<1>1. staff' \in 0..MaxStaff
  <2>1. staff \in 0..MaxStaff
    BY DEF AccountsTypeOK
  <2>2. ASSUME NEW s \in Statuses, StaffSetsStatus(s) PROVE staff' \in 0..MaxStaff
    BY <2>1, <2>2, RecheckAssumption DEF StaffSetsStatus
  <2> QED
    BY <2>1, <2>2
       DEF AccountsNext, accountVars, LoginWrite, LoginRead, SocialLogin, RecheckToken,
           SessionExpires, IssueLink, ResetPassword, WithdrawRead, WithdrawCommit,
           OrderPaidOrDelivered, ConvertDormant, FindPurge, Purge, Minute, Years
<1>2. NoSession \in BOOLEAN
  BY Zenon DEF NoSession
<1>3. owing' \in BOOLEAN /\ leaving' \in BOOLEAN /\ purging' \in BOOLEAN
  BY DEF AccountsTypeOK, AccountsNext, accountVars, Writes, LoginWrite, LoginRead, SocialLogin,
         RecheckToken, SessionExpires, IssueLink, ResetPassword, WithdrawRead, WithdrawCommit,
         OrderPaidOrDelivered, StaffSetsStatus, ConvertDormant, FindPurge, Purge, Minute, Years
<1>4. link' \in BOOLEAN
  BY DEF AccountsTypeOK, AccountsNext, accountVars, Writes, LoginWrite, LoginRead, SocialLogin,
         RecheckToken, SessionExpires, IssueLink, ResetPassword, WithdrawRead, WithdrawCommit,
         OrderPaidOrDelivered, StaffSetsStatus, ConvertDormant, FindPurge, Purge, Minute, Years
<1>5. away' \in BOOLEAN
  BY <1>2 DEF AccountsTypeOK, AccountsNext, accountVars, Writes, LoginWrite, LoginRead, SocialLogin,
         RecheckToken, SessionExpires, IssueLink, ResetPassword, WithdrawRead, WithdrawCommit,
         OrderPaidOrDelivered, StaffSetsStatus, ConvertDormant, FindPurge, Purge, Minute, Years
<1>6. lapsed' \in BOOLEAN /\ returned' \in BOOLEAN /\ by' \in {"member", "staff", "cron"}
  BY DEF AccountsTypeOK, AccountsNext, accountVars, Writes, LoginWrite, LoginRead, SocialLogin,
         RecheckToken, SessionExpires, IssueLink, ResetPassword, WithdrawRead, WithdrawCommit,
         OrderPaidOrDelivered, StaffSetsStatus, ConvertDormant, FindPurge, Purge, Minute, Years
<1> QED
  BY <1>1, <1>3, <1>4, <1>5, <1>6, RowTypeStep, LoginTypeStep, TokenTypeStep, GoneStep DEF AccountsTypeOK

-----------------------------------------------------------------------------
LEMMA SignedOutStep ==
  ASSUME AccountsTypeOK, GoneOnlyBlocked, SignedOutSoon, AccountsNext \/ UNCHANGED accountVars
  PROVE  SignedOutSoon'
<1>0. /\ token \in [Browsers -> {NoToken} \cup Tokens]
      /\ gone \in 0..Old /\ gone' \in 0..Old
  BY GoneStep DEF AccountsTypeOK
<1>1. ASSUME NEW b \in Browsers, token'[b] # NoToken, token'[b].age <= Recheck, ~token'[b].blocked
      PROVE  gone' <= token'[b].age
  <2>0. token[b] # NoToken => token[b] \in Tokens /\ token[b].age \in 0..Old
    BY <1>0 DEF Tokens
  <2>1. CASE token'[b] = token[b] /\ gone' \in {0, gone}
    BY <1>0, <1>1, <2>0, <2>1, AgeFacts DEF SignedOutSoon
  <2>2. CASE gone' = 0 /\ token'[b].age = 0
    BY <2>2
  <2>3. CASE Minute
    <3>1. token[b] # NoToken /\ token'[b] = [token[b] EXCEPT !.age = Later(@)]
      BY <1>0, <1>1, <2>3 DEF Minute
    <3>2. token'[b].age = Later(token[b].age) /\ token'[b].blocked = token[b].blocked
      BY <2>0, <3>1 DEF Tokens
    <3>3. token[b].age # Old /\ token'[b].age = token[b].age + 1 /\ token[b].age <= Recheck
      BY <1>1, <2>0, <3>1, <3>2, AgeFacts DEF Later
    <3>4. gone <= token[b].age
      BY <1>1, <3>1, <3>2, <3>3 DEF SignedOutSoon
    <3>5. gone' = Later(gone) \/ gone' = 0
      BY <2>3 DEF Minute
    <3> QED BY <1>0, <2>0, <3>1, <3>3, <3>4, <3>5, AgeFacts DEF Later
  <2>4. CASE Years
    <3>1. token[b] # NoToken /\ token'[b] = [token[b] EXCEPT !.age = Old]
      BY <1>0, <1>1, <2>4 DEF Years
    <3>2. token'[b].age = Old
      BY <2>0, <3>1 DEF Tokens
    <3> QED BY <1>1, <3>2, AgeFacts
  <2>5. ASSUME NEW c \in Browsers, NEW l \in Logins, LoginWrite(l, c)
        PROVE  gone' <= token'[b].age
    <3>1. login[l] \in LoginRows
      BY <2>5 DEF AccountsTypeOK, LoginWrite
    <3>2. user'.status \notin Blocking
      BY <2>5, <3>1 DEF AccountsTypeOK, UserRows, LoginRows, LoginWrite, Writes, Blocking
    <3>3. gone' = 0
      BY <2>5, <3>2 DEF LoginWrite, Writes
    <3>4. token'[b] = token[b] \/ token'[b].age = 0
      BY <1>0, <2>5 DEF LoginWrite, NewToken
    <3> QED BY <2>1, <2>2, <3>3, <3>4
  <2>6. ASSUME NEW c \in Browsers, SocialLogin(c) PROVE gone' <= token'[b].age
    <3>1. gone' = gone /\ gone = 0
      BY <2>6 DEF SocialLogin, GoneOnlyBlocked
    <3>2. token'[b] = token[b] \/ token'[b].age = 0
      BY <1>0, <2>6 DEF SocialLogin, NewToken
    <3> QED BY <2>1, <2>2, <3>1, <3>2
  <2>7. ASSUME NEW c \in Browsers, RecheckToken(c) PROVE gone' <= token'[b].age
    <3>1. gone' = gone
      BY <2>7 DEF RecheckToken
    <3>2. CASE b = c
      <4>1. token'[b] = [blocked |-> BlockedNow, age |-> 0]
        BY <1>0, <2>7, <3>2 DEF RecheckToken
      <4>2. token'[b].blocked = BlockedNow /\ token'[b].age = 0
        BY <4>1
      <4>3. ~BlockedNow
        BY <1>1, <4>2
      <4> QED BY <2>2, <3>1, <4>2, <4>3 DEF GoneOnlyBlocked
    <3>3. CASE b # c
      BY <1>0, <2>1, <2>7, <3>1, <3>3 DEF RecheckToken
    <3> QED BY <3>2, <3>3
  <2>8. ASSUME NEW c \in Browsers, SessionExpires(c) PROVE gone' <= token'[b].age
    <3>1. gone' = gone /\ token'[b] = token[b]
      BY <1>0, <1>1, <2>8 DEF SessionExpires
    <3> QED BY <2>1, <3>1
  <2> QED
    BY <2>1, <2>3, <2>4, <2>5, <2>6, <2>7, <2>8
       DEF AccountsNext, accountVars, Writes, LoginRead, IssueLink, ResetPassword, WithdrawRead,
           WithdrawCommit, OrderPaidOrDelivered, StaffSetsStatus, ConvertDormant, FindPurge, Purge
<1> QED BY <1>1 DEF SignedOutSoon

-----------------------------------------------------------------------------
LEMMA StampStep ==
  ASSUME AccountsInv, AccountsNext \/ UNCHANGED accountVars
  PROVE  StampTrue'
<1>0. user \in UserRows /\ login \in [Logins -> {NoLogin} \cup LoginRows]
  BY DEF AccountsInv, AccountsTypeOK
<1>1. StampTrue
  BY DEF AccountsInv
<1>2. ASSUME NEW b \in Browsers, NEW l \in Logins, LoginWrite(l, b) PROVE StampTrue'
  <2>1. user'.lastLogin = "new"
    BY <1>0, <1>2 DEF LoginWrite, Writes, UserRows
  <2> QED BY <2>1 DEF StampTrue, LongUnseen
<1>3. CASE \/ WithdrawCommit \/ ConvertDormant \/ Purge \/ ResetPassword
           \/ \E s \in Statuses : StaffSetsStatus(s)
  <2>1. user'.lastLogin = user.lastLogin /\ user'.created = user.created /\ lapsed' = lapsed
    BY <1>0, <1>3
       DEF WithdrawCommit, ConvertDormant, Purge, ResetPassword, StaffSetsStatus, Writes, UserRows
  <2> QED BY <1>1, <2>1 DEF StampTrue, LongUnseen
<1>4. CASE Years
  BY <1>4 DEF Years, StampTrue
<1>5. CASE UNCHANGED <<user, lapsed>>
  BY <1>1, <1>5 DEF StampTrue, LongUnseen
<1> QED
  BY <1>2, <1>3, <1>4, <1>5
     DEF AccountsNext, accountVars, LoginRead, SocialLogin, RecheckToken, SessionExpires,
         IssueLink, WithdrawRead, OrderPaidOrDelivered, FindPurge, Minute

LEMMA SuspectsStep ==
  ASSUME AccountsInv, AccountsNext \/ UNCHANGED accountVars
  PROVE  Suspects'
<1>0. user \in UserRows /\ login \in [Logins -> {NoLogin} \cup LoginRows]
  BY DEF AccountsInv, AccountsTypeOK
<1>1. Suspects /\ StampTrue
  BY DEF AccountsInv
<1>2. ASSUME NEW b \in Browsers, NEW l \in Logins, LoginWrite(l, b) PROVE Suspects'
  <2>1. login[l] \in LoginRows
    BY <1>0, <1>2 DEF LoginWrite
  <2>2. user'.status # "DORMANT"
    BY <1>0, <1>2, <2>1 DEF LoginWrite, Writes, UserRows, LoginRows, Blocking
  <2>3. returned' = TRUE
    BY <1>2 DEF LoginWrite
  <2> QED BY <2>2, <2>3 DEF Suspects
<1>3. ASSUME NEW b \in Browsers, SocialLogin(b) PROVE Suspects'
  BY <1>1, <1>3 DEF SocialLogin, Suspects
<1>4. CASE WithdrawCommit \/ Purge
  <2>1. user'.status = "WITHDRAWN"
    BY <1>0, <1>4 DEF WithdrawCommit, Purge, Writes, UserRows
  <2> QED BY <2>1 DEF Suspects
<1>5. ASSUME NEW s \in Statuses, StaffSetsStatus(s) PROVE Suspects'
  BY <1>5 DEF StaffSetsStatus, Writes, Suspects
<1>6. CASE ConvertDormant
  BY <1>1, <1>6 DEF ConvertDormant, Converts, StampTrue, Suspects
<1>7. CASE FindPurge
  <2>1. UNCHANGED <<user, lapsed, by>>
    BY <1>7 DEF FindPurge
  <2>2. user.status \in {"DORMANT", "WITHDRAWN"}
    BY <1>7 DEF FindPurge, Purgeable
  <2> QED BY <1>1, <2>1, <2>2 DEF Suspects
<1>8. CASE Years
  BY <1>8 DEF Years, Suspects
<1>9. CASE ResetPassword
  <2>1. user'.status = user.status
    BY <1>0, <1>9 DEF ResetPassword, UserRows
  <2> QED BY <1>1, <1>9, <2>1 DEF ResetPassword, Suspects
<1>10. CASE UNCHANGED <<user, lapsed, purging, returned, by>>
  BY <1>1, <1>10 DEF Suspects
<1> QED
  BY <1>2, <1>3, <1>4, <1>5, <1>6, <1>7, <1>8, <1>9, <1>10
     DEF AccountsNext, accountVars, LoginRead, RecheckToken, SessionExpires, IssueLink,
         WithdrawRead, OrderPaidOrDelivered, Minute

LEMMA AccountsInductive == AccountsSpec => []AccountsInv
<1>1. AccountsInv /\ [AccountsNext]_accountVars => AccountsInv'
  BY AccountsTypeStep, GoneStep, SignedOutStep, StampStep, SuspectsStep DEF AccountsInv
<1> QED BY <1>1, AccountsInitially, PTL DEF AccountsSpec

(* The row, the sessions and the requests under way keep their types.      *)
THEOREM AccountsTypeCorrect == AccountsSpec => []AccountsTypeOK
BY AccountsInductive, PTL DEF AccountsInv

(* No session outlives a block by more than the recheck period, in however *)
(* many browsers, and whatever logins and changes of status race with the  *)
(* recheck (lib/auth.ts lines 242-247).                                    *)
THEOREM BlockReachesSessions == AccountsSpec => []SignedOutSoon
BY AccountsInductive, PTL DEF AccountsInv

(* Nothing lifts a block except the administrator and a login that had     *)
(* read the row before (lib/auth.ts line 132).                             *)
THEOREM BlocksStay == AccountsSpec => BlockedStays
<1>1. ASSUME AccountsInv, [AccountsNext]_accountVars, BlockedNow, ~BlockedNow'
      PROVE  by' = "staff" \/ \E l \in Logins : login[l] # NoLogin
  <2>0. user \in UserRows
    BY <1>1 DEF AccountsInv, AccountsTypeOK
  <2>1. ASSUME NEW s \in Statuses, StaffSetsStatus(s) PROVE by' = "staff"
    BY <2>1 DEF StaffSetsStatus, Writes
  <2>2. ASSUME NEW b \in Browsers, NEW l \in Logins, LoginWrite(l, b) PROVE login[l] # NoLogin
    BY <2>2 DEF LoginWrite
  <2>3. CASE WithdrawCommit \/ Purge
    <3>1. user'.status = "WITHDRAWN"
      BY <2>0, <2>3 DEF WithdrawCommit, Purge, Writes, UserRows
    <3> QED BY <1>1, <3>1 DEF BlockedNow, Blocking
  <2>4. CASE ConvertDormant
    BY <1>1, <2>4 DEF ConvertDormant, Converts, BlockedNow, Blocking
  <2>5. CASE Years
    <3>1. user'.status = user.status
      BY <2>0, <2>5 DEF Years, UserRows
    <3> QED BY <1>1, <3>1 DEF BlockedNow
  <2>6. CASE ResetPassword
    <3>1. user'.status = user.status
      BY <2>0, <2>6 DEF ResetPassword, UserRows
    <3> QED BY <1>1, <3>1 DEF BlockedNow
  <2>7. CASE UNCHANGED user
    BY <1>1, <2>7 DEF BlockedNow
  <2> QED
    BY <1>1, <2>1, <2>2, <2>3, <2>4, <2>5, <2>6, <2>7
       DEF AccountsNext, accountVars, LoginRead, SocialLogin, RecheckToken, SessionExpires,
           IssueLink, WithdrawRead, OrderPaidOrDelivered, FindPurge, Minute
<1> QED BY <1>1, AccountsInductive, PTL DEF AccountsSpec, BlockedStays

(* The cron converts only a member without a login by password for years,  *)
(* and purges none who has not withdrawn, unless it is such a member or    *)
(* the administrator or a late login has changed the row                   *)
(* (dormant-users/route.ts).                                               *)
THEOREM PasswordLoginsKeep == AccountsSpec => PasswordLoginKeeps
<1>1. ASSUME AccountsInv
      PROVE  /\ ConvertDormant => lapsed
             /\ Purge /\ user.status # "WITHDRAWN" => lapsed \/ returned \/ by = "staff"
  <2>1. ConvertDormant => lapsed
    BY <1>1 DEF AccountsInv, StampTrue, ConvertDormant, Converts
  <2>2. Purge /\ user.status # "WITHDRAWN" => lapsed \/ returned \/ by = "staff"
    BY <1>1 DEF AccountsInv, Suspects, Purge
  <2> QED BY <2>1, <2>2
<1> QED BY <1>1, AccountsInductive, PTL DEF AccountsSpec, PasswordLoginKeeps
=============================================================================
