----------------------------- MODULE PhoneCode -----------------------------
(***************************************************************************)
(* The codes sent to one phone number: POST /api/auth/phone/send-code and  *)
(* /verify.  Each reads the rows first and writes afterwards, and requests *)
(* overlap.  Time passes in ticks; a request is shorter.                   *)
(***************************************************************************)
EXTENDS Naturals, Sequences, FiniteSets

CONSTANTS
  Senders,      \* send-code requests at once
  Verifiers,    \* verify requests at once
  ResendWindow, \* RESEND_WINDOW_MS, in ticks
  CodeTtl,      \* CODE_TTL_MS
  Hour,         \* 60 * 60 * 1000
  MaxPerHour,   \* MAX_PER_HOUR
  MaxAttempts,  \* MAX_ATTEMPTS
  MaxCodes      \* bound: codes created

ASSUME CodeAssumption ==
  /\ ResendWindow \in Nat /\ CodeTtl \in Nat /\ Hour \in Nat \ {0}
  /\ MaxPerHour \in Nat /\ MaxAttempts \in Nat /\ MaxCodes \in Nat
  /\ ResendWindow <= Hour
  /\ IsFiniteSet(Verifiers) /\ Verifiers # {}

VARIABLES
  codes,      \* the rows in the order of creation
  sending,    \* by sender: NotSending or how many rows it found
  verifying,  \* by verifier: NotVerifying or the row it found and its guess
  asked,      \* history, by row: how old the one before it was, the rows its sender saw
  wrong       \* history, by row: wrong guesses compared with it

codeVars == <<codes, sending, verifying, asked, wrong>>

NotSending   == MaxCodes + 1
NotVerifying == [row |-> 0, right |-> FALSE]

CodesTypeOK ==
  /\ \A n \in DOMAIN codes : codes[n] \in [attempts : Nat, used : BOOLEAN, age : 0..Hour]
  /\ Len(codes) <= MaxCodes
  /\ sending \in [Senders -> 0..NotSending]
  /\ verifying \in [Verifiers -> [row : 0..Len(codes), right : BOOLEAN]]
  /\ DOMAIN asked = DOMAIN codes /\ DOMAIN wrong = DOMAIN codes

CodesInit ==
  /\ codes = <<>> /\ asked = <<>> /\ wrong = <<>>
  /\ sending = [s \in Senders |-> NotSending]
  /\ verifying = [v \in Verifiers |-> NotVerifying]

-----------------------------------------------------------------------------
MaySend_UnlessUsed ==
  \A n \in DOMAIN codes : n = Len(codes) => codes[n].age >= ResendWindow \/ codes[n].used

MaySend ==
  /\ \A n \in DOMAIN codes : n = Len(codes) => codes[n].age >= ResendWindow
  /\ Len(SelectSeq(codes, LAMBDA c : c.age < Hour)) < MaxPerHour

CheckSend(s) ==
  /\ sending[s] = NotSending
  /\ MaySend
  /\ sending' = [sending EXCEPT ![s] = Len(codes)]
  /\ UNCHANGED <<codes, verifying, asked, wrong>>

(* The row; whether the message then goes out changes nothing.             *)
CreateCode(s) ==
  /\ sending[s] # NotSending
  /\ Len(codes) < MaxCodes
  /\ codes' = Append(codes, [attempts |-> 0, used |-> FALSE, age |-> 0])
  /\ asked' = Append(asked, [gap |-> IF codes = <<>> THEN Hour ELSE codes[Len(codes)].age,
                             seen |-> sending[s]])
  /\ wrong' = Append(wrong, 0)
  /\ sending' = [sending EXCEPT ![s] = NotSending]
  /\ UNCHANGED verifying

-----------------------------------------------------------------------------
Open(n) == ~codes[n].used /\ codes[n].age < CodeTtl

Newest(n) == Open(n) /\ \A m \in DOMAIN codes : m > n => ~Open(m)

CheckCode(v, n, right) ==
  /\ verifying[v] = NotVerifying
  /\ Newest(n)
  /\ codes[n].attempts < MaxAttempts
  /\ verifying' = [verifying EXCEPT ![v] = [row |-> n, right |-> right]]
  /\ UNCHANGED <<codes, sending, asked, wrong>>

EndVerify(v) == verifying' = [verifying EXCEPT ![v] = NotVerifying]

(* The counter set to what was read, plus one, if another was quicker.     *)
WrongCode_LostUpdate(v) ==
  /\ verifying[v].row # 0 /\ ~verifying[v].right
  /\ LET n == verifying[v].row
         others == \E u \in Verifiers \ {v} : verifying[u] = verifying[v]
     IN  /\ codes' = IF others THEN codes ELSE [codes EXCEPT ![n].attempts = @ + 1]
         /\ wrong' = [wrong EXCEPT ![n] = @ + 1]
  /\ EndVerify(v)
  /\ UNCHANGED <<sending, asked>>

WrongCode(v) ==
  /\ verifying[v].row # 0 /\ ~verifying[v].right
  /\ codes' = [codes EXCEPT ![verifying[v].row].attempts = @ + 1]
  /\ wrong' = [wrong EXCEPT ![verifying[v].row] = @ + 1]
  /\ EndVerify(v)
  /\ UNCHANGED <<sending, asked>>

RightCode(v) ==
  /\ verifying[v].right
  /\ codes' = [codes EXCEPT ![verifying[v].row].used = TRUE]
  /\ EndVerify(v)
  /\ UNCHANGED <<sending, asked, wrong>>

(* Rows of more than a day are deleted by the cleanup cron: by then they   *)
(* count for nothing, and are not told apart from those of an hour.        *)
CodesTick ==
  /\ \A s \in Senders : sending[s] = NotSending
  /\ \A v \in Verifiers : verifying[v] = NotVerifying
  /\ codes' = [n \in DOMAIN codes |->
                [codes[n] EXCEPT !.age = IF @ = Hour THEN @ ELSE @ + 1]]
  /\ UNCHANGED <<sending, verifying, asked, wrong>>

CodesNext ==
  \/ \E s \in Senders : CheckSend(s) \/ CreateCode(s)
  \/ \E v \in Verifiers :
       \/ \E n \in DOMAIN codes, right \in BOOLEAN : CheckCode(v, n, right)
       \/ WrongCode(v) \/ RightCode(v)
  \/ CodesTick

CodesSpec == CodesInit /\ [][CodesNext]_codeVars

-----------------------------------------------------------------------------
(* No code is compared with more wrong guesses than MAX_ATTEMPTS, but for  *)
(* those that were under way with the one that reached the limit (the      *)
(* check of verify line 40 precedes the increment of line 46).             *)
GuessesBounded ==
  \A n \in DOMAIN codes :
    wrong[n] + Cardinality({v \in Verifiers : verifying[v] = [row |-> n, right |-> FALSE]})
      <= MaxAttempts + Cardinality(Verifiers) - 1

(* Two messages to a number are a resend window apart, whether or not the  *)
(* first code was used, unless the second request had looked at the rows   *)
(* before the first code was one of them (send-code line 36).              *)
CodesApart ==
  \A n \in DOMAIN codes : asked[n].seen = n - 1 => asked[n].gap >= ResendWindow
=============================================================================
