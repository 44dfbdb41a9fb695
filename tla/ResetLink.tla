----------------------------- MODULE ResetLink -----------------------------
(***************************************************************************)
(* The password reset links of one member (lib/password-reset.ts, POST     *)
(* /api/auth/forgot-password and /reset-password): an issue deletes the    *)
(* unused tokens and then creates its own; a use reads the token, hashes   *)
(* the password, and in one transaction writes it and marks every unused   *)
(* token; the cleanup cron deletes what has expired.                       *)
(***************************************************************************)
EXTENDS Naturals, Sequences

CONSTANTS
  Issuers,    \* requests for a link at once
  Users,      \* uses of a link at once
  MaxLinks    \* bound: tokens created

ASSUME LinksAssumption == MaxLinks \in Nat

VARIABLES
  links,      \* the tokens in the order of creation: their state
  issuing,    \* by issuer: NotIssuing or how many tokens there were when it deleted
  using,      \* by user: 0 or the token whose check it passed
  cut,        \* history, by token: how many there were when its issue deleted
  resets,     \* history: how many there were when the password was last reset
  late        \* history: the users that had passed their check by that reset

linkVars == <<links, issuing, using, cut, resets, late>>

NotIssuing == MaxLinks + 1

LinksTypeOK ==
  /\ links \in Seq({"live", "expired", "used", "deleted"}) /\ Len(links) <= MaxLinks
  /\ issuing \in [Issuers -> 0..NotIssuing]
  /\ using \in [Users -> 0..Len(links)]
  /\ DOMAIN cut = DOMAIN links
  /\ resets \in 0..Len(links)
  /\ late \subseteq Users

LinksInit ==
  /\ links = <<>> /\ cut = <<>>
  /\ issuing = [i \in Issuers |-> NotIssuing]
  /\ using = [u \in Users |-> 0]
  /\ resets = 0
  /\ late = {}

-----------------------------------------------------------------------------
Unused == {n \in DOMAIN links : links[n] \in {"live", "expired"}}

Become(set, state) == links' = [n \in DOMAIN links |-> IF n \in set THEN state ELSE links[n]]

DeletesUnused_None(i) == UNCHANGED links

DeletesUnused(i) == Become(Unused, "deleted")

IssueDelete(i) ==
  /\ issuing[i] = NotIssuing
  /\ DeletesUnused(i)
  /\ issuing' = [issuing EXCEPT ![i] = Len(links)]
  /\ UNCHANGED <<using, cut, resets, late>>

IssueCreate(i) ==
  /\ issuing[i] # NotIssuing
  /\ Len(links) < MaxLinks
  /\ links' = Append(links, "live")
  /\ cut' = Append(cut, issuing[i])
  /\ issuing' = [issuing EXCEPT ![i] = NotIssuing]
  /\ UNCHANGED <<using, resets, late>>

UseRead(u, n) ==
  /\ using[u] = 0
  /\ links[n] = "live"
  /\ using' = [using EXCEPT ![u] = n]
  /\ UNCHANGED <<links, issuing, cut, resets, late>>

MarksUsed_OwnOnly(u) == Become({using[u]} \cap Unused, "used")

MarksUsed(u) == Become(Unused, "used")

(* The transaction does not look at the token again, which may be used or  *)
(* deleted by now; markPasswordResetTokenUsed after it finds nothing.      *)
UseCommit(u) ==
  /\ using[u] # 0
  /\ MarksUsed(u)
  /\ resets' = Len(links)
  /\ using' = [using EXCEPT ![u] = 0]
  /\ late' = {v \in Users \ {u} : using[v] # 0}
  /\ UNCHANGED <<issuing, cut>>

Expire(n) ==
  /\ links[n] = "live"
  /\ Become({n}, "expired")
  /\ UNCHANGED <<issuing, using, cut, resets, late>>

Cleanup ==
  /\ Become({n \in DOMAIN links : links[n] = "expired"}, "deleted")
  /\ UNCHANGED <<issuing, using, cut, resets, late>>

LinksNext ==
  \/ \E i \in Issuers : IssueDelete(i) \/ IssueCreate(i)
  \/ \E u \in Users :
       \/ \E n \in DOMAIN links : UseRead(u, n)
       \/ UseCommit(u)
  \/ \E n \in DOMAIN links : Expire(n)
  \/ Cleanup

LinksSpec == LinksInit /\ [][LinksNext]_linkVars

-----------------------------------------------------------------------------
(* Only the newest link works (password-reset.ts line 12), unless the      *)
(* newer issue had deleted before the older one created its token.         *)
OneLiveLink ==
  \A m, n \in DOMAIN links : m < n /\ links[m] = "live" /\ links[n] = "live" => cut[n] < m

(* Once the password is reset no link issued before is accepted any more,  *)
(* whichever was used (reset-password line 44), nor is one under way, but  *)
(* for the uses that had passed their check before that reset: such a use  *)
(* resets the password again with a link that is used already, against     *)
(* password-reset.ts line 11.                                              *)
OldLinksDead ==
  /\ \A n \in DOMAIN links : links[n] = "live" => n > resets
  /\ \A u \in Users \ late : using[u] # 0 => using[u] > resets
=============================================================================
