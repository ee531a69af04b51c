------------------------------ MODULE Accounts ------------------------------
(***************************************************************************)
(* One member's account under AUTH_MODE=local: signing in, the reset of a  *)
(* forgotten password that an admin approves, the confirmation of an       *)
(* address, the sync password of their KOReader devices, and what ends     *)
(* every session.                                                          *)
(*                                                                         *)
(* A request is a thread: it reads the rows it needs, works (a password    *)
(* hash takes a third of a second), and writes and commits.  The writes of *)
(* one commit happen in one step, since the database admits one writer at  *)
(* a time.  The ORM writes the columns that differ from what the request   *)
(* loaded, by the row's id, and nothing else (Flush).                      *)
(*                                                                         *)
(* Instants that are compared or that name something new (a session, a     *)
(* code, a password, a sync password) are ticks of one clock that never    *)
(* reads the same twice: times carry microseconds.  A deadline is a flag   *)
(* its passing sets.                                                       *)
(* Left out: wrong passwords and codes, which change nothing but the rate  *)
(* limits; a session's own week; restores (module Archive); directory      *)
(* accounts, whose password is not held here; the mails that carry codes.  *)
(***************************************************************************)
EXTENDS Naturals, FiniteSets, FiniteSetsExt, FiniteSetTheorems, TLAPS

CONSTANTS
  Procs,    \* threads that serve requests, and the operator's shell
  Enders,   \* those that may end the account's sessions
  MaxTick,  \* bound on the clock
  MaxRow    \* bound on the ids of password_reset_requests

AccountsAssumption ==
  /\ Enders \subseteq Procs
  /\ MaxTick \in Nat \ {0} /\ MaxRow \in Nat \ {0}

VARIABLES
  tick,
  user,      \* the row of users
  resets,    \* [Rows -> the row of password_reset_requests, or Gone]
  sessions,  \* the access tokens handed out
  open,      \* accounts_open_to_outsiders
  req,       \* [Procs -> the request it serves]
  ended      \* ways in handed out before an end of every session began

vars == <<tick, user, resets, sessions, open, req, ended>>

Ticks == 0 .. MaxTick
Rows == 1 .. MaxRow

(* `password` names the password whose hash is stored; `cutoff` is         *)
(* sessions_valid_from, `key` the sync password, `source` and `by` who     *)
(* confirmed the address, `code` the confirmation code; 0 for null.        *)
User == [password : Ticks, cutoff : Ticks, key : Ticks,
         source : {"none", "not_required", "email", "admin"}, by : BOOLEAN,
         code : Ticks, lapsed : BOOLEAN]

(* `lapsed`: its code's hour, or before approval its week, is over.        *)
Reset == [state : {"gone", "live", "done"}, approved : BOOLEAN,
          code : Ticks, lapsed : BOOLEAN]
Gone == [state |-> "gone", approved |-> FALSE, code |-> 0, lapsed |-> FALSE]
Asked == [Gone EXCEPT !.state = "live"]

Session == [iat : Ticks, under : Ticks]

(* register: while the library is open to outsiders an account is made     *)
(* unconfirmed and posted a code.                                          *)
Registered(confirm) ==
  [password |-> 0, cutoff |-> 0, key |-> 0,
   source |-> IF confirm THEN "none" ELSE "not_required", by |-> FALSE,
   code |-> IF confirm THEN 1 ELSE 0, lapsed |-> FALSE]

Kinds == {"idle", "login", "mintKey", "revokeKey", "ask", "approve", "decline",
          "redeem", "recover", "revoke", "post", "confirm", "override"}
Endings == {"redeem", "recover", "revoke"}

Idle == [kind |-> "idle", seen |-> Registered(FALSE), row |-> 0, cutoff |-> 0,
         before |-> {}]

----------------------------------------------------------------------------
(* What the database does *)

LiveRows == {r \in Rows : resets[r].state = "live"}

(* live_request: the unique index leaves one row at most. *)
LiveRequest == IF LiveRows = {} THEN 0 ELSE CHOOSE r \in LiveRows : TRUE

(* SQLite gives an insert one more than the largest id there is.           *)
NextRow(table) == 1 + Max({0} \cup {r \in Rows : table[r].state # "gone"})

(* uq_password_reset_requests_live and the check constraints: a commit     *)
(* that breaks one is refused whole.                                       *)
Accepted(table) ==
  /\ Cardinality({r \in Rows : table[r].state = "live"}) <= 1
  /\ \A r \in Rows : table[r].state = "done" => table[r].approved

(* The columns that differ from the row as loaded. *)
Flush(seen, new) ==
  [f \in DOMAIN user |-> IF new[f] # seen[f] THEN new[f] ELSE user[f]]

----------------------------------------------------------------------------
(* What opens the account *)

(* verification_blocks *)
Blocked(u) == u.source = "none" /\ open

(* session_is_live: an account without a cutoff refuses no token for age. *)
SessionIsLive(s) == s.iat >= user.cutoff /\ ~ Blocked(user)

(* A tick names a session, or the sync password now in force. *)
Opens(t) == \/ \E s \in sessions : s.iat = t /\ SessionIsLive(s)
            \/ t # 0 /\ t = user.key

HandedOut == {s.iat : s \in sessions} \cup ({user.key} \ {0})

----------------------------------------------------------------------------
(* Requests: the read, the commit *)

Serves(p, kind) == req[p].kind = kind

(* A request keeps what its commit uses of what it loaded.                 *)
Read(p, kind, seen, row) ==
  /\ Serves(p, "idle")
  /\ req' = [req EXCEPT ![p] = [Idle EXCEPT !.kind = kind, !.seen = seen, !.row = row]]
  /\ UNCHANGED <<tick, user, resets, sessions, open, ended>>

Answer(p) == req' = [req EXCEPT ![p] = Idle]
Stamp == tick < MaxTick /\ tick' = tick + 1

(* A member signed in on some device. *)
SignedIn == \E s \in sessions : SessionIsLive(s)

(* login: authenticate_local compares the password with the hash it read.  *)
ReadToLogin(p) == Read(p, "login", user, 0)

(* sign_in_refusal, and create_access_token.                               *)
CommitLogin(p) ==
  /\ Serves(p, "login")
  /\ IF Blocked(req[p].seen)
       THEN UNCHANGED <<tick, sessions>>
       ELSE /\ Stamp
            /\ sessions' = sessions \cup {[iat |-> tick', under |-> req[p].seen.password]}
  /\ Answer(p)
  /\ UNCHANGED <<user, resets, open, ended>>

(* The sync password: mint_key and revoke_key, by a signed-in member.      *)
ReadToMintKey(p) == SignedIn /\ Read(p, "mintKey", Idle.seen, 0)
CommitMintKey(p) ==
  /\ Serves(p, "mintKey") /\ Stamp
  /\ user' = [user EXCEPT !.key = tick']
  /\ Answer(p)
  /\ UNCHANGED <<resets, sessions, open, ended>>

ReadToRevokeKey(p) == SignedIn /\ Read(p, "revokeKey", user, 0)
CommitRevokeKey(p) ==
  /\ Serves(p, "revokeKey")
  /\ user' = Flush(req[p].seen, [req[p].seen EXCEPT !.key = 0])
  /\ Answer(p)
  /\ UNCHANGED <<tick, resets, sessions, open, ended>>

----------------------------------------------------------------------------
(* The reset of a password *)

(* request_password_reset: one that has not lapsed is left as it is.       *)
ReadToAsk(p) ==
  /\ LiveRequest # 0 => resets[LiveRequest].lapsed
  /\ Read(p, "ask", Idle.seen, LiveRequest)

(* A lapsed request is deleted by its id, and a new one inserted.          *)
CommitAsk(p) ==
  LET deleted == IF req[p].row = 0 THEN resets ELSE [resets EXCEPT ![req[p].row] = Gone]
      id == NextRow(deleted)
      table == [deleted EXCEPT ![id] = Asked] IN
  /\ Serves(p, "ask")
  /\ id \in Rows
  /\ resets' = IF Accepted(table) THEN table ELSE resets
  /\ Answer(p)
  /\ UNCHANGED <<tick, user, sessions, open, ended>>

(* approve_password_reset: a lapsed request may be approved too, and one   *)
(* approved before gets a new code.  The row it updates may be gone.       *)
ReadToApprove(p) == LiveRequest # 0 /\ Read(p, "approve", Idle.seen, LiveRequest)
CommitApprove(p) ==
  LET row == req[p].row IN
  /\ Serves(p, "approve")
  /\ IF resets[row].state = "gone"
       THEN UNCHANGED <<tick, resets>>
       ELSE /\ Stamp
            /\ resets' = [resets EXCEPT ![row].approved = TRUE, ![row].code = tick',
                                        ![row].lapsed = FALSE]
  /\ Answer(p)
  /\ UNCHANGED <<user, sessions, open, ended>>

(* decline_password_reset *)
ReadToDecline(p) == LiveRequest # 0 /\ Read(p, "decline", Idle.seen, LiveRequest)
CommitDecline(p) ==
  /\ Serves(p, "decline")
  /\ resets' = [resets EXCEPT ![req[p].row] = Gone]
  /\ Answer(p)
  /\ UNCHANGED <<tick, user, sessions, open, ended>>

(* The end of a deadline: a reset's, or a confirmation code's.             *)
ResetLapses(r) ==
  /\ resets[r].state = "live" /\ ~ resets[r].lapsed
  /\ resets' = [resets EXCEPT ![r].lapsed = TRUE]
  /\ UNCHANGED <<tick, user, sessions, open, req, ended>>

CodeLapses ==
  /\ user.code # 0 /\ ~ user.lapsed
  /\ user' = [user EXCEPT !.lapsed = TRUE]
  /\ UNCHANGED <<tick, resets, sessions, open, req, ended>>

----------------------------------------------------------------------------
(* What ends every session: redeem_reset with the code the admin handed    *)
(* on, the operator's `python -m recover`, and an admin's revoke_member.   *)

Redeemable(r) == r # 0 /\ resets[r].approved /\ ~ resets[r].lapsed

ReadToEnd(p, kind) ==
  LET row == IF kind = "redeem" THEN LiveRequest ELSE 0 IN
  /\ p \in Enders /\ Serves(p, "idle")
  /\ kind = "redeem" => Redeemable(row)
  /\ req' = [req EXCEPT ![p] = [Idle EXCEPT !.kind = kind, !.seen = user, !.row = row,
                                            !.before = HandedOut]]
  /\ UNCHANGED <<tick, user, resets, sessions, open, ended>>

(* end_every_session reads the clock once the new password is hashed.      *)
StampCutoff(p) ==
  /\ req[p].kind \in Endings /\ req[p].cutoff = 0
  /\ Stamp
  /\ req' = [req EXCEPT ![p].cutoff = tick']
  /\ UNCHANGED <<user, resets, sessions, open, ended>>

(* As Ending without the device's sync password. *)
Ending_KeepsKey(r) ==
  [r.seen EXCEPT !.cutoff = r.cutoff,
                 !.password = IF r.kind = "revoke" THEN @ ELSE r.cutoff]

(* What an ending sets on the row it loaded. *)
Ending(r) ==
  [r.seen EXCEPT !.cutoff = r.cutoff, !.key = 0,
                 !.password = IF r.kind = "revoke" THEN @ ELSE r.cutoff]

(* A redemption also completes its request, in the same commit: a request  *)
(* that is gone, or one that may not be completed, keeps the old password. *)
CommitEnding(p) ==
  LET r == req[p]
      redeems == r.kind = "redeem"
      table == IF redeems THEN [resets EXCEPT ![r.row].state = "done", ![r.row].code = 0]
                          ELSE resets
      kept == redeems => resets[r.row].state # "gone" /\ Accepted(table) IN
  /\ r.kind \in Endings /\ r.cutoff # 0
  /\ IF kept THEN /\ user' = Flush(r.seen, Ending(r))
                  /\ resets' = table
                  /\ ended' = ended \cup r.before
             ELSE UNCHANGED <<user, resets, ended>>
  /\ Answer(p)
  /\ UNCHANGED <<tick, sessions, open>>

----------------------------------------------------------------------------
(* The confirmation of an address *)

(* request_verification *)
ReadToPost(p) == Blocked(user) /\ Read(p, "post", Idle.seen, 0)
CommitPost(p) ==
  /\ Serves(p, "post") /\ Stamp
  /\ user' = [user EXCEPT !.code = tick', !.lapsed = FALSE]
  /\ Answer(p)
  /\ UNCHANGED <<resets, sessions, open, ended>>

(* As Confirmed, whoever confirms. *)
Confirmed_Directory(seen, who) ==
  [seen EXCEPT !.source = "directory", !.by = FALSE, !.code = 0, !.lapsed = FALSE]

(* record_verification *)
Confirmed(seen, who) ==
  [seen EXCEPT !.source = who, !.by = who = "admin", !.code = 0, !.lapsed = FALSE]

(* confirm_address: an account may be confirmed while its code waits.      *)
ReadToConfirm(p) == user.code # 0 /\ ~ user.lapsed /\ Read(p, "confirm", user, 0)

(* verify_member *)
ReadToOverride(p) == user.source = "none" /\ Read(p, "override", user, 0)

CommitConfirmed(p) ==
  LET who == IF req[p].kind = "confirm" THEN "email" ELSE "admin" IN
  /\ req[p].kind \in {"confirm", "override"}
  /\ user' = Flush(req[p].seen, Confirmed(req[p].seen, who))
  /\ Answer(p)
  /\ UNCHANGED <<tick, resets, sessions, open, ended>>

(* The admin opens the library to outsiders, or closes it.                 *)
SetOpen ==
  /\ open' = ~ open
  /\ UNCHANGED <<tick, user, resets, sessions, req, ended>>

----------------------------------------------------------------------------
Init ==
  /\ open \in BOOLEAN
  /\ user = Registered(open)
  /\ tick = user.code  \* a code that was posted was stamped
  /\ resets = [r \in Rows |-> Gone]
  /\ sessions = {}
  /\ req = [p \in Procs |-> Idle]
  /\ ended = {}

Serve(p) ==
  \/ ReadToLogin(p) \/ CommitLogin(p)
  \/ ReadToMintKey(p) \/ CommitMintKey(p)
  \/ ReadToRevokeKey(p) \/ CommitRevokeKey(p)
  \/ ReadToAsk(p) \/ CommitAsk(p)
  \/ ReadToApprove(p) \/ CommitApprove(p)
  \/ ReadToDecline(p) \/ CommitDecline(p)
  \/ \E kind \in Endings : ReadToEnd(p, kind)
  \/ StampCutoff(p) \/ CommitEnding(p)
  \/ ReadToPost(p) \/ CommitPost(p)
  \/ ReadToConfirm(p) \/ ReadToOverride(p) \/ CommitConfirmed(p)

Next ==
  \/ \E p \in Procs : Serve(p)
  \/ \E r \in Rows : ResetLapses(r)
  \/ CodeLapses
  \/ SetOpen

Spec == Init /\ [][Next]_vars

----------------------------------------------------------------------------
(* Every variable keeps its type, in every state the requests above reach. *)
TypeOK ==
  /\ tick \in Ticks
  /\ user \in User
  /\ resets \in [Rows -> Reset]
  /\ \A s \in sessions : s \in Session /\ s.iat <= tick
  /\ open \in BOOLEAN
  /\ DOMAIN req = Procs
  /\ \A p \in Procs : /\ req[p].kind \in Kinds
                       /\ req[p].seen \in User
                       /\ req[p].row \in Rows \cup {0}
                       /\ req[p].cutoff <= tick
  /\ ended \subseteq 1 .. tick

(* request_password_reset: "one live request per account", whatever        *)
(* requests, approvals and refusals overlap.                               *)
OneLiveRequest == Cardinality(LiveRows) <= 1

(* A reset was completed only where an admin had approved it, though the   *)
(* request a redemption read may be declined, and its id be another        *)
(* request's, before the redemption commits.                               *)
CompletedWereApproved ==
  \A r \in Rows : resets[r].state = "done" => resets[r].approved

(* end_every_session: no session and no sync password handed out before    *)
(* the sessions were ended opens the account again, whatever was under way *)
(* when they were.                                                         *)
EndedStaysEnded == \A t \in ended : ~ Opens(t)

----------------------------------------------------------------------------
(* Proofs: for any number of threads, resets and ticks. *)

Request == [kind : Kinds, seen : User, row : Rows \cup {0}, cutoff : Ticks,
            before : SUBSET Ticks]

(* Nothing is stamped ahead of the clock, and what names a reset was shown *)
(* one.                                                                    *)
Stamped(r) ==
  /\ r.cutoff <= tick
  /\ r.before \subseteq 1 .. tick
  /\ r.kind \in {"approve", "decline", "redeem"} => r.row # 0

AccountInv ==
  /\ tick \in Ticks /\ open \in BOOLEAN
  /\ user \in User /\ user.cutoff <= tick /\ user.key <= tick
  /\ sessions \subseteq Session /\ \A s \in sessions : s.iat \in 1 .. tick
  /\ ended \subseteq 1 .. tick
ResetInv == resets \in [Rows -> Reset] /\ OneLiveRequest /\ CompletedWereApproved
RequestInv == req \in [Procs -> Request] /\ \A p \in Procs : Stamped(req[p])

IInv == AccountInv /\ ResetInv /\ RequestInv

LEMMA ClockCounts == ASSUME AccountsAssumption
                     PROVE  /\ Ticks \subseteq Nat /\ 0 \in Ticks /\ 1 \in Ticks
                            /\ \A t \in Ticks : t < MaxTick => t + 1 \in Ticks
BY DEF AccountsAssumption, Ticks

LEMMA IdleIsRequest ==
  ASSUME AccountsAssumption
  PROVE  /\ Idle \in Request
         /\ Idle.kind = "idle" /\ Idle.cutoff = 0 /\ Idle.before = {}
         /\ tick \in Ticks => Stamped(Idle)
<1>1. Registered(FALSE) \in User
  BY ClockCounts DEF Registered, User
<1>2. Idle \in Request /\ Idle.kind = "idle" /\ Idle.cutoff = 0 /\ Idle.before = {}
  BY <1>1, ClockCounts DEF Idle, Request, Kinds
<1> QED BY <1>2, ClockCounts DEF Stamped

(* What a request writes back of a row it loaded: a column it left alone   *)
(* keeps what others wrote meanwhile.                                      *)
LEMMA FlushWrites ==
  ASSUME user \in User, NEW seen \in User, NEW new \in User
  PROVE  /\ Flush(seen, new) \in User
         /\ Flush(seen, new).key = IF new.key # seen.key THEN new.key ELSE user.key
         /\ Flush(seen, new).cutoff = IF new.cutoff # seen.cutoff THEN new.cutoff
                                      ELSE user.cutoff
<1> DEFINE kept == [f \in DOMAIN user |-> IF new[f] # seen[f] THEN new[f] ELSE user[f]]
<1>1. DOMAIN user = {"password", "cutoff", "key", "source", "by", "code", "lapsed"}
  BY DEF User
<1>2. kept = [password |-> kept.password, cutoff |-> kept.cutoff, key |-> kept.key,
              source |-> kept.source, by |-> kept.by, code |-> kept.code,
              lapsed |-> kept.lapsed]
  BY <1>1
<1>3. /\ kept.password \in Ticks /\ kept.cutoff \in Ticks /\ kept.key \in Ticks
      /\ kept.source \in {"none", "not_required", "email", "admin"}
      /\ kept.by \in BOOLEAN /\ kept.code \in Ticks /\ kept.lapsed \in BOOLEAN
  BY <1>1 DEF User
<1>4. kept \in User
  BY <1>2, <1>3 DEF User
<1>5. /\ kept.key = IF new.key # seen.key THEN new.key ELSE user.key
      /\ kept.cutoff = IF new.cutoff # seen.cutoff THEN new.cutoff ELSE user.cutoff
  BY <1>1
<1> QED BY <1>4, <1>5 DEF Flush

LEMMA InitInv == ASSUME AccountsAssumption PROVE Init => IInv
<1> SUFFICES ASSUME Init PROVE IInv
  OBVIOUS
<1>1. AccountInv
  BY ClockCounts DEF Init, AccountInv, Registered, User
<1>2. ResetInv
  <2>1. resets \in [Rows -> Reset] /\ CompletedWereApproved
    BY ClockCounts DEF Init, Gone, Reset, CompletedWereApproved
  <2>2. LiveRows = {}
    BY DEF Init, Gone, LiveRows
  <2> QED BY <2>1, <2>2, FS_EmptySet DEF ResetInv, OneLiveRequest
<1>3. RequestInv
  BY <1>1, IdleIsRequest DEF Init, RequestInv, AccountInv
<1> QED BY <1>1, <1>2, <1>3 DEF IInv

LEMMA ClockTicks ==
  ASSUME AccountsAssumption, tick \in Ticks, Stamp
  PROVE  tick' \in Ticks /\ tick' = tick + 1 /\ tick \in Nat
BY ClockCounts DEF Stamp

(* One request goes on, and the others stay stamped whatever the clock     *)
(* does.                                                                   *)
LEMMA OneGoesOn ==
  ASSUME AccountsAssumption, IInv, NEW p \in Procs, NEW r \in Request,
         req' = [req EXCEPT ![p] = r], tick' \in Ticks, tick <= tick',
         r.cutoff <= tick', r.before \subseteq 1 .. tick',
         r.kind \in {"approve", "decline", "redeem"} => r.row # 0
  PROVE  RequestInv'
<1>1. /\ req \in [Procs -> Request] /\ tick \in Nat /\ tick' \in Nat
      /\ \A q \in Procs : Stamped(req[q])
  BY ClockCounts DEF IInv, AccountInv, RequestInv
<1>2. req' \in [Procs -> Request]
  BY <1>1
<1>3. ASSUME NEW q \in Procs PROVE Stamped(req[q])'
  <2>1. CASE q = p
    BY <1>1, <2>1 DEF Stamped
  <2>2. CASE q # p
    <3>1. req'[q] = req[q] /\ req[q].cutoff \in Nat
      BY <1>1, <2>2, ClockCounts DEF Request
    <3>2. Stamped(req[q]) /\ 1 .. tick \subseteq 1 .. tick'
      BY <1>1
    <3> QED BY <1>1, <3>1, <3>2 DEF Stamped
  <2> QED BY <2>1, <2>2
<1> QED BY <1>2, <1>3 DEF RequestInv

LEMMA OneEnds ==
  ASSUME AccountsAssumption, IInv, NEW p \in Procs, Answer(p),
         tick' \in Ticks, tick <= tick'
  PROVE  RequestInv'
<1>1. /\ Idle \in Request /\ Idle.cutoff <= tick' /\ Idle.before \subseteq 1 .. tick'
      /\ Idle.kind \in {"approve", "decline", "redeem"} => Idle.row # 0
  BY IdleIsRequest, ClockCounts
<1> QED BY <1>1, OneGoesOn DEF Answer

(* A live request is a row of the table. *)
LEMMA LiveRequestIsRow == LiveRequest \in Rows \cup {0}
BY DEF LiveRequest, LiveRows

(* Resets that go, or are answered, leave one live at most.                *)
LEMMA FewerLive ==
  ASSUME AccountsAssumption, OneLiveRequest, LiveRows' \subseteq LiveRows
  PROVE  OneLiveRequest'
<1>1. IsFiniteSet(Rows)
  BY FS_Interval DEF Rows, AccountsAssumption
<1>2. LiveRows \subseteq Rows
  BY DEF LiveRows
<1>3. IsFiniteSet(LiveRows)
  BY <1>1, <1>2, FS_Subset
<1>4. /\ Cardinality(LiveRows') <= Cardinality(LiveRows)
      /\ Cardinality(LiveRows) \in Nat /\ Cardinality(LiveRows') \in Nat
  BY <1>3, FS_Subset, FS_CardinalityType
<1> QED BY <1>4 DEF OneLiveRequest

LEMMA SameResets == ASSUME ResetInv, UNCHANGED resets PROVE ResetInv'
BY DEF ResetInv, OneLiveRequest, LiveRows, CompletedWereApproved

LEMMA AcceptedResets ==
  ASSUME resets' \in [Rows -> Reset], Accepted(resets') PROVE ResetInv'
BY DEF ResetInv, OneLiveRequest, LiveRows, CompletedWereApproved, Accepted

LEMMA ReadKeepsInv ==
  ASSUME AccountsAssumption, IInv, NEW p \in Procs, NEW r \in Request, Stamped(r),
         req' = [req EXCEPT ![p] = r],
         UNCHANGED <<tick, user, resets, sessions, open, ended>>
  PROVE  IInv'
<1>1. AccountInv' /\ ResetInv'
  BY SameResets DEF IInv, AccountInv
<1>2. /\ tick' = tick /\ tick' \in Ticks /\ tick <= tick'
      /\ r.cutoff <= tick' /\ r.before \subseteq 1 .. tick'
      /\ r.kind \in {"approve", "decline", "redeem"} => r.row # 0
  BY ClockCounts DEF IInv, AccountInv, Stamped
<1>3. RequestInv'
  BY <1>2, OneGoesOn
<1> QED BY <1>1, <1>3 DEF IInv

LEMMA ReadsKeepInv ==
  ASSUME AccountsAssumption, IInv, NEW p \in Procs
  PROVE  /\ ReadToLogin(p) \/ ReadToMintKey(p) \/ ReadToRevokeKey(p) => IInv'
         /\ ReadToAsk(p) \/ ReadToApprove(p) \/ ReadToDecline(p) => IInv'
         /\ ReadToPost(p) \/ ReadToConfirm(p) \/ ReadToOverride(p) => IInv'
<1>1. ASSUME NEW kind \in Kinds, NEW seen \in User, NEW row \in Rows \cup {0},
             kind \in {"approve", "decline", "redeem"} => row # 0,
             Read(p, kind, seen, row)
      PROVE  IInv'
  <2> DEFINE r == [Idle EXCEPT !.kind = kind, !.seen = seen, !.row = row]
  <2>1. r \in Request /\ r.kind = kind /\ r.row = row /\ r.cutoff = 0 /\ r.before = {}
    BY IdleIsRequest DEF Request, Idle
  <2>2. Stamped(r)
    BY <1>1, <2>1, ClockCounts DEF Stamped, IInv, AccountInv
  <2> QED BY <1>1, <2>1, <2>2, ReadKeepsInv DEF Read
<1>2. user \in User /\ Idle.seen \in User
  BY ClockCounts DEF IInv, AccountInv, Idle, Registered, User
<1> QED BY <1>1, <1>2, LiveRequestIsRow
        DEF ReadToLogin, ReadToMintKey, ReadToRevokeKey, ReadToAsk, ReadToApprove,
            ReadToDecline, ReadToPost, ReadToConfirm, ReadToOverride, Kinds

LEMMA EndingsKeepInv ==
  ASSUME AccountsAssumption, IInv, NEW p \in Procs
  PROVE  /\ \A kind \in Endings : ReadToEnd(p, kind) => IInv'
         /\ StampCutoff(p) => IInv'
         /\ CommitEnding(p) => IInv'
<1>0. /\ req \in [Procs -> Request] /\ Stamped(req[p]) /\ user \in User /\ tick \in Ticks
      /\ tick \in Nat
  BY ClockCounts DEF IInv, AccountInv, RequestInv
<1>1. ASSUME NEW kind \in Endings, ReadToEnd(p, kind) PROVE IInv'
  <2> DEFINE row == IF kind = "redeem" THEN LiveRequest ELSE 0
             r == [Idle EXCEPT !.kind = kind, !.seen = user, !.row = row,
                               !.before = HandedOut]
  <2>1. HandedOut \subseteq 1 .. tick
    <3>1. user.key \in Nat /\ user.key <= tick
      BY <1>0, ClockCounts DEF IInv, AccountInv, User
    <3>2. {user.key} \ {0} \subseteq 1 .. tick
      BY <1>0, <3>1
    <3>3. {s.iat : s \in sessions} \subseteq 1 .. tick
      BY DEF IInv, AccountInv
    <3> QED BY <3>2, <3>3 DEF HandedOut
  <2>2. row \in Rows \cup {0} /\ (kind = "redeem" => row # 0)
    BY <1>1, LiveRequestIsRow DEF ReadToEnd, Redeemable
  <2>3. HandedOut \subseteq Ticks
    BY <1>0, <2>1, ClockCounts DEF Ticks, AccountsAssumption
  <2>4. /\ r \in Request /\ r.kind = kind /\ r.row = row /\ r.cutoff = 0
        /\ r.before = HandedOut
    BY <1>0, <2>2, <2>3, IdleIsRequest DEF Request, Idle, Endings, Kinds
  <2>5. Stamped(r)
    BY <1>0, <1>1, <2>1, <2>2, <2>4 DEF Stamped, Endings
  <2> QED BY <1>1, <2>4, <2>5, ReadKeepsInv DEF ReadToEnd
<1>2. ASSUME StampCutoff(p) PROVE IInv'
  <2> DEFINE r == [req[p] EXCEPT !.cutoff = tick']
  <2>1. tick' \in Ticks /\ tick' = tick + 1 /\ tick' \in Nat
    BY <1>0, <1>2, ClockTicks, ClockCounts DEF StampCutoff
  <2>2. /\ r \in Request /\ r.kind = req[p].kind /\ r.row = req[p].row
        /\ r.cutoff = tick' /\ r.before = req[p].before
    BY <1>0, <2>1 DEF Request
  <2>3. /\ r.before \subseteq 1 .. tick'
        /\ r.kind \in {"approve", "decline", "redeem"} => r.row # 0
    BY <1>0, <2>1, <2>2 DEF Stamped
  <2>4. RequestInv'
    <3>1. req' = [req EXCEPT ![p] = r]
      BY <1>2 DEF StampCutoff
    <3>2. tick <= tick' /\ r.cutoff <= tick'
      BY <1>0, <2>1, <2>2
    <3> HIDE DEF r
    <3> QED BY <2>1, <2>2, <2>3, <3>1, <3>2, OneGoesOn
  <2>5. AccountInv' /\ ResetInv'
    BY <1>0, <1>2, <2>1, SameResets, ClockCounts DEF StampCutoff, IInv, AccountInv, User, Session
  <2> QED BY <2>4, <2>5 DEF IInv
<1>3. ASSUME CommitEnding(p) PROVE IInv'
  <2> DEFINE r == req[p]
             table == IF r.kind = "redeem"
                      THEN [resets EXCEPT ![r.row].state = "done", ![r.row].code = 0]
                      ELSE resets
  <2>1. RequestInv'
    BY <1>0, <1>3, OneEnds DEF CommitEnding
  <2>2. r \in Request /\ r.kind \in Endings
    BY <1>0, <1>3 DEF CommitEnding
  <2>3. table \in [Rows -> Reset]
    BY <1>0, <2>2, ClockCounts DEF Stamped, IInv, ResetInv, Reset, Request
  <2>4. CASE r.kind = "redeem" =>
               resets[r.row].state # "gone" /\ Accepted(table)
    <3>1. /\ user' = Flush(r.seen, Ending(r)) /\ resets' = table
          /\ ended' = ended \cup r.before
          /\ UNCHANGED <<tick, sessions, open>>
      BY <1>3, <2>4 DEF CommitEnding
    <3>2. /\ Ending(r) \in User /\ r.seen \in User
          /\ Ending(r).key = 0 /\ Ending(r).cutoff = r.cutoff
      BY <2>2, ClockCounts DEF Ending, Request, User
    <3>3. /\ user' \in User
          /\ user'.key \in {0, user.key} /\ user'.cutoff \in {r.cutoff, user.cutoff}
      BY <1>0, <3>1, <3>2, FlushWrites
    <3>4. AccountInv'
      BY <1>0, <3>1, <3>3 DEF IInv, AccountInv, Stamped
    <3>5. ResetInv'
      <4>1. CASE r.kind = "redeem"
        BY <2>3, <2>4, <3>1, <4>1, AcceptedResets
      <4>2. CASE r.kind # "redeem"
        BY <3>1, <4>2, SameResets DEF IInv
      <4> QED BY <4>1, <4>2
    <3> QED BY <2>1, <3>4, <3>5 DEF IInv
  <2>5. CASE ~ (r.kind = "redeem" =>
                  resets[r.row].state # "gone" /\ Accepted(table))
    <3>1. UNCHANGED <<tick, user, resets, sessions, open, ended>>
      BY <1>3, <2>5 DEF CommitEnding
    <3> QED BY <2>1, <3>1, SameResets DEF IInv, AccountInv
  <2> QED BY <2>4, <2>5
<1> QED BY <1>1, <1>2, <1>3

LEMMA CommitsKeepAccount ==
  ASSUME AccountsAssumption, IInv, NEW p \in Procs
  PROVE  /\ CommitLogin(p) \/ CommitMintKey(p) => IInv'
         /\ CommitRevokeKey(p) \/ CommitPost(p) \/ CommitConfirmed(p) => IInv'
<1>0. /\ req[p] \in Request /\ user \in User /\ tick \in Ticks /\ tick \in Nat
      /\ req[p].seen \in User
  BY ClockCounts DEF IInv, AccountInv, RequestInv, Request
<1>1. ASSUME CommitLogin(p) PROVE IInv'
  <2>1. CASE Blocked(req[p].seen)
    <3>1. UNCHANGED <<tick, user, resets, sessions, open, ended>> /\ Answer(p)
      BY <1>1, <2>1 DEF CommitLogin
    <3> QED BY <1>0, <3>1, OneEnds, SameResets DEF IInv, AccountInv
  <2>2. CASE ~ Blocked(req[p].seen)
    <3>1. /\ tick' \in Ticks /\ tick' = tick + 1 /\ Answer(p)
          /\ sessions' = sessions \cup {[iat |-> tick', under |-> req[p].seen.password]}
          /\ UNCHANGED <<user, resets, open, ended>>
      BY <1>0, <1>1, <2>2, ClockTicks DEF CommitLogin
    <3>2. [iat |-> tick', under |-> req[p].seen.password] \in Session
      BY <1>0, <3>1 DEF Session, User
    <3>3. /\ user.cutoff <= tick' /\ user.key <= tick'
          /\ 1 .. tick \subseteq 1 .. tick' /\ tick' \in 1 .. tick'
      <4>1. /\ user.cutoff \in Nat /\ user.cutoff <= tick
            /\ user.key \in Nat /\ user.key <= tick
        BY ClockCounts DEF IInv, AccountInv, User
      <4> QED BY <1>0, <3>1, <4>1
    <3>4. sessions' \subseteq Session
      BY <3>1, <3>2 DEF IInv, AccountInv
    <3>5. ASSUME NEW s \in sessions' PROVE s.iat \in 1 .. tick'
      <4>1. CASE s \in sessions
        BY <3>3, <4>1 DEF IInv, AccountInv
      <4>2. CASE s = [iat |-> tick', under |-> req[p].seen.password]
        BY <3>3, <4>2
      <4> QED BY <3>1, <4>1, <4>2
    <3>6. user' \in User /\ user' = user /\ ended' \subseteq 1 .. tick' /\ open' \in BOOLEAN
      BY <1>0, <3>1, <3>3 DEF IInv, AccountInv
    <3>7. AccountInv'
      BY <3>1, <3>3, <3>4, <3>5, <3>6 DEF AccountInv
    <3> QED BY <1>0, <3>1, <3>7, OneEnds, SameResets DEF IInv
  <2> QED BY <2>1, <2>2
<1>2. ASSUME CommitMintKey(p) PROVE IInv'
  <2>1. /\ tick' \in Ticks /\ tick' = tick + 1 /\ Answer(p)
        /\ user' = [user EXCEPT !.key = tick']
        /\ UNCHANGED <<resets, sessions, open, ended>>
    BY <1>0, <1>2, ClockTicks DEF CommitMintKey
  <2>2. user' \in User /\ user'.key = tick' /\ user'.cutoff = user.cutoff
    BY <1>0, <2>1 DEF User
  <2>3. AccountInv'
    BY <1>0, <2>1, <2>2, ClockCounts DEF IInv, AccountInv, User, Session
  <2> QED BY <1>0, <2>1, <2>3, OneEnds, SameResets DEF IInv
<1>3. ASSUME CommitRevokeKey(p) PROVE IInv'
  <2> DEFINE new == [req[p].seen EXCEPT !.key = 0]
  <2>1. new \in User /\ new.key = 0 /\ new.cutoff = req[p].seen.cutoff
    BY <1>0, ClockCounts DEF User
  <2>2. /\ user' = Flush(req[p].seen, new) /\ Answer(p)
        /\ UNCHANGED <<tick, resets, sessions, open, ended>>
    BY <1>3 DEF CommitRevokeKey
  <2>3. user' \in User /\ user'.key \in {0, user.key} /\ user'.cutoff = user.cutoff
    BY <1>0, <2>1, <2>2, FlushWrites
  <2>4. AccountInv'
    BY <1>0, <2>2, <2>3 DEF IInv, AccountInv
  <2> QED BY <1>0, <2>2, <2>4, OneEnds, SameResets DEF IInv
<1>4. ASSUME CommitPost(p) PROVE IInv'
  <2>1. /\ tick' \in Ticks /\ tick' = tick + 1 /\ Answer(p)
        /\ user' = [user EXCEPT !.code = tick', !.lapsed = FALSE]
        /\ UNCHANGED <<resets, sessions, open, ended>>
    BY <1>0, <1>4, ClockTicks DEF CommitPost
  <2>2. user' \in User /\ user'.key = user.key /\ user'.cutoff = user.cutoff
    BY <1>0, <2>1 DEF User
  <2>3. AccountInv'
    BY <1>0, <2>1, <2>2, ClockCounts DEF IInv, AccountInv, User, Session
  <2> QED BY <1>0, <2>1, <2>3, OneEnds, SameResets DEF IInv
<1>5. ASSUME CommitConfirmed(p) PROVE IInv'
  <2> DEFINE who == IF req[p].kind = "confirm" THEN "email" ELSE "admin"
             new == Confirmed(req[p].seen, who)
  <2>1. /\ new \in User /\ new.key = req[p].seen.key
        /\ new.cutoff = req[p].seen.cutoff
    BY <1>0, ClockCounts DEF User, Confirmed
  <2>2. /\ user' = Flush(req[p].seen, new) /\ Answer(p)
        /\ UNCHANGED <<tick, resets, sessions, open, ended>>
    BY <1>5 DEF CommitConfirmed
  <2>3. user' \in User /\ user'.key = user.key /\ user'.cutoff = user.cutoff
    BY <1>0, <2>1, <2>2, FlushWrites
  <2>4. AccountInv'
    BY <1>0, <2>2, <2>3 DEF IInv, AccountInv
  <2> QED BY <1>0, <2>2, <2>4, OneEnds, SameResets DEF IInv
<1> QED BY <1>1, <1>2, <1>3, <1>4, <1>5

LEMMA CommitsKeepResets ==
  ASSUME AccountsAssumption, IInv, NEW p \in Procs
  PROVE  CommitAsk(p) \/ CommitApprove(p) \/ CommitDecline(p) => IInv'
<1>0. /\ req[p] \in Request /\ Stamped(req[p]) /\ resets \in [Rows -> Reset]
      /\ tick \in Ticks /\ tick \in Nat
      /\ Gone \in Reset /\ Asked \in Reset /\ Gone.state = "gone"
  BY ClockCounts DEF IInv, AccountInv, ResetInv, RequestInv, Gone, Asked, Reset
<1>1. ASSUME CommitAsk(p) PROVE IInv'
  <2> DEFINE deleted == IF req[p].row = 0 THEN resets
                        ELSE [resets EXCEPT ![req[p].row] = Gone]
             id == NextRow(deleted)
             table == [deleted EXCEPT ![id] = Asked]
  <2>1. /\ id \in Rows /\ Answer(p)
        /\ resets' = IF Accepted(table) THEN table ELSE resets
        /\ UNCHANGED <<tick, user, sessions, open, ended>>
    BY <1>1 DEF CommitAsk
  <2>2. deleted \in [Rows -> Reset]
    BY <1>0
  <2> HIDE DEF deleted, id
  <2>3. table \in [Rows -> Reset]
    BY <1>0, <2>1, <2>2
  <2>4. ResetInv'
    <3>1. CASE Accepted(table)
      BY <2>1, <2>3, <3>1, AcceptedResets
    <3>2. CASE ~ Accepted(table)
      BY <2>1, <3>2, SameResets DEF IInv
    <3> QED BY <3>1, <3>2
  <2>5. AccountInv'
    BY <2>1 DEF IInv, AccountInv
  <2> QED BY <1>0, <2>1, <2>4, <2>5, OneEnds DEF IInv
<1>2. ASSUME CommitApprove(p) PROVE IInv'
  <2> DEFINE row == req[p].row
  <2>1. CASE resets[row].state = "gone"
    <3>1. UNCHANGED <<tick, user, resets, sessions, open, ended>> /\ Answer(p)
      BY <1>2, <2>1 DEF CommitApprove
    <3> QED BY <1>0, <3>1, OneEnds, SameResets DEF IInv, AccountInv
  <2>2. CASE resets[row].state # "gone"
    <3>1. /\ tick' \in Ticks /\ tick' = tick + 1 /\ Answer(p) /\ row \in Rows
          /\ resets' = [resets EXCEPT ![row].approved = TRUE, ![row].code = tick',
                                      ![row].lapsed = FALSE]
          /\ UNCHANGED <<user, sessions, open, ended>>
      BY <1>0, <1>2, <2>2, ClockTicks DEF CommitApprove, Serves, Stamped, Request
    <3>2. AccountInv'
      BY <1>0, <3>1, ClockCounts DEF IInv, AccountInv, User, Session
    <3>3. /\ resets' \in [Rows -> Reset]
          /\ \A r \in Rows : /\ resets'[r].state = resets[r].state
                             /\ resets[r].approved => resets'[r].approved
      BY <1>0, <3>1 DEF Reset
    <3>4. OneLiveRequest'
      BY <3>3, FewerLive DEF LiveRows, IInv, ResetInv
    <3>5. CompletedWereApproved'
      BY <3>3 DEF IInv, ResetInv, CompletedWereApproved
    <3> QED BY <1>0, <3>1, <3>2, <3>3, <3>4, <3>5, OneEnds DEF IInv, ResetInv
  <2> QED BY <2>1, <2>2
<1>3. ASSUME CommitDecline(p) PROVE IInv'
  <2>1. /\ resets' = [resets EXCEPT ![req[p].row] = Gone] /\ Answer(p)
        /\ UNCHANGED <<tick, user, sessions, open, ended>>
    BY <1>3 DEF CommitDecline
  <2>2. /\ resets' \in [Rows -> Reset]
        /\ \A r \in Rows : resets'[r] \in {resets[r], Gone}
    BY <1>0, <2>1
  <2>3. OneLiveRequest'
    BY <1>0, <2>2, FewerLive DEF LiveRows, IInv, ResetInv
  <2>4. CompletedWereApproved'
    BY <1>0, <2>2 DEF IInv, ResetInv, CompletedWereApproved
  <2>5. AccountInv'
    BY <2>1 DEF IInv, AccountInv
  <2> QED BY <1>0, <2>1, <2>2, <2>3, <2>4, <2>5, OneEnds DEF IInv, ResetInv
<1> QED BY <1>1, <1>2, <1>3

(* Time passes, and the admin opens or closes the library. *)
LEMMA TheRestKeepsInv ==
  ASSUME AccountsAssumption, IInv
  PROVE  /\ \A r \in Rows : ResetLapses(r) => IInv'
         /\ CodeLapses \/ SetOpen => IInv'
<1>0. UNCHANGED <<tick, req>> => RequestInv'
  BY DEF IInv, RequestInv, Stamped
<1>1. ASSUME NEW r \in Rows, ResetLapses(r) PROVE IInv'
  <2>1. /\ resets' \in [Rows -> Reset]
        /\ \A q \in Rows : /\ resets'[q].state = resets[q].state
                           /\ resets'[q].approved = resets[q].approved
    BY <1>1 DEF ResetLapses, IInv, ResetInv, Reset
  <2>2. OneLiveRequest'
    BY <2>1, FewerLive DEF LiveRows, IInv, ResetInv
  <2>3. CompletedWereApproved'
    BY <2>1 DEF IInv, ResetInv, CompletedWereApproved
  <2>4. AccountInv'
    BY <1>1 DEF ResetLapses, IInv, AccountInv
  <2> QED BY <1>0, <1>1, <2>1, <2>2, <2>3, <2>4 DEF ResetLapses, IInv, ResetInv
<1>2. ASSUME CodeLapses PROVE IInv'
  <2>1. user' \in User /\ user'.key = user.key /\ user'.cutoff = user.cutoff
    BY <1>2 DEF CodeLapses, IInv, AccountInv, User
  <2> QED BY <1>0, <1>2, <2>1, SameResets DEF CodeLapses, IInv, AccountInv
<1>3. ASSUME SetOpen PROVE IInv'
  BY <1>0, <1>3, SameResets DEF SetOpen, IInv, AccountInv
<1> QED BY <1>1, <1>2, <1>3

LEMMA StepInv == ASSUME AccountsAssumption, IInv, [Next]_vars PROVE IInv'
<1>1. ASSUME NEW p \in Procs, Serve(p) PROVE IInv'
  BY <1>1, ReadsKeepInv, EndingsKeepInv, CommitsKeepAccount, CommitsKeepResets DEF Serve
<1>2. ASSUME UNCHANGED vars PROVE IInv'
  BY <1>2, SameResets DEF vars, IInv, AccountInv, RequestInv, Stamped
<1> QED BY <1>1, <1>2, TheRestKeepsInv DEF Next

(* What the three theorems below rest on. *)
THEOREM Inductive == ASSUME AccountsAssumption PROVE Spec => []IInv
BY InitInv, StepInv, PTL DEF Spec

(* Every variable keeps its type. *)
THEOREM TypesHold == ASSUME AccountsAssumption PROVE Spec => []TypeOK
<1>1. IInv => TypeOK
  BY DEF IInv, AccountInv, ResetInv, RequestInv, TypeOK, Request, Stamped
<1> QED BY Inductive, <1>1, PTL

(* request_password_reset and uq_password_reset_requests_live: however     *)
(* requests, approvals, refusals and redemptions overlap, an account has   *)
(* one live request at most.                                               *)
THEOREM OneLiveRequestHolds == ASSUME AccountsAssumption PROVE Spec => []OneLiveRequest
<1>1. IInv => OneLiveRequest
  BY DEF IInv, ResetInv
<1> QED BY Inductive, <1>1, PTL

(* redeem_reset: whatever became of the request it read, the one it        *)
(* completes was approved.                                                 *)
THEOREM CompletedWereApprovedHolds ==
  ASSUME AccountsAssumption PROVE Spec => []CompletedWereApproved
<1>1. IInv => CompletedWereApproved
  BY DEF IInv, ResetInv
<1> QED BY Inductive, <1>1, PTL

----------------------------------------------------------------------------
(* The end of every session *)

(* One thread ends sessions: two endings at once could commit in another   *)
(* order than they stamped.                                                *)
OneEnder == \A p, q \in Enders : p = q

(* An ending under way will write a cutoff later than all it ends, over    *)
(* the cutoff it loaded; and a key it ends is the one it loaded.           *)
WillEnd(r) ==
  /\ r.seen.cutoff = user.cutoff
  /\ r.cutoff # 0 => user.cutoff < r.cutoff /\ \A t \in r.before : t < r.cutoff
  /\ user.key \in r.before => r.seen.key = user.key

EndedInv ==
  /\ \A t \in ended : t < user.cutoff /\ t # user.key
  /\ \A p \in Procs : req[p].kind \in Endings => p \in Enders /\ WillEnd(req[p])

LEMMA EndedStep ==
  ASSUME AccountsAssumption, OneEnder, IInv, EndedInv, [Next]_vars PROVE EndedInv'
<1>0. /\ req \in [Procs -> Request] /\ user \in User /\ tick \in Nat /\ tick \in Ticks
      /\ user.cutoff \in Nat /\ user.key \in Nat /\ Endings \subseteq Kinds
      /\ user.cutoff <= tick /\ user.key <= tick /\ ended \subseteq 1 .. tick
      /\ \A p \in Procs : Stamped(req[p]) /\ req[p].before \subseteq 1 .. tick
  BY ClockCounts DEF IInv, AccountInv, RequestInv, User, Stamped, Endings, Kinds
<1>1. Idle.kind \notin Endings
  BY DEF Idle, Endings
(* Whatever is not an ending leaves the cutoff, and the key is dropped or new. *)
<1>2. ASSUME NEW p \in Procs, NEW r, req' = [req EXCEPT ![p] = r],
             r.kind \notin Endings, user'.cutoff = user.cutoff,
             \/ user'.key \in {0, user.key}
             \/ user'.key \in Nat /\ user'.key > tick,
             UNCHANGED ended
      PROVE  EndedInv'
  <2>1. \A t \in ended : t < user'.cutoff /\ t # user'.key
    BY <1>0, <1>2 DEF EndedInv
  <2>2. ASSUME NEW q \in Procs, req'[q].kind \in Endings
        PROVE  q \in Enders /\ WillEnd(req[q])'
    <3>1. req'[q] = req[q] /\ req[q].kind \in Endings
      BY <1>0, <1>2, <2>2
    <3>2. q \in Enders /\ WillEnd(req[q]) /\ req[q].before \subseteq 1 .. tick
      BY <1>0, <3>1 DEF EndedInv
    <3>3. user'.key \in req[q].before => user'.key = user.key
      BY <1>0, <1>2, <3>2
    <3> QED BY <1>2, <3>1, <3>2, <3>3 DEF WillEnd
  <2> QED BY <1>2, <2>1, <2>2 DEF EndedInv
<1>3. ASSUME NEW p \in Procs, NEW kind \in Endings, ReadToEnd(p, kind) PROVE EndedInv'
  <2> DEFINE row == IF kind = "redeem" THEN LiveRequest ELSE 0
             r == [Idle EXCEPT !.kind = kind, !.seen = user, !.row = row,
                               !.before = HandedOut]
  <2>1. /\ p \in Enders /\ req[p].kind = "idle" /\ req' = [req EXCEPT ![p] = r]
        /\ UNCHANGED <<user, ended>>
    BY <1>3 DEF ReadToEnd, Serves
  <2>2. r.seen = user /\ r.cutoff = 0
    BY DEF Idle
  <2> HIDE DEF r
  <2>3. \A t \in ended : t < user'.cutoff /\ t # user'.key
    BY <2>1 DEF EndedInv
  <2>4. ASSUME NEW q \in Procs, req'[q].kind \in Endings
        PROVE  q \in Enders /\ WillEnd(req[q])'
    <3>1. CASE q = p
      <4>1. req'[q] = r
        BY <1>0, <2>1, <3>1
      <4> QED BY <2>1, <2>2, <3>1, <4>1 DEF WillEnd
    <3>2. CASE q # p
      <4>1. req'[q] = req[q]
        BY <1>0, <2>1, <3>2
      <4> QED BY <2>1, <2>4, <3>2, <4>1 DEF EndedInv, OneEnder
    <3> QED BY <3>1, <3>2
  <2> QED BY <2>1, <2>3, <2>4 DEF EndedInv
<1>4. ASSUME NEW p \in Procs, StampCutoff(p) PROVE EndedInv'
  <2> DEFINE r == [req[p] EXCEPT !.cutoff = tick']
  <2>1. /\ req[p].kind \in Endings /\ req' = [req EXCEPT ![p] = r]
        /\ tick' = tick + 1
        /\ UNCHANGED <<user, ended>>
    BY <1>0, <1>4, ClockTicks DEF StampCutoff
  <2>2. p \in Enders /\ WillEnd(req[p])
    BY <2>1 DEF EndedInv
  <2>3. r.seen = req[p].seen /\ r.before = req[p].before /\ r.cutoff = tick'
    BY <1>0 DEF Request
  <2> HIDE DEF r
  <2>4. ASSUME NEW q \in Procs, req'[q].kind \in Endings
        PROVE  q \in Enders /\ WillEnd(req[q])'
    <3>1. CASE q = p
      <4>1. req'[q] = r
        BY <1>0, <2>1, <3>1
      <4>2. /\ req'[q].seen = req[p].seen /\ req'[q].before = req[p].before
            /\ req'[q].cutoff = tick'
        BY <2>3, <4>1
      <4>3. \A t \in req[p].before : t < tick'
        BY <1>0, <2>1
      <4>4. user.cutoff < tick'
        BY <1>0, <2>1
      <4> QED BY <2>1, <2>2, <3>1, <4>2, <4>3, <4>4 DEF WillEnd
    <3>2. CASE q # p
      <4>1. req'[q] = req[q]
        BY <1>0, <2>1, <3>2
      <4> QED BY <2>2, <2>4, <3>2, <4>1 DEF EndedInv, OneEnder
    <3> QED BY <3>1, <3>2
  <2> QED BY <2>1, <2>4 DEF EndedInv
<1>5. ASSUME NEW p \in Procs, CommitEnding(p) PROVE EndedInv'
  <2> DEFINE r == req[p]
             kept == r.kind = "redeem" =>
                       /\ resets[r.row].state # "gone"
                       /\ Accepted([resets EXCEPT ![r.row].state = "done",
                                                  ![r.row].code = 0])
  <2>1. /\ r.kind \in Endings /\ r.cutoff # 0 /\ req' = [req EXCEPT ![p] = Idle]
        /\ kept => user' = Flush(r.seen, Ending(r)) /\ ended' = ended \cup r.before
        /\ ~ kept => UNCHANGED <<user, ended>>
    BY <1>5 DEF CommitEnding, Answer
  <2>2. p \in Enders /\ WillEnd(r)
    BY <2>1 DEF EndedInv
  <2>3. ASSUME NEW q \in Procs PROVE req'[q].kind \notin Endings
    <3>1. CASE q = p
      BY <1>0, <1>1, <2>1, <3>1
    <3>2. CASE q # p
      BY <1>0, <2>1, <2>2, <3>2 DEF EndedInv, OneEnder
    <3> QED BY <3>1, <3>2
  <2>4. CASE kept
    <3>1. /\ Ending(r) \in User /\ r.seen \in User
          /\ Ending(r).key = 0 /\ Ending(r).cutoff = r.cutoff
      BY <1>0, ClockCounts DEF Ending, Request, User
    <3>2. /\ user'.cutoff = r.cutoff
          /\ user'.key = IF r.seen.key # 0 THEN 0 ELSE user.key
      <4>1. r.cutoff \in Nat /\ r.cutoff # r.seen.cutoff
        BY <1>0, <2>1, <2>2, ClockCounts DEF WillEnd, Request
      <4> QED BY <1>0, <2>1, <2>4, <3>1, <4>1, FlushWrites
    <3>3. ASSUME NEW t \in ended' PROVE t < user'.cutoff /\ t # user'.key
      <4>1. t \in 1 .. tick
        BY <1>0, <2>1, <2>4, <3>3
      <4>2. r.cutoff \in Nat /\ user.cutoff < r.cutoff
        BY <1>0, <2>1, <2>2, ClockCounts DEF WillEnd, Request
      <4>3. CASE t \in ended
        BY <1>0, <3>2, <4>1, <4>2, <4>3 DEF EndedInv
      <4>4. CASE t \in r.before
        BY <1>0, <2>1, <2>2, <3>2, <4>1, <4>4 DEF WillEnd
      <4> QED BY <2>1, <2>4, <4>3, <4>4
    <3> QED BY <2>3, <3>3 DEF EndedInv
  <2>5. CASE ~ kept
    BY <2>1, <2>3, <2>5 DEF EndedInv
  <2> QED BY <2>4, <2>5
(* The other reads touch no row, and the other commits no cutoff.          *)
<1>6. ASSUME NEW p \in Procs, NEW kind \in Kinds \ Endings, NEW seen, NEW row,
             Read(p, kind, seen, row)
      PROVE  EndedInv'
  <2> DEFINE r == [Idle EXCEPT !.kind = kind, !.seen = seen, !.row = row]
  <2>1. r.kind = kind
    BY DEF Idle
  <2>2. /\ req' = [req EXCEPT ![p] = r] /\ UNCHANGED ended
        /\ user'.cutoff = user.cutoff /\ user'.key = user.key
    BY <1>6 DEF Read
  <2> HIDE DEF r
  <2> QED BY <1>2, <2>1, <2>2
<1>7. ASSUME NEW p \in Procs, Answer(p), user'.cutoff = user.cutoff, UNCHANGED ended,
             \/ user'.key \in {0, user.key}
             \/ user'.key \in Nat /\ user'.key > tick
      PROVE  EndedInv'
  BY <1>1, <1>2, <1>7 DEF Answer
<1>8. ASSUME NEW p \in Procs,
             \/ CommitLogin(p) \/ CommitAsk(p) \/ CommitApprove(p) \/ CommitDecline(p)
      PROVE  EndedInv'
  BY <1>7, <1>8 DEF CommitLogin, CommitAsk, CommitApprove, CommitDecline
<1>9. ASSUME NEW p \in Procs, CommitMintKey(p) \/ CommitPost(p) PROVE EndedInv'
  <2>1. /\ tick' = tick + 1 /\ Answer(p) /\ UNCHANGED ended
        /\ user' \in {[user EXCEPT !.key = tick'],
                      [user EXCEPT !.code = tick', !.lapsed = FALSE]}
    BY <1>0, <1>9, ClockTicks DEF CommitMintKey, CommitPost
  <2>2. user'.cutoff = user.cutoff /\ user'.key \in {user.key, tick + 1}
    BY <1>0, <2>1 DEF User
  <2> QED BY <1>0, <1>7, <2>1, <2>2
<1>10. ASSUME NEW p \in Procs, CommitRevokeKey(p) \/ CommitConfirmed(p) PROVE EndedInv'
  <2> DEFINE seen == req[p].seen
             who == IF req[p].kind = "confirm" THEN "email" ELSE "admin"
  <2>1. seen \in User
    BY <1>0 DEF Request
  <2>2. PICK new \in {[seen EXCEPT !.key = 0], Confirmed(seen, who)} :
          /\ user' = Flush(seen, new) /\ Answer(p) /\ UNCHANGED ended
    BY <1>10 DEF CommitRevokeKey, CommitConfirmed
  <2>3. new \in User /\ new.key \in {0, seen.key} /\ new.cutoff = seen.cutoff
    BY <2>1, ClockCounts DEF User, Confirmed
  <2>4. user'.cutoff = user.cutoff /\ user'.key \in {0, user.key}
    BY <1>0, <2>1, <2>2, <2>3, FlushWrites
  <2> QED BY <1>7, <2>2, <2>4
<1>11. ASSUME UNCHANGED <<req, ended>>, user'.cutoff = user.cutoff, user'.key = user.key
       PROVE  EndedInv'
  BY <1>11 DEF EndedInv, WillEnd
<1>12. ASSUME CodeLapses PROVE EndedInv'
  <2>1. user'.key = user.key /\ user'.cutoff = user.cutoff
    BY <1>0, <1>12 DEF CodeLapses, User
  <2> QED BY <1>11, <1>12, <2>1 DEF CodeLapses
<1>13. ASSUME UNCHANGED vars \/ SetOpen \/ \E r \in Rows : ResetLapses(r) PROVE EndedInv'
  BY <1>11, <1>13 DEF vars, SetOpen, ResetLapses
<1>14. ASSUME NEW p \in Procs, Serve(p) PROVE EndedInv'
  <2>1. ASSUME \/ ReadToLogin(p) \/ ReadToMintKey(p) \/ ReadToRevokeKey(p)
               \/ ReadToAsk(p) \/ ReadToApprove(p) \/ ReadToDecline(p)
               \/ ReadToPost(p) \/ ReadToConfirm(p) \/ ReadToOverride(p)
        PROVE  EndedInv'
    BY <1>6, <2>1 DEF ReadToLogin, ReadToMintKey, ReadToRevokeKey, ReadToAsk,
         ReadToApprove, ReadToDecline, ReadToPost, ReadToConfirm, ReadToOverride,
         Kinds, Endings
  <2> QED BY <1>3, <1>4, <1>5, <1>8, <1>9, <1>10, <1>14, <2>1 DEF Serve
<1> QED BY <1>12, <1>13, <1>14 DEF Next

(* end_every_session: while one thread at a time ends sessions, nothing    *)
(* handed out before opens the account again, whatever sign-ins, keys,     *)
(* confirmations and resets were under way.                                *)
THEOREM EndedStaysEndedHolds ==
  ASSUME AccountsAssumption, OneEnder PROVE Spec => []EndedStaysEnded
<1>1. Init => EndedInv
  BY DEF Init, EndedInv, Idle, Endings
<1>2. IInv /\ EndedInv => EndedStaysEnded
  <2> SUFFICES ASSUME IInv, EndedInv, NEW t \in ended PROVE ~ Opens(t)
    BY DEF EndedStaysEnded
  <2>1. t \in Nat /\ user.cutoff \in Nat /\ t < user.cutoff /\ t # user.key
    BY ClockCounts DEF IInv, AccountInv, EndedInv, User
  <2> QED BY <2>1 DEF Opens, SessionIsLive
<1> QED BY Inductive, EndedStep, <1>1, <1>2, PTL DEF Spec

=============================================================================
