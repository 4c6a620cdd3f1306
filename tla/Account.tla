------------------------------- MODULE Account -------------------------------
(***************************************************************************)
(* One member of a tenant, from the invitation to the removal: the link in *)
(* the invitation, the refresh sessions in Redis, and the change of the    *)
(* password by a mailed code, which ends all sessions.                     *)
(*                                                                         *)
(* A call of the API is a process; every await on Redis or PostgreSQL is a *)
(* step of its own.  Signatures, cookies, the text of mails and the        *)
(* password itself are left out, and so is the plan in the access token.   *)
(***************************************************************************)
EXTENDS Naturals, FiniteSets

CONSTANTS
    Call,           \* calls of the API
    MaxAttempts,    \* EMAIL_OTP_MAX_ATTEMPTS
    MaxFaults       \* bound: calls that die, invitation links that expire

ASSUME AccountAssumption == MaxAttempts \in Nat /\ MaxFaults \in Nat

VARIABLES
    user,       \* the row of the member
    live,       \* refresh:<jti>, a set of jti
    remember,   \* refresh_remember:<jti>, a set of jti
    tracked,    \* user_sessions:<user>, a set of jti
    issued,     \* the jti of the refresh tokens the member was handed
    link,       \* invite:<token>, a set of tokens
    named,      \* invite_user:<user>, a token or 0
    mailed,     \* tokens in invitations that were queued
    otp,        \* change_password_otp:<user>
    cooling,    \* change_password_resend:<user>
    made,       \* how many jti, tokens and codes were generated
    call,       \* what each call is doing
    revoked,    \* history: the sessions a change of the password ended
    missed,     \* history: those put on record between its reading and its deletion
    tried,      \* history: the envelopes a wrong answer was given to
    faults

sessionVars == <<live, remember, tracked, issued, revoked, missed>>
inviteVars == <<link, named, mailed>>
otpVars == <<otp, cooling, tried>>
vars == <<user, sessionVars, inviteVars, otpVars, made, call, faults>>

NoCode == [code |-> 0, attempts |-> 0]
Envelope == [code : Nat, attempts : Nat]
Idle == [pc |-> "idle"]
Done == [pc |-> "done"]
Op == {"login", "refresh", "logout", "send", "resend", "confirm", "invite", "reinvite",
       "accept", "remove"}
\* id: the jti, token or code the call has in hand; old: the token it replaces;
\* seen: the envelope it read; doomed: the sessions it will end.
CallState ==
    [op : Op,
     pc : {"start", "user", "del", "forget", "untrack", "key", "remember", "track",
           "cooldown", "store", "cool", "drop", "ttl", "rewrite", "consume", "password",
           "revoke", "wipe", "untrackAll", "create", "update", "find", "named",
           "dropLink", "storeLink", "name", "mail", "useLink", "unname", "member",
           "activate", "delete"},
     id : Nat, old : Nat, seen : Envelope, doomed : SUBSET Nat]
Begin(op, pc, id) ==
    [op |-> op, pc |-> pc, id |-> id, old |-> 0, seen |-> NoCode, doomed |-> {}]

TypeOK ==
    /\ user \in {"absent", "invited", "active", "removed"}
    /\ live \in SUBSET Nat /\ remember \in SUBSET Nat
    /\ tracked \in SUBSET Nat /\ issued \in SUBSET Nat
    /\ link \in SUBSET Nat /\ named \in Nat /\ mailed \in SUBSET Nat
    /\ otp \in Envelope /\ cooling \in BOOLEAN /\ tried \in SUBSET Envelope
    /\ made \in Nat /\ revoked \in SUBSET Nat /\ missed \in SUBSET Nat
    /\ call \in [Call -> {Idle, Done} \union CallState]
    /\ faults \in 0..MaxFaults

\* A member to be invited, or one at work in a browser, who may have asked for
\* a code already.
Init ==
    /\ \/ user = "absent" /\ live = {} /\ made = 0
       \/ user = "active" /\ live = {1} /\ made = 2
    /\ remember = live /\ tracked = live /\ issued = live
    /\ link = {} /\ named = 0 /\ mailed = {}
    /\ otp \in {NoCode} \union {[code |-> 2, attempts |-> 0] : j \in live}
    /\ cooling = (otp # NoCode)
    /\ call = [c \in Call |-> Idle]
    /\ revoked = {} /\ missed = {} /\ tried = {} /\ faults = 0

At(c, pc) == call[c].pc = pc
Go(c, pc) == call' = [call EXCEPT ![c].pc = pc]
Finish(c) == call' = [call EXCEPT ![c] = Done]
GoOr(c, ok, pc) == IF ok THEN Go(c, pc) ELSE Finish(c)
Start(c, op, pc, id) ==
    call[c] = Idle /\ call' = [call EXCEPT ![c] = Begin(op, pc, id)]

-----------------------------------------------------------------------------
(* TokenService                                                            *)

Elsewhere == <<user, inviteVars, otpVars, faults>>

\* Mutant: a rotated session keeps its jti.
SetKeyAgain(c) ==
    LET id == IF call[c].op = "refresh" THEN call[c].id ELSE made + 1
    IN  /\ At(c, "key")
        /\ made' = made + 1 /\ live' = live \union {id}
        /\ call' = [call EXCEPT ![c].pc = "remember", ![c].id = id]
        /\ UNCHANGED <<Elsewhere, remember, tracked, issued, revoked, missed>>
\* issueTokens, with a new jti.
SetKey(c) ==
    /\ At(c, "key")
    /\ made' = made + 1 /\ live' = live \union {made'}
    /\ call' = [call EXCEPT ![c].pc = "remember", ![c].id = made']
    /\ UNCHANGED <<Elsewhere, remember, tracked, issued, revoked, missed>>

SetRemember(c) ==
    /\ At(c, "remember")
    /\ remember' = remember \union {call[c].id}
    /\ Go(c, "track")
    /\ UNCHANGED <<Elsewhere, made, live, tracked, issued, revoked, missed>>

\* Mutant: SET in place of SADD.
TrackAlone(c) ==
    /\ At(c, "track")
    /\ tracked' = {call[c].id}
    /\ issued' = issued \union {call[c].id}
    /\ Finish(c)
    /\ UNCHANGED <<Elsewhere, made, live, remember, revoked, missed>>
Track(c) ==
    /\ At(c, "track")
    /\ tracked' = tracked \union {call[c].id}
    /\ issued' = issued \union {call[c].id}
    /\ Finish(c)
    /\ UNCHANGED <<Elsewhere, made, live, remember, revoked, missed>>

\* login: the member exists and has verified its address.
StartLogin(c) ==
    /\ Start(c, "login", "start", 0)
    /\ UNCHANGED <<Elsewhere, made, sessionVars>>
Login(c) ==
    /\ At(c, "start") /\ call[c].op = "login"
    /\ GoOr(c, user = "active", "key")
    /\ UNCHANGED <<Elsewhere, made, sessionVars>>

\* refresh, with any token the member was handed, whatever has become of it.
StartRefresh(c) ==
    /\ \E j \in issued : Start(c, "refresh", "start", j)
    /\ UNCHANGED <<Elsewhere, made, sessionVars>>
Refresh(c) ==
    /\ At(c, "start") /\ call[c].op = "refresh"
    /\ GoOr(c, call[c].id \in live, "user")
    /\ UNCHANGED <<Elsewhere, made, sessionVars>>
FindUser(c) ==
    /\ At(c, "user")
    /\ GoOr(c, user # "removed", "del")
    /\ UNCHANGED <<Elsewhere, made, sessionVars>>

\* The three deletions of refresh and logout, in this order.
DelKey(c) ==
    /\ At(c, "del")
    /\ live' = live \ {call[c].id}
    /\ Go(c, "forget")
    /\ UNCHANGED <<Elsewhere, made, remember, tracked, issued, revoked, missed>>
DelRemember(c) ==
    /\ At(c, "forget")
    /\ remember' = remember \ {call[c].id}
    /\ Go(c, "untrack")
    /\ UNCHANGED <<Elsewhere, made, live, tracked, issued, revoked, missed>>
Untrack(c) ==
    /\ At(c, "untrack")
    /\ tracked' = tracked \ {call[c].id}
    /\ GoOr(c, call[c].op = "refresh", "key")
    /\ UNCHANGED <<Elsewhere, made, live, remember, issued, revoked, missed>>

\* logout takes any token whose signature holds.
StartLogout(c) ==
    /\ \E j \in issued : Start(c, "logout", "del", j)
    /\ UNCHANGED <<Elsewhere, made, sessionVars>>

\* revokeAllRefreshTokens: the set is read, and then a pipeline, which is no
\* transaction, deletes the keys of its members and the set.
Revoke(c) ==
    /\ At(c, "revoke")
    /\ IF tracked = {} THEN Finish(c)
       ELSE call' = [call EXCEPT ![c].pc = "wipe", ![c].doomed = tracked]
    /\ UNCHANGED <<Elsewhere, made, sessionVars>>
Wipe(c) ==
    LET doomed == call[c].doomed
    IN  /\ At(c, "wipe")
        /\ live' = live \ doomed /\ remember' = remember \ doomed
        /\ revoked' = revoked \union doomed
        /\ Go(c, "untrackAll")
        /\ UNCHANGED <<Elsewhere, made, tracked, issued, missed>>
UntrackAll(c) ==
    /\ At(c, "untrackAll")
    /\ tracked' = {} /\ missed' = missed \union (tracked \ call[c].doomed)
    /\ Finish(c)
    /\ UNCHANGED <<Elsewhere, made, live, remember, issued, revoked>>

\* A key of the refresh token runs out; the set of the sessions lives longer.
SessionExpires(j) ==
    /\ faults < MaxFaults /\ faults' = faults + 1
    /\ j \in live /\ live' = live \ {j} /\ remember' = remember \ {j}
    /\ UNCHANGED <<user, tracked, issued, revoked, missed, inviteVars, otpVars, made, call>>

SessionNext(c) ==
    \/ SetKey(c) \/ SetRemember(c) \/ Track(c)
    \/ StartLogin(c) \/ Login(c)
    \/ StartRefresh(c) \/ Refresh(c) \/ FindUser(c)
    \/ StartLogout(c) \/ DelKey(c) \/ DelRemember(c) \/ Untrack(c)
    \/ Revoke(c) \/ Wipe(c) \/ UntrackAll(c)

-----------------------------------------------------------------------------
(* OtpFlowService, for the change of the password                          *)

Around == <<user, inviteVars, sessionVars, faults>>

\* requestChangePassword; resendChangePasswordOtp takes up the payload of the
\* code before.
StartSend(c) ==
    /\ \E op \in {"send", "resend"} : Start(c, op, "start", 0)
    /\ UNCHANGED <<Around, otpVars, made>>
Send(c) ==
    /\ At(c, "start")
    /\ \/ call[c].op = "send" /\ GoOr(c, user = "active", "cooldown")
       \/ call[c].op = "resend" /\ GoOr(c, otp # NoCode, "cooldown")
    /\ UNCHANGED <<Around, otpVars, made>>
AssertResendAllowed(c) ==
    /\ At(c, "cooldown")
    /\ GoOr(c, ~cooling, "store")
    /\ UNCHANGED <<Around, otpVars, made>>
StoreCode(c) ==
    /\ At(c, "store")
    /\ made' = made + 1 /\ otp' = [code |-> made', attempts |-> 0]
    /\ Go(c, "cool")
    /\ UNCHANGED <<Around, cooling, tried>>
\* The mail with the code is queued last; what becomes of it is left out.
Cool(c) ==
    /\ At(c, "cool")
    /\ cooling' = TRUE
    /\ Finish(c)
    /\ UNCHANGED <<Around, otp, tried, made>>

\* verify, with the right code or a wrong one.
StartConfirm(c) ==
    /\ Start(c, "confirm", "start", 0)
    /\ UNCHANGED <<Around, otpVars, made>>
Verify(c) ==
    /\ At(c, "start") /\ call[c].op = "confirm"
    /\ IF otp = NoCode THEN Finish(c) /\ UNCHANGED tried
       ELSE \E right \in BOOLEAN :
                LET pc == IF otp.attempts >= MaxAttempts THEN "drop"
                          ELSE IF right THEN "consume" ELSE "ttl"
                IN  /\ call' = [call EXCEPT ![c].pc = pc, ![c].seen = otp]
                    /\ tried' = IF pc = "ttl" THEN tried \union {otp} ELSE tried
    /\ UNCHANGED <<Around, otp, cooling, made>>
DropCode(c) ==
    /\ At(c, "drop")
    /\ otp' = NoCode
    /\ Finish(c)
    /\ UNCHANGED <<Around, cooling, tried, made>>
\* Only a key that still has time to live is written again.
Ttl(c) ==
    /\ At(c, "ttl")
    /\ GoOr(c, otp # NoCode, "rewrite")
    /\ UNCHANGED <<Around, otpVars, made>>
\* Mutant: the count of whatever envelope is stored by now goes up, as HINCRBY
\* would do it.
CountThere(c) ==
    /\ At(c, "rewrite")
    /\ otp' = IF otp = NoCode THEN otp ELSE [otp EXCEPT !.attempts = @ + 1]
    /\ Finish(c)
    /\ UNCHANGED <<Around, cooling, tried, made>>
\* The envelope that was read is written, over whatever is stored by now.
CountAttempt(c) ==
    /\ At(c, "rewrite")
    /\ otp' = [call[c].seen EXCEPT !.attempts = @ + 1]
    /\ Finish(c)
    /\ UNCHANGED <<Around, cooling, tried, made>>
Consume(c) ==
    /\ At(c, "consume")
    /\ otp' = NoCode
    /\ Go(c, "password")
    /\ UNCHANGED <<Around, cooling, tried, made>>

\* confirmChangePassword: the update of a removed member throws.
WritePassword(c) ==
    /\ At(c, "password")
    /\ GoOr(c, user # "removed", "revoke")
    /\ UNCHANGED <<Around, otpVars, made>>

OtpExpires ==
    /\ otp # NoCode /\ otp' = NoCode
    /\ UNCHANGED <<Around, cooling, tried, made, call>>
CooldownExpires ==
    /\ cooling /\ cooling' = FALSE
    /\ UNCHANGED <<Around, otp, tried, made, call>>

OtpNext(c) ==
    \/ StartSend(c) \/ Send(c) \/ AssertResendAllowed(c) \/ StoreCode(c) \/ Cool(c)
    \/ StartConfirm(c) \/ Verify(c) \/ DropCode(c) \/ Ttl(c) \/ CountAttempt(c)
    \/ Consume(c) \/ WritePassword(c)

-----------------------------------------------------------------------------
(* TeamService and TeamInviteService                                       *)

Apart == <<sessionVars, otpVars, faults>>

\* invite; resendInvite asks for a member who has not activated the account.
\* The address of a removed member is invited as a new member, not this one.
StartInvite(c) ==
    /\ \E op \in {"invite", "reinvite"} : Start(c, op, "start", 0)
    /\ UNCHANGED <<Apart, user, inviteVars, made>>
Invite(c) ==
    /\ At(c, "start")
    /\ \/ /\ call[c].op = "invite"
          /\ CASE user = "absent" -> Go(c, "create")
               [] user = "invited" -> Go(c, "update")
               [] OTHER -> Finish(c)
       \/ /\ call[c].op = "reinvite"
          /\ GoOr(c, user = "invited", "find")
    /\ UNCHANGED <<Apart, user, inviteVars, made>>
\* The address is unique: the second insert throws.
CreateMember(c) ==
    /\ At(c, "create")
    /\ IF user = "absent" THEN user' = "invited" /\ Go(c, "find")
       ELSE Finish(c) /\ UNCHANGED user
    /\ UNCHANGED <<Apart, inviteVars, made>>
UpdateMember(c) ==
    /\ At(c, "update")
    /\ GoOr(c, user # "removed", "find")
    /\ UNCHANGED <<Apart, user, inviteVars, made>>
SendInvite(c) ==
    /\ At(c, "find")
    /\ GoOr(c, user = "invited", "named")
    /\ UNCHANGED <<Apart, user, inviteVars, made>>

\* createToken
ExistingToken(c) ==
    /\ At(c, "named")
    /\ call' = [call EXCEPT ![c].old = named,
                            ![c].pc = IF named = 0 THEN "storeLink" ELSE "dropLink"]
    /\ UNCHANGED <<Apart, user, inviteVars, made>>
DropLink(c) ==
    /\ At(c, "dropLink")
    /\ link' = link \ {call[c].old}
    /\ Go(c, "storeLink")
    /\ UNCHANGED <<Apart, user, named, mailed, made>>
StoreLink(c) ==
    /\ At(c, "storeLink")
    /\ made' = made + 1 /\ link' = link \union {made'}
    /\ call' = [call EXCEPT ![c].pc = "name", ![c].id = made']
    /\ UNCHANGED <<Apart, user, named, mailed>>
NameLink(c) ==
    /\ At(c, "name")
    /\ named' = call[c].id
    /\ Go(c, "mail")
    /\ UNCHANGED <<Apart, user, link, mailed, made>>
\* Mutant: whatever other link there is goes once the mail is queued.
MailOnlyLink(c) ==
    /\ At(c, "mail")
    /\ mailed' = mailed \union {call[c].id}
    /\ link' = link \cap {call[c].id}
    /\ Finish(c)
    /\ UNCHANGED <<Apart, user, named, made>>
MailLink(c) ==
    /\ At(c, "mail")
    /\ mailed' = mailed \union {call[c].id}
    /\ Finish(c)
    /\ UNCHANGED <<Apart, user, link, named, made>>

\* acceptInvite, with a link that was mailed.
StartAccept(c) ==
    /\ \E t \in mailed : Start(c, "accept", "start", t)
    /\ UNCHANGED <<Apart, user, inviteVars, made>>
Accept(c) ==
    /\ At(c, "start") /\ call[c].op = "accept"
    /\ GoOr(c, call[c].id \in link, "useLink")
    /\ UNCHANGED <<Apart, user, inviteVars, made>>
UseLink(c) ==
    /\ At(c, "useLink")
    /\ link' = link \ {call[c].id}
    /\ Go(c, "unname")
    /\ UNCHANGED <<Apart, user, named, mailed, made>>
Unname(c) ==
    /\ At(c, "unname")
    /\ named' = 0
    /\ Go(c, "member")
    /\ UNCHANGED <<Apart, user, link, mailed, made>>
FindMember(c) ==
    /\ At(c, "member")
    /\ GoOr(c, user = "invited", "activate")
    /\ UNCHANGED <<Apart, user, inviteVars, made>>
\* The update of a removed member throws; issueTokens follows.
Activate(c) ==
    /\ At(c, "activate")
    /\ IF user = "removed" THEN Finish(c) /\ UNCHANGED user
       ELSE user' = "active" /\ Go(c, "key")
    /\ UNCHANGED <<Apart, inviteVars, made>>

\* removeMember; the sessions and links of the member stay behind.
StartRemove(c) ==
    /\ Start(c, "remove", "start", 0)
    /\ UNCHANGED <<Apart, user, inviteVars, made>>
Remove(c) ==
    /\ At(c, "start") /\ call[c].op = "remove"
    /\ GoOr(c, user \in {"invited", "active"}, "delete")
    /\ UNCHANGED <<Apart, user, inviteVars, made>>
\* Mutant: the row stays, disabled.
DisableMember(c) ==
    /\ At(c, "delete")
    /\ user' = "disabled"
    /\ Finish(c)
    /\ UNCHANGED <<Apart, inviteVars, made>>
DeleteMember(c) ==
    /\ At(c, "delete")
    /\ user' = "removed"
    /\ Finish(c)
    /\ UNCHANGED <<Apart, inviteVars, made>>

LinkExpires(t) ==
    /\ faults < MaxFaults /\ faults' = faults + 1
    /\ t \in link /\ link' = link \ {t}
    /\ UNCHANGED <<user, named, mailed, sessionVars, otpVars, made, call>>

TeamNext(c) ==
    \/ StartInvite(c) \/ Invite(c) \/ CreateMember(c) \/ UpdateMember(c) \/ SendInvite(c)
    \/ ExistingToken(c) \/ DropLink(c) \/ StoreLink(c) \/ NameLink(c) \/ MailLink(c)
    \/ StartAccept(c) \/ Accept(c) \/ UseLink(c) \/ Unname(c) \/ FindMember(c)
    \/ Activate(c) \/ StartRemove(c) \/ Remove(c) \/ DeleteMember(c)

-----------------------------------------------------------------------------
(* A call that throws at Redis, PostgreSQL or the queue, or dies with its  *)
(* server, goes no further.  That also stands for the refusal of a         *)
(* suspended tenant, which comes right before issueTokens.                 *)
CallDies(c) ==
    /\ faults < MaxFaults /\ faults' = faults + 1
    /\ call[c] \notin {Idle, Done} /\ Finish(c)
    /\ UNCHANGED <<user, inviteVars, sessionVars, otpVars, made>>

Next ==
    \/ \E c \in Call : SessionNext(c) \/ OtpNext(c) \/ TeamNext(c) \/ CallDies(c)
    \/ OtpExpires \/ CooldownExpires
    \/ \E j \in live : SessionExpires(j)
    \/ \E t \in link : LinkExpires(t)

Spec == Init /\ [][Next]_vars

-----------------------------------------------------------------------------
(* Properties                                                              *)

\* A session the change of a password ended never works again: issueTokens
\* sets the key before it puts the session on record.
RevokedStayDead == revoked \cap live = {}

\* A session that works is on record, where revokeAllRefreshTokens finds it, or
\* its call is about to put it there, or it was put there after a change of the
\* password had read the record and before it deleted the record: such a
\* session stays out of reach of the next change too.
LiveIsTracked ==
    faults = 0 =>
        \A j \in live :
            \/ j \in tracked \union missed
            \/ \E c \in Call : call[c] \in CallState /\ call[c].id = j
                                 /\ call[c].pc \in {"remember", "track"}

\* When nobody is at work, a member who was sent an invitation and has not
\* accepted it holds a link that works, however the invitations overlapped.
SomeLinkWorks ==
    /\ faults = 0
    /\ user = "invited" /\ mailed # {}
    /\ \A c \in Call : call[c] \in {Idle, Done}
    => mailed \cap link # {}

\* A code is refused for wrong answers only after that many were given to it:
\* what is stored as attempts was counted up one wrong answer to this code at a
\* time, although answers race and the envelope may be an older one written back.
AttemptsAreAnswers ==
    \A n \in 0..MaxAttempts : n < otp.attempts =>
        [code |-> otp.code, attempts |-> n] \in tried
=============================================================================
