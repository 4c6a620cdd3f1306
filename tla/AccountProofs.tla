---------------------------- MODULE AccountProofs ----------------------------
(***************************************************************************)
(* Proofs about Account.tla for any number of calls, attempts and faults.  *)
(***************************************************************************)
EXTENDS Account, TLAPS

USE AccountAssumption DEF At

-----------------------------------------------------------------------------
(* The inductive invariant.                                                *)

\* What holds of a call between its awaits: the sessions it has deleted stay
\* deleted, and the envelope it counts up was given a wrong answer.
Fits(r, alive, answered, top) ==
    r \in CallState =>
        /\ r.id <= top
        /\ \A j \in r.doomed : j <= top
        /\ r.pc \in {"forget", "untrack"} => r.id \notin alive
        /\ r.pc \in {"ttl", "rewrite"} => r.seen \in answered
        /\ r.pc = "untrackAll" => r.doomed \cap alive = {}
CallsFit == \A c \in Call : Fits(call[c], live, tried, made)

\* Every jti and token has been generated.
Generated ==
    \A j \in live \union tracked \union issued \union revoked \union mailed : j <= made

\* A wrong answer was given to each count of a code below the one at hand.
Answered(envelope, answered) ==
    \A n \in 0..MaxAttempts : n < envelope.attempts =>
        [code |-> envelope.code, attempts |-> n] \in answered
TriedDown ==
    \A envelope \in tried : envelope.attempts < MaxAttempts /\ Answered(envelope, tried)
CodesCounted == AttemptsAreAnswers /\ TriedDown

\* While a member is to come, a link that works was mailed or will be, or the
\* member is on the way in.
Pending(c) == call[c].pc \in {"storeLink", "unname", "member", "activate"}
InHand(c, t) == call[c].pc \in {"name", "mail"} /\ call[c].id = t
LinkKept ==
    faults = 0 /\ user = "invited" =>
        \/ mailed = {} /\ \A c \in Call : call[c].pc \notin {"name", "mail"}
        \/ \E t \in link : t \in mailed \/ \E c \in Call : InHand(c, t)
        \/ \E c \in Call : Pending(c)

\* Nobody makes a link for a member that was never invited.
AbsentFits ==
    user = "absent" =>
        /\ mailed = {}
        /\ \A c \in Call : call[c].pc \notin {"named", "dropLink", "storeLink", "name", "mail"}

IndInv ==
    /\ TypeOK /\ CallsFit /\ Generated
    /\ RevokedStayDead /\ LiveIsTracked
    /\ LinkKept /\ AbsentFits /\ CodesCounted

-----------------------------------------------------------------------------
(* A step of a call replaces its record by one that fits.                  *)

Calls == {Idle, Done} \union CallState
Moved(c, r) ==
    /\ r \in Calls /\ call' = [call EXCEPT ![c] = r]
    /\ Fits(r, live', tried', made')
Step(c) == \E r \in Calls : Moved(c, r)

LEMMA AtCall ==
    ASSUME TypeOK, NEW c \in Call, call[c].pc \notin {"idle", "done"}
    PROVE  call[c] \in CallState
  BY DEF TypeOK, Idle, Done

LEMMA Finishes ==
    ASSUME NEW c \in Call, Finish(c)
    PROVE  Step(c)
<1>1. Done \notin CallState
  BY DEF Done, CallState
<1> QED
  BY <1>1 DEF Finish, Step, Moved, Fits, Calls

\* The beginning of a call.
LEMMA Starts ==
    ASSUME IndInv, NEW c \in Call, NEW op \in Op, NEW pc \in {"start", "del"}, NEW id \in Nat,
           id <= made, made' = made, Start(c, op, pc, id)
    PROVE  Step(c)
<1> DEFINE r == Begin(op, pc, id)
<1>1. r \in CallState
  BY DEF Begin, CallState, NoCode, Envelope
<1>2. r.id = id /\ r.pc = pc /\ r.doomed = {}
  BY DEF Begin
<1>3. call' = [call EXCEPT ![c] = r]
  BY DEF Start
<1> HIDE DEF r
<1>4. Fits(r, live', tried', made')
  BY <1>2 DEF Fits
<1> QED
  BY <1>1, <1>3, <1>4 DEF Step, Moved, Calls

\* Going on where nothing new has to hold.
Plain == {"start", "user", "del", "key", "remember", "track", "cooldown", "store", "cool",
          "drop", "consume", "password", "revoke", "create", "update", "find", "named", "dropLink",
          "storeLink", "name", "mail", "useLink", "unname", "member", "activate", "delete"}
LEMMA Goes ==
    ASSUME IndInv, NEW c \in Call, call[c].pc \notin {"idle", "done"},
           NEW pc \in Plain, Go(c, pc), made' \in Nat, made <= made'
    PROVE  Step(c)
<1> DEFINE r == [call[c] EXCEPT !.pc = pc]
<1>1. call[c] \in CallState /\ made \in Nat
  BY AtCall DEF IndInv, TypeOK
<1>2. r \in CallState
  BY <1>1 DEF CallState, Plain
<1>3. /\ r.id = call[c].id /\ r.pc = pc /\ r.doomed = call[c].doomed
      /\ r.id \in Nat /\ r.doomed \subseteq Nat
  BY <1>1 DEF CallState
<1>4. call' = [call EXCEPT ![c] = r]
  BY DEF Go
<1>5. Fits(call[c], live, tried, made)
  BY DEF IndInv, CallsFit
<1> HIDE DEF r
<1>6. Fits(r, live', tried', made')
  BY <1>1, <1>3, <1>5 DEF Fits, Plain
<1> QED
  BY <1>2, <1>4, <1>6 DEF Step, Moved, Calls

\* What a step does to the sessions that other calls rely on.
SessionsFit ==
    /\ made' \in Nat /\ made <= made'
    /\ live' \subseteq live \union {made + 1} /\ \A j \in live' : j <= made'
    /\ tracked \cap live' \subseteq tracked' \union missed'
    /\ missed \subseteq missed'

LEMMA FitsStay ==
    ASSUME IndInv, SessionsFit, tried \subseteq tried', NEW r, Fits(r, live, tried, made)
    PROVE  Fits(r, live', tried', made')
<1> SUFFICES ASSUME r \in CallState
             PROVE  Fits(r, live', tried', made')
  BY DEF Fits
<1>1. /\ r.id \in Nat /\ r.doomed \subseteq Nat /\ made \in Nat
  BY DEF CallState, IndInv, TypeOK
<1>2. \A j \in {r.id} \union r.doomed : j <= made' /\ (j \in live' => j \in live)
  BY <1>1 DEF Fits, SessionsFit
<1> QED
  BY <1>2 DEF Fits, SessionsFit

LEMMA CallsStay ==
    ASSUME IndInv, NEW c \in Call, Step(c), SessionsFit, tried \subseteq tried'
    PROVE  CallsFit' /\ call' \in [Call -> Calls]
<1>1. call \in [Call -> Calls]
  BY DEF IndInv, TypeOK, Calls
<1>2. PICK r \in Calls : Moved(c, r)
  BY DEF Step
<1>3. call'[c] = r /\ \A u \in Call \ {c} : call'[u] = call[u]
  BY <1>1, <1>2 DEF Moved
<1>4. \A u \in Call : Fits(call'[u], live', tried', made')
  BY <1>2, <1>3, FitsStay DEF Moved, IndInv, CallsFit
<1> QED
  BY <1>1, <1>2, <1>4 DEF Moved, CallsFit

-----------------------------------------------------------------------------
(* The steps of OtpFlowService.                                            *)

LEMMA OtpKeepsRest ==
    ASSUME IndInv, NEW c \in Call, OtpNext(c)
    PROVE  /\ UNCHANGED Around /\ made' \in {made, made + 1}
           /\ call[c].pc \in {"idle", "start", "cooldown", "store", "cool", "drop", "ttl",
                              "rewrite", "consume", "password"}
<1>1. CASE StartSend(c) \/ StartConfirm(c)
  BY <1>1 DEF StartSend, StartConfirm, Start, Idle
<1>2. CASE Send(c) \/ AssertResendAllowed(c) \/ StoreCode(c) \/ Cool(c)
  BY <1>2 DEF Send, AssertResendAllowed, StoreCode, Cool
<1>3. CASE Verify(c) \/ DropCode(c) \/ Ttl(c) \/ CountAttempt(c)
  BY <1>3 DEF Verify, DropCode, Ttl, CountAttempt
<1>4. CASE Consume(c) \/ WritePassword(c)
  BY <1>4 DEF Consume, WritePassword
<1> QED
  BY <1>1, <1>2, <1>3, <1>4 DEF OtpNext

LEMMA CodesStay ==
    ASSUME IndInv, UNCHANGED <<otp, tried>>
    PROVE  CodesCounted'
  BY DEF IndInv, CodesCounted, AttemptsAreAnswers, TriedDown, Answered

\* A code that is new, or gone, counts nothing.
LEMMA CodesAnew ==
    ASSUME IndInv, UNCHANGED tried, otp'.attempts = 0
    PROVE  CodesCounted'
  BY DEF IndInv, CodesCounted, AttemptsAreAnswers, TriedDown, Answered

\* The code: an envelope that was read is counted up with the answer it was given.
LEMMA OtpCodes ==
    ASSUME IndInv, NEW c \in Call, OtpNext(c)
    PROVE  /\ otp' \in Envelope /\ cooling' \in BOOLEAN /\ tried' \in SUBSET Envelope
           /\ tried \subseteq tried' /\ CodesCounted'
<1>0. /\ otp \in Envelope /\ cooling \in BOOLEAN /\ tried \in SUBSET Envelope /\ made \in Nat
  BY DEF IndInv, TypeOK
<1>1. NoCode \in Envelope /\ NoCode.attempts = 0
  BY DEF NoCode, Envelope
<1>2. CASE UNCHANGED otpVars
  BY <1>0, <1>2, CodesStay DEF otpVars
<1>3. CASE StoreCode(c)
  <2>1. otp' = [code |-> made', attempts |-> 0] /\ made' \in Nat /\ UNCHANGED <<cooling, tried>>
    BY <1>0, <1>3 DEF StoreCode
  <2>2. otp' \in Envelope /\ otp'.attempts = 0
    BY <2>1 DEF Envelope
  <2> QED
    BY <1>0, <2>1, <2>2, CodesAnew
<1>4. CASE Cool(c)
  BY <1>0, <1>4, CodesStay DEF Cool
<1>5. CASE DropCode(c) \/ Consume(c)
  BY <1>0, <1>1, <1>5, CodesAnew DEF DropCode, Consume
<1>6. CASE CountAttempt(c)
  <2>1. /\ call[c] \in CallState /\ call[c].pc = "rewrite" /\ UNCHANGED <<cooling, tried>>
        /\ otp' = [call[c].seen EXCEPT !.attempts = @ + 1]
    BY <1>6, AtCall DEF CountAttempt, IndInv
  <2>2. call[c].seen \in Envelope /\ call[c].seen \in tried
    BY <2>1 DEF IndInv, CallsFit, Fits, CallState
  <2>3. PICK code \in Nat, n \in Nat : call[c].seen = [code |-> code, attempts |-> n]
    BY <2>2 DEF Envelope
  <2>4. otp' = [code |-> code, attempts |-> n + 1]
    BY <2>1, <2>3
  <2>5. \A k \in 0..MaxAttempts : k < n => [code |-> code, attempts |-> k] \in tried
    BY <2>2, <2>3 DEF IndInv, CodesCounted, TriedDown, Answered
  <2>6. AttemptsAreAnswers'
    <3> SUFFICES ASSUME NEW k \in 0..MaxAttempts, k < n + 1
                 PROVE  [code |-> code, attempts |-> k] \in tried
      BY <2>1, <2>4 DEF AttemptsAreAnswers
    <3>1. k < n \/ k = n
      OBVIOUS
    <3> QED
      BY <3>1, <2>2, <2>3, <2>5
  <2>7. TriedDown'
    BY <2>1 DEF IndInv, CodesCounted, TriedDown, Answered
  <2>8. otp' \in Envelope
    BY <2>4 DEF Envelope
  <2> QED
    BY <1>0, <2>1, <2>6, <2>7, <2>8 DEF CodesCounted
<1>7. CASE Verify(c)
  <2>1. UNCHANGED <<otp, cooling>>
    BY <1>7 DEF Verify
  <2>2. \/ tried' = tried
        \/ tried' = tried \union {otp} /\ otp.attempts < MaxAttempts
    <3>1. CASE otp # NoCode
      <4>1. PICK right \in BOOLEAN :
                LET pc == IF otp.attempts >= MaxAttempts THEN "drop"
                          ELSE IF right THEN "consume" ELSE "ttl"
                IN  tried' = IF pc = "ttl" THEN tried \union {otp} ELSE tried
        BY <1>7, <3>1 DEF Verify
      <4>2. otp.attempts \in Nat
        BY <1>0 DEF Envelope
      <4>3. otp.attempts >= MaxAttempts \/ otp.attempts < MaxAttempts
        BY <4>2
      <4> QED
        BY <4>1, <4>3
    <3>2. CASE otp = NoCode
      BY <1>7, <3>2 DEF Verify
    <3> QED
      BY <3>1, <3>2
  <2>3. CASE tried' = tried
    BY <1>0, <2>1, <2>3, CodesStay
  <2>4. CASE tried' = tried \union {otp} /\ otp.attempts < MaxAttempts
    <3>1. AttemptsAreAnswers'
      BY <2>1, <2>4 DEF IndInv, CodesCounted, AttemptsAreAnswers
    <3>2. TriedDown'
      BY <2>1, <2>4 DEF IndInv, CodesCounted, AttemptsAreAnswers, TriedDown, Answered
    <3> QED
      BY <1>0, <2>1, <2>4, <3>1, <3>2 DEF CodesCounted
  <2> QED
    BY <2>2, <2>3, <2>4
<1> QED
  BY <1>2, <1>3, <1>4, <1>5, <1>6, <1>7
     DEF OtpNext, StartSend, Send, AssertResendAllowed, StartConfirm, Ttl, WritePassword

LEMMA OtpMoves ==
    ASSUME IndInv, NEW c \in Call, OtpNext(c)
    PROVE  Step(c)
<1>0. made \in Nat /\ made' \in Nat /\ made <= made'
  BY OtpKeepsRest DEF IndInv, TypeOK
<1> USE DEF Plain, Op
<1>1. CASE StartSend(c) \/ StartConfirm(c)
  BY <1>0, <1>1, Starts DEF StartSend, StartConfirm
<1>2. CASE Send(c) \/ AssertResendAllowed(c) \/ StoreCode(c) \/ Cool(c)
  BY <1>0, <1>2, Goes, Finishes DEF Send, AssertResendAllowed, StoreCode, Cool, GoOr
<1>3. CASE DropCode(c) \/ CountAttempt(c) \/ Consume(c)
  BY <1>0, <1>3, Goes, Finishes DEF DropCode, CountAttempt, Consume
<1>4. CASE Verify(c)
  <2>1. CASE Finish(c)
    BY <2>1, Finishes
  <2>2. ASSUME NEW pc \in {"drop", "consume", "ttl"}, pc = "ttl" => otp \in tried',
               call' = [call EXCEPT ![c].pc = pc, ![c].seen = otp]
        PROVE  Step(c)
    <3> DEFINE r == [call[c] EXCEPT !.pc = pc, !.seen = otp]
    <3>1. call[c] \in CallState /\ otp \in Envelope
      BY <1>4, AtCall DEF Verify, IndInv, TypeOK
    <3>2. r \in CallState
      BY <3>1 DEF CallState
    <3>3. /\ r.id = call[c].id /\ r.pc = pc /\ r.doomed = call[c].doomed
          /\ r.seen = otp
      BY <3>1 DEF CallState
    <3>4. call' = [call EXCEPT ![c] = r]
      BY <2>2
    <3> HIDE DEF r
    <3>5. UNCHANGED <<live, made>> /\ Fits(call[c], live, tried, made)
      BY <1>4 DEF Verify, Around, sessionVars, IndInv, CallsFit
    <3>6. Fits(r, live', tried', made')
      BY <2>2, <3>1, <3>3, <3>5 DEF Fits
    <3> QED
      BY <3>2, <3>4, <3>6 DEF Step, Moved, Calls
  <2>3. CASE otp # NoCode
    <3>1. PICK right \in BOOLEAN :
              LET pc == IF otp.attempts >= MaxAttempts THEN "drop"
                        ELSE IF right THEN "consume" ELSE "ttl"
              IN  /\ call' = [call EXCEPT ![c].pc = pc, ![c].seen = otp]
                  /\ tried' = IF pc = "ttl" THEN tried \union {otp} ELSE tried
      BY <1>4, <2>3 DEF Verify
    <3> QED
      BY <3>1, <2>2
  <2> QED
    BY <1>4, <2>1, <2>3 DEF Verify
<1>5. CASE Ttl(c)
  <2>1. CASE Finish(c)
    BY <2>1, Finishes
  <2>2. CASE Go(c, "rewrite")
    <3> DEFINE r == [call[c] EXCEPT !.pc = "rewrite"]
    <3>1. call[c] \in CallState /\ call[c].pc = "ttl"
      BY <1>5, AtCall DEF Ttl, IndInv
    <3>2. r \in CallState
      BY <3>1 DEF CallState
    <3>3. /\ r.id = call[c].id /\ r.pc = "rewrite" /\ r.doomed = call[c].doomed
          /\ r.seen = call[c].seen
      BY <3>1 DEF CallState
    <3>4. call' = [call EXCEPT ![c] = r]
      BY <2>2 DEF Go
    <3> HIDE DEF r
    <3>5. UNCHANGED <<live, tried, made>> /\ Fits(call[c], live, tried, made)
      BY <1>5 DEF Ttl, Around, sessionVars, otpVars, IndInv, CallsFit
    <3>6. Fits(r, live', tried', made')
      BY <3>1, <3>3, <3>5 DEF Fits
    <3> QED
      BY <3>2, <3>4, <3>6 DEF Step, Moved, Calls
  <2> QED
    BY <1>5, <2>1, <2>2 DEF Ttl, GoOr
<1>6. CASE WritePassword(c)
  BY <1>0, <1>6, Goes, Finishes DEF WritePassword, GoOr
<1> QED
  BY <1>1, <1>2, <1>3, <1>4, <1>5, <1>6 DEF OtpNext

-----------------------------------------------------------------------------
(* The steps of TeamService and TeamInviteService.                         *)

LinkPc == {"storeLink", "name", "mail", "unname", "member", "activate"}

LEMMA TeamKeepsRest ==
    ASSUME IndInv, NEW c \in Call, TeamNext(c)
    PROVE  /\ UNCHANGED Apart /\ made' \in {made, made + 1}
           /\ call[c].pc \in {"idle", "start", "create", "update", "find", "named", "dropLink",
                              "useLink", "delete"} \union LinkPc
<1> USE DEF LinkPc
<1>1. CASE StartInvite(c) \/ StartAccept(c) \/ StartRemove(c)
  BY <1>1 DEF StartInvite, StartAccept, StartRemove, Start, Idle
<1>2. CASE Invite(c) \/ CreateMember(c) \/ UpdateMember(c) \/ SendInvite(c)
  BY <1>2 DEF Invite, CreateMember, UpdateMember, SendInvite
<1>3. CASE ExistingToken(c) \/ DropLink(c) \/ StoreLink(c) \/ NameLink(c) \/ MailLink(c)
  BY <1>3 DEF ExistingToken, DropLink, StoreLink, NameLink, MailLink
<1>4. CASE Accept(c) \/ UseLink(c) \/ Unname(c) \/ FindMember(c) \/ Activate(c)
  BY <1>4 DEF Accept, UseLink, Unname, FindMember, Activate
<1>5. CASE Remove(c) \/ DeleteMember(c)
  BY <1>5 DEF Remove, DeleteMember
<1> QED
  BY <1>1, <1>2, <1>3, <1>4, <1>5 DEF TeamNext

LEMMA TeamTypes ==
    ASSUME IndInv, NEW c \in Call, TeamNext(c)
    PROVE  /\ user' \in {"absent", "invited", "active", "removed"}
           /\ link' \in SUBSET Nat /\ named' \in Nat /\ mailed' \in SUBSET Nat
           /\ \A j \in mailed' : j <= made'
<1>0. /\ user \in {"absent", "invited", "active", "removed"} /\ made \in Nat
      /\ link \in SUBSET Nat /\ named \in Nat /\ mailed \in SUBSET Nat
      /\ \A j \in mailed : j <= made
  BY DEF IndInv, TypeOK, Generated
<1>1. made' \in Nat /\ made <= made'
  BY <1>0, TeamKeepsRest
<1>2. \A j \in mailed : j <= made'
  BY <1>0, <1>1
<1>3. CASE UNCHANGED inviteVars /\ user' \in {user, "invited", "active", "removed"}
  BY <1>0, <1>2, <1>3 DEF inviteVars
<1>4. CASE DropLink(c) \/ UseLink(c)
  BY <1>0, <1>2, <1>4 DEF DropLink, UseLink
<1>10. CASE Unname(c)
  BY <1>0, <1>2, <1>10 DEF Unname
<1>5. CASE StoreLink(c)
  BY <1>0, <1>1, <1>2, <1>5 DEF StoreLink
<1>6. CASE NameLink(c) \/ MailLink(c)
  <2>1. call[c] \in CallState
    BY <1>6, AtCall DEF NameLink, MailLink, IndInv
  <2>2. call[c].id \in Nat /\ call[c].id <= made
    BY <2>1 DEF CallState, IndInv, CallsFit, Fits
  <2> QED
    BY <1>0, <1>2, <1>6, <2>2 DEF NameLink, MailLink
<1>7. CASE StartInvite(c) \/ StartAccept(c) \/ StartRemove(c) \/ Invite(c) \/ CreateMember(c)
  BY <1>3, <1>7 DEF StartInvite, StartAccept, StartRemove, Invite, CreateMember
<1>8. CASE UpdateMember(c) \/ SendInvite(c) \/ ExistingToken(c) \/ Accept(c) \/ FindMember(c)
  BY <1>3, <1>8 DEF UpdateMember, SendInvite, ExistingToken, Accept, FindMember
<1>9. CASE Activate(c) \/ Remove(c) \/ DeleteMember(c)
  BY <1>3, <1>9 DEF Activate, Remove, DeleteMember
<1> QED
  BY <1>4, <1>5, <1>6, <1>7, <1>8, <1>9, <1>10 DEF TeamNext

\* A call that turns to another step with a token it read or made.
LEMMA Takes ==
    ASSUME IndInv, NEW c \in Call, call[c].pc \notin {"idle", "done"},
           NEW pc \in Plain, NEW id \in Nat, id <= made', NEW old \in Nat,
           call' = [call EXCEPT ![c] = [call[c] EXCEPT !.pc = pc, !.id = id, !.old = old]],
           made' \in Nat, made <= made'
    PROVE  Step(c)
<1> DEFINE r == [call[c] EXCEPT !.pc = pc, !.id = id, !.old = old]
<1>1. call[c] \in CallState /\ made \in Nat
  BY AtCall DEF IndInv, TypeOK
<1>2. r \in CallState
  BY <1>1 DEF CallState, Plain
<1>3. /\ r.id = id /\ r.pc = pc /\ r.doomed = call[c].doomed
      /\ r.doomed \subseteq Nat
  BY <1>1 DEF CallState
<1>4. call' = [call EXCEPT ![c] = r]
  OBVIOUS
<1>5. Fits(call[c], live, tried, made)
  BY DEF IndInv, CallsFit
<1> HIDE DEF r
<1>6. Fits(r, live', tried', made')
  BY <1>1, <1>3, <1>5 DEF Fits, Plain
<1> QED
  BY <1>2, <1>4, <1>6 DEF Step, Moved, Calls

LEMMA TeamMoves ==
    ASSUME IndInv, NEW c \in Call, TeamNext(c)
    PROVE  Step(c)
<1>0. made \in Nat /\ made' \in Nat /\ made <= made'
  BY TeamKeepsRest DEF IndInv, TypeOK
<1> USE DEF Plain, Op
<1>1. CASE StartInvite(c) \/ StartRemove(c)
  BY <1>0, <1>1, Starts DEF StartInvite, StartRemove
<1>2. CASE StartAccept(c)
  BY <1>0, <1>2, Starts DEF StartAccept, IndInv, TypeOK, Generated
<1>3. CASE Invite(c) \/ CreateMember(c) \/ UpdateMember(c) \/ SendInvite(c)
  BY <1>0, <1>3, Goes, Finishes DEF Invite, CreateMember, UpdateMember, SendInvite, GoOr
<1>4. CASE DropLink(c) \/ NameLink(c) \/ MailLink(c) \/ Accept(c) \/ UseLink(c) \/ Unname(c)
  BY <1>0, <1>4, Goes, Finishes DEF DropLink, NameLink, MailLink, Accept, UseLink, Unname, GoOr
<1>5. CASE FindMember(c) \/ Activate(c) \/ Remove(c) \/ DeleteMember(c)
  BY <1>0, <1>5, Goes, Finishes DEF FindMember, Activate, Remove, DeleteMember, GoOr
<1>6. CASE ExistingToken(c) \/ StoreLink(c)
  <2>1. call[c] \in CallState
    BY <1>6, AtCall DEF ExistingToken, StoreLink, IndInv
  <2>2. call[c].id \in Nat /\ call[c].old \in Nat /\ call[c].id <= made /\ named \in Nat
    BY <2>1 DEF CallState, IndInv, CallsFit, Fits, TypeOK
  <2>3. call \in [Call -> Calls]
    BY DEF IndInv, TypeOK, Calls
  <2>4. CASE ExistingToken(c)
    <3>1. PICK pc \in {"storeLink", "dropLink"} :
              call' = [call EXCEPT ![c].old = named, ![c].pc = pc]
      BY <2>4 DEF ExistingToken
    <3>2. [call[c] EXCEPT !.old = named, !.pc = pc]
              = [call[c] EXCEPT !.pc = pc, !.id = call[c].id, !.old = named]
      BY <2>1 DEF CallState
    <3>3. call' = [call EXCEPT ![c] =
                      [call[c] EXCEPT !.pc = pc, !.id = call[c].id, !.old = named]]
      BY <3>1, <3>2
    <3>4. call[c].pc \notin {"idle", "done"}
      BY <2>4 DEF ExistingToken
    <3>5. call[c].id <= made'
      BY <1>0, <2>2
    <3> QED
      BY <1>0, <2>2, <3>3, <3>4, <3>5, Takes
  <2>5. CASE StoreLink(c)
    <3>1. [call[c] EXCEPT !.pc = "name", !.id = made']
              = [call[c] EXCEPT !.pc = "name", !.id = made', !.old = call[c].old]
      BY <2>1 DEF CallState
    <3>2. call' = [call EXCEPT ![c] =
                      [call[c] EXCEPT !.pc = "name", !.id = made', !.old = call[c].old]]
      BY <2>5, <3>1 DEF StoreLink
    <3>3. call[c].pc \notin {"idle", "done"}
      BY <2>5 DEF StoreLink
    <3>4. made' <= made'
      BY <1>0
    <3> QED
      BY <1>0, <2>2, <3>2, <3>3, <3>4, Takes
  <2> QED
    BY <1>6, <2>4, <2>5
<1> QED
  BY <1>1, <1>2, <1>3, <1>4, <1>5, <1>6 DEF TeamNext

\* One call moves, and the others stay where they are.
LEMMA OthersStay ==
    ASSUME IndInv, NEW c \in Call, Step(c)
    PROVE  \A u \in Call \ {c} : call'[u] = call[u]
  BY DEF IndInv, TypeOK, Step, Moved

\* A step that has nothing to do with links, or fails.
LEMMA LinksStay ==
    ASSUME IndInv, NEW c \in Call, Step(c), UNCHANGED <<link, mailed, user>>,
           \/ faults' = faults /\ call[c].pc \notin LinkPc
           \/ faults' # 0,
           call'[c].pc \in {"named", "dropLink", "storeLink", "name", "mail"} => user # "absent",
           call'[c].pc \notin {"name", "mail"}
    PROVE  LinkKept' /\ AbsentFits'
<1>0. \A u \in Call \ {c} : call'[u] = call[u]
  BY OthersStay
<1>1. AbsentFits'
  BY <1>0 DEF IndInv, AbsentFits
<1>2. ASSUME faults' = 0, user' = "invited"
      PROVE  LinkKept'
  <2>1. call[c].pc \notin LinkPc /\ faults = 0 /\ user = "invited"
    BY <1>2
  <2>2. CASE mailed = {} /\ \A u \in Call : call[u].pc \notin {"name", "mail"}
    BY <1>0, <2>2 DEF LinkKept
  <2>3. CASE \E t \in link : t \in mailed \/ \E u \in Call : InHand(u, t)
    <3>1. PICK t \in link : t \in mailed \/ \E u \in Call : InHand(u, t)
      BY <2>3
    <3>2. \A u \in Call : InHand(u, t) => u # c
      BY <2>1 DEF InHand, LinkPc
    <3>3. t \in link' /\ (t \in mailed' \/ \E u \in Call : InHand(u, t)')
      BY <1>0, <3>1, <3>2 DEF InHand
    <3> QED
      BY <3>3 DEF LinkKept
  <2>4. CASE \E u \in Call : Pending(u)
    <3>1. PICK u \in Call : Pending(u)
      BY <2>4
    <3>2. Pending(u)'
      BY <1>0, <2>1, <3>1 DEF Pending, LinkPc
    <3> QED
      BY <3>2 DEF LinkKept
  <2> QED
    BY <2>1, <2>2, <2>3, <2>4 DEF IndInv, LinkKept
<1> QED
  BY <1>1, <1>2 DEF LinkKept

\* The call of a step is on the way to a link that works, or lets a member in.
LEMMA PendingKeeps ==
    ASSUME NEW c \in Call, Pending(c)'
    PROVE  LinkKept'
  BY DEF LinkKept

LEMMA TeamLinks ==
    ASSUME IndInv, NEW c \in Call, TeamNext(c)
    PROVE  LinkKept' /\ AbsentFits'
<1>0. /\ Step(c) /\ UNCHANGED Apart /\ call \in [Call -> Calls]
      /\ \A u \in Call \ {c} : call'[u] = call[u]
  BY TeamMoves, TeamKeepsRest, OthersStay DEF IndInv, TypeOK, Calls
<1>f. UNCHANGED faults
  BY <1>0 DEF Apart
<1>g. ASSUME NEW pc, Go(c, pc) PROVE call'[c].pc = pc
  <2>1. call'[c] = [call[c] EXCEPT !.pc = pc]
    BY <1>0, <1>g DEF Go
  <2>2. CASE call[c] \in CallState
    BY <2>1, <2>2 DEF CallState
  <2>3. CASE call[c] \in {Idle, Done}
    BY <2>1, <2>3 DEF Idle, Done
  <2> QED
    BY <1>0, <2>2, <2>3 DEF Calls
<1>d. Finish(c) => call'[c].pc = "done"
  BY <1>0 DEF Finish, Done
<1>s. \A op, pc, id : Start(c, op, pc, id) => call[c].pc = "idle" /\ call'[c].pc = pc
  BY <1>0 DEF Start, Begin, Idle
<1> DEFINE Busy == {"named", "dropLink", "storeLink", "name", "mail"}
<1>1. CASE StartInvite(c) \/ StartAccept(c) \/ StartRemove(c)
  BY <1>0, <1>1, <1>f, <1>s, LinksStay DEF StartInvite, StartAccept, StartRemove, inviteVars, LinkPc
<1>2. CASE Invite(c) \/ UpdateMember(c) \/ Accept(c) \/ Remove(c)
  <2>1. /\ call[c].pc \in {"start", "update"} /\ UNCHANGED <<user, inviteVars>>
        /\ call'[c].pc \in {"create", "update", "find", "useLink", "delete", "done"}
    BY <1>2, <1>g, <1>d DEF Invite, UpdateMember, Accept, Remove, GoOr
  <2> QED
    BY <1>0, <1>f, <2>1, LinksStay DEF inviteVars, LinkPc
<1>3. CASE SendInvite(c)
  <2>1. /\ call[c].pc = "find" /\ UNCHANGED <<user, inviteVars>>
        /\ call'[c].pc \in {"named", "done"} /\ (call'[c].pc = "named" => user # "absent")
    BY <1>3, <1>g, <1>d DEF SendInvite, GoOr
  <2> QED
    BY <1>0, <1>f, <2>1, LinksStay DEF inviteVars, LinkPc
<1>4. CASE CreateMember(c)
  <2>1. CASE user = "absent"
    <3>1. /\ mailed = {} /\ UNCHANGED inviteVars /\ user' = "invited" /\ call'[c].pc = "find"
          /\ \A u \in Call : call[u].pc \notin {"name", "mail"}
      BY <1>4, <1>g, <2>1 DEF CreateMember, IndInv, AbsentFits
    <3>2. \A u \in Call : call'[u].pc \notin {"name", "mail"}
      BY <1>0, <3>1
    <3> QED
      BY <3>1, <3>2 DEF inviteVars, LinkKept, AbsentFits
  <2>2. CASE user # "absent"
    <3>1. /\ UNCHANGED <<user, inviteVars>> /\ call'[c].pc = "done" /\ call[c].pc = "create"
      BY <1>4, <1>d, <2>2 DEF CreateMember
    <3> QED
      BY <1>0, <1>f, <3>1, LinksStay DEF inviteVars, LinkPc
  <2> QED
    BY <2>1, <2>2
<1>5. CASE ExistingToken(c)
  <2>1. call[c].pc = "named" /\ call[c] \in CallState /\ UNCHANGED <<user, inviteVars>>
    BY <1>5, AtCall DEF ExistingToken, IndInv
  <2>2. call'[c].pc \in {"storeLink", "dropLink"}
    BY <1>0, <1>5, <2>1 DEF ExistingToken, CallState
  <2>3. user # "absent"
    BY <2>1 DEF IndInv, AbsentFits
  <2> QED
    BY <1>0, <1>f, <2>1, <2>2, <2>3, LinksStay DEF inviteVars, LinkPc
<1>6. CASE DropLink(c)
  <2>1. Pending(c)' /\ UNCHANGED <<user, mailed>> /\ user # "absent"
    BY <1>6, <1>g DEF DropLink, Pending, IndInv, AbsentFits
  <2> QED
    BY <2>1, PendingKeeps DEF AbsentFits
<1>7. CASE StoreLink(c)
  <2>1. call[c] \in CallState /\ UNCHANGED <<user, mailed>> /\ user # "absent"
    BY <1>7, AtCall DEF StoreLink, IndInv, AbsentFits
  <2>2. PICK t \in link' : call'[c].pc = "name" /\ call'[c].id = t
    BY <1>0, <1>7, <2>1 DEF StoreLink, CallState
  <2>3. InHand(c, t)'
    BY <2>2 DEF InHand
  <2>4. LinkKept'
    BY <2>2, <2>3 DEF LinkKept
  <2> QED
    BY <2>1, <2>4 DEF AbsentFits
<1>8. CASE NameLink(c)
  <2>1. /\ call[c] \in CallState /\ UNCHANGED <<user, link, mailed>> /\ user # "absent"
        /\ call[c].pc = "name"
    BY <1>8, AtCall DEF NameLink, IndInv, AbsentFits
  <2>2. call'[c].pc = "mail" /\ call'[c].id = call[c].id
    BY <1>0, <1>8, <2>1 DEF NameLink, Go, CallState
  <2>3. \A u \in Call : \A t : InHand(u, t) => InHand(u, t)'
    BY <1>0, <2>1, <2>2 DEF InHand
  <2>4. \A u \in Call : Pending(u) => Pending(u)'
    BY <1>0, <2>1 DEF Pending
  <2>5. LinkKept'
    BY <1>f, <2>1, <2>3, <2>4 DEF IndInv, LinkKept
  <2> QED
    BY <2>1, <2>5 DEF AbsentFits
<1>9. CASE MailLink(c)
  <2>1. /\ call[c].pc = "mail" /\ UNCHANGED <<user, link>> /\ user # "absent"
        /\ mailed' = mailed \union {call[c].id}
    BY <1>9 DEF MailLink, IndInv, AbsentFits
  <2>2. \A u \in Call : Pending(u) => Pending(u)'
    BY <1>0, <2>1 DEF Pending
  <2>3. \A u \in Call : \A t : InHand(u, t) => InHand(u, t)' \/ t \in mailed'
    BY <1>0, <2>1 DEF InHand
  <2>4. LinkKept'
    BY <1>f, <2>1, <2>2, <2>3 DEF IndInv, LinkKept
  <2> QED
    BY <2>1, <2>4 DEF AbsentFits
<1>10. CASE UseLink(c) \/ Unname(c)
  <2>1. Pending(c)' /\ UNCHANGED <<user, mailed>> /\ call'[c].pc \in {"unname", "member"}
    BY <1>10, <1>g DEF UseLink, Unname, Pending
  <2> QED
    BY <1>0, <2>1, PendingKeeps DEF IndInv, AbsentFits
<1>11. CASE FindMember(c)
  <2>1. UNCHANGED <<user, inviteVars>> /\ call'[c].pc \in {"activate", "done"}
        /\ (user = "invited" => call'[c].pc = "activate")
    BY <1>11, <1>g, <1>d DEF FindMember, GoOr
  <2>2. LinkKept'
    BY <2>1 DEF LinkKept, Pending
  <2> QED
    BY <1>0, <2>1, <2>2 DEF IndInv, AbsentFits, inviteVars
<1>12. CASE Activate(c) \/ DeleteMember(c)
  BY <1>12 DEF Activate, DeleteMember, LinkKept, AbsentFits
<1> QED
  BY <1>1, <1>2, <1>3, <1>4, <1>5, <1>6, <1>7, <1>8, <1>9, <1>10, <1>11, <1>12 DEF TeamNext

-----------------------------------------------------------------------------
(* The steps of TokenService.                                              *)

\* A live session is on record, missed, or in the hands of a call.
Holds(c, j) == call[c] \in CallState /\ call[c].id = j /\ call[c].pc \in {"remember", "track"}

LEMMA SessionKeepsRest ==
    ASSUME IndInv, NEW c \in Call, SessionNext(c)
    PROVE  /\ UNCHANGED Elsewhere
           /\ call[c].pc \in {"idle", "start", "user", "del", "forget", "untrack", "key",
                              "remember", "track", "revoke", "wipe", "untrackAll"}
<1>1. CASE SetKey(c) \/ SetRemember(c) \/ Track(c)
  BY <1>1 DEF SetKey, SetRemember, Track
<1>2. CASE StartLogin(c) \/ StartRefresh(c) \/ StartLogout(c)
  BY <1>2 DEF StartLogin, StartRefresh, StartLogout, Start, Idle
<1>3. CASE Login(c) \/ Refresh(c) \/ FindUser(c)
  BY <1>3 DEF Login, Refresh, FindUser
<1>4. CASE DelKey(c) \/ DelRemember(c) \/ Untrack(c)
  BY <1>4 DEF DelKey, DelRemember, Untrack
<1>5. CASE Revoke(c) \/ Wipe(c) \/ UntrackAll(c)
  BY <1>5 DEF Revoke, Wipe, UntrackAll
<1> QED
  BY <1>1, <1>2, <1>3, <1>4, <1>5 DEF SessionNext

\* What a step of the sessions must leave true of them.
SessionsTyped ==
    /\ live' \in SUBSET Nat /\ remember' \in SUBSET Nat /\ tracked' \in SUBSET Nat
    /\ issued' \in SUBSET Nat /\ revoked' \in SUBSET Nat /\ missed' \in SUBSET Nat
    /\ \A j \in live' \union tracked' \union issued' \union revoked' : j <= made'
    /\ RevokedStayDead'

LEMMA SessionsStay ==
    ASSUME IndInv, UNCHANGED sessionVars, made' \in {made, made + 1}
    PROVE  SessionsTyped /\ SessionsFit
<1>1. /\ made \in Nat /\ live \subseteq Nat /\ tracked \subseteq Nat
      /\ issued \subseteq Nat /\ revoked \subseteq Nat
  BY DEF IndInv, TypeOK
<1>2. \A j \in live \union tracked \union issued \union revoked : j <= made'
  BY <1>1 DEF IndInv, Generated
<1> QED
  BY <1>1, <1>2
     DEF IndInv, TypeOK, RevokedStayDead, SessionsTyped, SessionsFit, sessionVars

\* Sessions end, and none is lost sight of.
LEMMA SessionsEnd ==
    ASSUME IndInv, UNCHANGED <<made, issued>>, live' \subseteq live, remember' \subseteq remember,
           tracked' \subseteq tracked, tracked \cap live' \subseteq tracked' \union missed',
           missed \subseteq missed', missed' \subseteq missed \union tracked,
           revoked' \cap live' = {},
           \A j \in revoked' : j \in Nat /\ j <= made
    PROVE  SessionsTyped /\ SessionsFit
<1>0. /\ made \in Nat /\ live \subseteq Nat /\ tracked \subseteq Nat
      /\ remember \subseteq Nat /\ missed \subseteq Nat /\ issued \subseteq Nat
      /\ (\A j \in live \union tracked \union issued : j <= made)
  BY DEF IndInv, TypeOK, Generated
<1>1. SessionsTyped
  <2>1. \A j \in live' \union tracked' \union issued' \union revoked' : j <= made'
    BY <1>0
  <2>2. /\ live' \in SUBSET Nat /\ remember' \in SUBSET Nat /\ tracked' \in SUBSET Nat
        /\ issued' \in SUBSET Nat /\ revoked' \in SUBSET Nat /\ missed' \in SUBSET Nat
    BY <1>0
  <2> QED
    BY <2>1, <2>2 DEF SessionsTyped, RevokedStayDead
<1>2. SessionsFit
  BY <1>0 DEF SessionsFit
<1> QED
  BY <1>1, <1>2

\* A session whose key is deleted stays without it.
LEMMA Deletes ==
    ASSUME IndInv, NEW c \in Call, call[c] \in CallState, SessionsFit, UNCHANGED tried,
           NEW pc \in {"forget", "untrack"}, Go(c, pc), call[c].id \notin live'
    PROVE  Step(c)
<1> DEFINE r == [call[c] EXCEPT !.pc = pc]
<1>1. r \in CallState
  BY DEF CallState
<1>2. r.id = call[c].id /\ r.pc = pc /\ r.doomed = call[c].doomed
  BY DEF CallState
<1>3. call' = [call EXCEPT ![c] = r]
  BY DEF Go
<1> HIDE DEF r
<1>4. Fits(call[c], live', tried', made')
  BY FitsStay DEF IndInv, CallsFit
<1>5. Fits(r, live', tried', made')
  BY <1>2, <1>4 DEF Fits
<1> QED
  BY <1>1, <1>3, <1>5 DEF Step, Moved, Calls

\* A step that sets, forgets and records sessions of the call at hand.
LEMMA SessionSteps ==
    ASSUME IndInv, NEW c \in Call, SessionNext(c)
    PROVE  SessionsTyped /\ SessionsFit /\ Step(c)
<1>0. /\ made \in Nat /\ live \subseteq Nat /\ tracked \subseteq Nat /\ revoked \subseteq Nat
      /\ remember \subseteq Nat /\ missed \subseteq Nat /\ issued \subseteq Nat
      /\ (\A j \in live \union tracked \union issued \union revoked : j <= made)
      /\ revoked \cap live = {}
  BY DEF IndInv, TypeOK, Generated, RevokedStayDead
<1> USE DEF Plain, Op
<1>1. CASE StartLogin(c)
  BY <1>0, <1>1, Starts, SessionsStay DEF StartLogin
<1>2. CASE StartRefresh(c) \/ StartLogout(c)
  BY <1>0, <1>2, Starts, SessionsStay DEF StartRefresh, StartLogout
<1>3. CASE Login(c) \/ Refresh(c) \/ FindUser(c)
  BY <1>0, <1>3, Goes, Finishes, SessionsStay DEF Login, Refresh, FindUser, GoOr
<1>4. CASE SetKey(c)
  <2>1. call[c] \in CallState /\ call[c].pc = "key" /\ made' = made + 1
        /\ live' = live \union {made'} /\ UNCHANGED <<remember, tracked, issued, revoked, missed>>
    BY <1>4, AtCall DEF SetKey, IndInv
  <2>2. \A j \in live' \union tracked' \union issued' \union revoked' : j <= made'
    BY <1>0, <2>1
  <2>3. revoked' \cap live' = {}
    BY <1>0, <2>1
  <2>4. SessionsTyped
    BY <1>0, <2>1, <2>2, <2>3 DEF SessionsTyped, RevokedStayDead
  <2>5. SessionsFit
    BY <1>0, <2>1, <2>2 DEF SessionsFit
  <2>6. call' = [call EXCEPT ![c] =
            [call[c] EXCEPT !.pc = "remember", !.id = made', !.old = call[c].old]]
    <3>1. [call[c] EXCEPT !.pc = "remember", !.id = made']
              = [call[c] EXCEPT !.pc = "remember", !.id = made', !.old = call[c].old]
      BY <2>1 DEF CallState
    <3> QED
      BY <1>4, <3>1 DEF SetKey
  <2>7. call[c].old \in Nat /\ made' \in Nat /\ made' <= made' /\ made <= made'
    BY <1>0, <2>1 DEF CallState
  <2>8. Step(c)
    BY <2>1, <2>6, <2>7, Takes
  <2> QED
    BY <2>4, <2>5, <2>8
<1>5. CASE SetRemember(c) \/ Track(c)
  <2>1. call[c] \in CallState
    BY <1>5, AtCall DEF SetRemember, Track, IndInv
  <2>2. call[c].id \in Nat /\ call[c].id <= made
    BY <2>1 DEF CallState, IndInv, CallsFit, Fits
  <2>3. SessionsTyped /\ SessionsFit
    BY <1>0, <1>5, <2>2 DEF SetRemember, Track, SessionsTyped, SessionsFit, RevokedStayDead
  <2>4. made' \in Nat /\ made <= made'
    BY <1>0, <1>5 DEF SetRemember, Track
  <2> QED
    BY <1>5, <2>3, <2>4, Goes, Finishes DEF SetRemember, Track
<1>6. CASE DelKey(c) \/ DelRemember(c) \/ Untrack(c)
  <2>0. call[c] \in CallState /\ UNCHANGED <<made, issued, revoked, missed, tried>>
    BY <1>6, AtCall DEF DelKey, DelRemember, Untrack, Elsewhere, otpVars, IndInv
  <2>1. CASE DelKey(c)
    <3>1. SessionsTyped /\ SessionsFit
      BY <1>0, <2>0, <2>1, SessionsEnd DEF DelKey
    <3>2. call[c].id \notin live' /\ Go(c, "forget")
      BY <2>1 DEF DelKey
    <3> QED
      BY <2>0, <3>1, <3>2, Deletes
  <2>2. CASE DelRemember(c)
    <3>1. SessionsTyped /\ SessionsFit
      BY <1>0, <2>0, <2>2, SessionsEnd DEF DelRemember
    <3>2. call[c].id \notin live' /\ Go(c, "untrack")
      BY <2>0, <2>2 DEF DelRemember, IndInv, CallsFit, Fits
    <3> QED
      BY <2>0, <3>1, <3>2, Deletes
  <2>3. CASE Untrack(c)
    <3>1. call[c].id \notin live /\ UNCHANGED live /\ tracked' = tracked \ {call[c].id}
      BY <2>0, <2>3 DEF Untrack, IndInv, CallsFit, Fits
    <3>2. UNCHANGED remember
      BY <2>3 DEF Untrack
    <3>3. SessionsTyped /\ SessionsFit
      BY <1>0, <2>0, <3>1, <3>2, SessionsEnd
    <3> QED
      BY <1>0, <2>0, <2>3, <3>3, Goes, Finishes DEF Untrack, GoOr
  <2> QED
    BY <1>6, <2>1, <2>2, <2>3
<1>7. CASE Revoke(c) \/ Wipe(c) \/ UntrackAll(c)
  <2>0. /\ call[c] \in CallState /\ Fits(call[c], live, tried, made)
        /\ call[c].doomed \subseteq Nat
        /\ UNCHANGED made
    BY <1>7, AtCall DEF Revoke, Wipe, UntrackAll, IndInv, CallsFit, CallState
  <2>1. CASE Revoke(c)
    <3>1. SessionsTyped /\ SessionsFit
      BY <2>1, SessionsStay DEF Revoke
    <3>2. CASE call' = [call EXCEPT ![c].pc = "wipe", ![c].doomed = tracked]
      <4> DEFINE r == [call[c] EXCEPT !.pc = "wipe", !.doomed = tracked]
      <4>1. r \in CallState
        BY <1>0, <2>0 DEF CallState
      <4>2. /\ r.id = call[c].id /\ r.pc = "wipe" /\ r.doomed = tracked
        BY <2>0 DEF CallState
      <4>3. call' = [call EXCEPT ![c] = r]
        BY <3>2
      <4> HIDE DEF r
      <4>4. UNCHANGED sessionVars /\ call[c].pc = "revoke"
        BY <2>1 DEF Revoke
      <4>5. Fits(r, live', tried', made')
        BY <1>0, <2>0, <4>2, <4>4 DEF Fits, sessionVars
      <4> QED
        BY <3>1, <4>1, <4>3, <4>5 DEF Step, Moved, Calls
    <3> QED
      BY <2>1, <3>1, <3>2, Finishes DEF Revoke
  <2>2. CASE Wipe(c)
    <3> DEFINE r == [call[c] EXCEPT !.pc = "untrackAll"]
    <3>1. /\ call[c].pc = "wipe" /\ live' = live \ call[c].doomed
          /\ remember' = remember \ call[c].doomed /\ revoked' = revoked \union call[c].doomed
          /\ UNCHANGED <<tracked, issued, missed>>
      BY <2>2 DEF Wipe
    <3>2. \A j \in call[c].doomed : j <= made
      BY <2>0 DEF Fits
    <3>3. SessionsTyped /\ SessionsFit
      BY <1>0, <2>0, <3>1, <3>2, SessionsEnd
    <3>4. r \in CallState
      BY <2>0 DEF CallState
    <3>5. /\ r.id = call[c].id /\ r.pc = "untrackAll" /\ r.doomed = call[c].doomed
         
      BY <2>0 DEF CallState
    <3>6. call' = [call EXCEPT ![c] = r]
      BY <2>2 DEF Wipe, Go
    <3> HIDE DEF r
    <3>7. Fits(r, live', tried', made')
      BY <2>0, <3>1, <3>5 DEF Fits
    <3> QED
      BY <3>3, <3>4, <3>6, <3>7 DEF Step, Moved, Calls
  <2>3. CASE UntrackAll(c)
    <3>1. call[c].doomed \cap live = {}
      BY <2>0, <2>3 DEF UntrackAll, Fits
    <3>2. /\ tracked' = {} /\ missed' = missed \union (tracked \ call[c].doomed)
          /\ UNCHANGED <<live, remember, issued, revoked>>
      BY <2>3 DEF UntrackAll
    <3>3. SessionsTyped /\ SessionsFit
      BY <1>0, <2>0, <3>1, <3>2, SessionsEnd
    <3> QED
      BY <2>3, <3>3, Finishes DEF UntrackAll
  <2> QED
    BY <1>7, <2>1, <2>2, <2>3
<1> QED
  BY <1>1, <1>2, <1>3, <1>4, <1>5, <1>6, <1>7 DEF SessionNext

\* Every session that works stays where revokeAllRefreshTokens will find it.
LEMMA SessionTracked ==
    ASSUME IndInv, NEW c \in Call, SessionNext(c)
    PROVE  LiveIsTracked'
<1> USE DEF Holds
<1>0. /\ UNCHANGED faults /\ SessionsFit /\ call \in [Call -> Calls] /\ made \in Nat
      /\ \A u \in Call \ {c} : call'[u] = call[u]
  BY SessionKeepsRest, SessionSteps, OthersStay DEF Elsewhere, IndInv, TypeOK, Calls
<1> SUFFICES ASSUME faults = 0, NEW j \in live'
             PROVE  j \in tracked' \union missed' \/ \E u \in Call : Holds(u, j)'
  BY <1>0 DEF LiveIsTracked, Holds
<1>1. CASE j \in live /\ j \in tracked \union missed
  BY <1>0, <1>1 DEF SessionsFit
<1>2. CASE j \in live /\ \E u \in Call : Holds(u, j)
  <2>1. PICK u \in Call : Holds(u, j)
    BY <1>2
  <2>2. CASE u # c
    BY <1>0, <2>1, <2>2
  <2>3. CASE u = c /\ SetRemember(c)
    <3>1. Holds(c, j)'
      <4>1. call'[c] = [call[c] EXCEPT !.pc = "track"]
        BY <1>0, <2>3 DEF SetRemember, Go
      <4> QED
        BY <2>1, <2>3, <4>1 DEF CallState
    <3> QED
      BY <3>1
  <2>4. CASE u = c /\ Track(c)
    BY <2>1, <2>4 DEF Track
  <2>5. CASE u = c /\ ~SetRemember(c) /\ ~Track(c)
    <3>1. call[c].pc \in {"remember", "track"}
      BY <2>1, <2>5
    <3>2. ~SetKey(c) /\ ~Login(c) /\ ~Refresh(c) /\ ~FindUser(c) /\ ~DelKey(c)
      BY <3>1 DEF SetKey, Login, Refresh, FindUser, DelKey
    <3>3. ~DelRemember(c) /\ ~Untrack(c) /\ ~Revoke(c) /\ ~Wipe(c) /\ ~UntrackAll(c)
      BY <3>1 DEF DelRemember, Untrack, Revoke, Wipe, UntrackAll
    <3>4. ~StartLogin(c) /\ ~StartRefresh(c) /\ ~StartLogout(c)
      BY <3>1 DEF StartLogin, StartRefresh, StartLogout, Start, Idle
    <3> QED
      BY <2>5, <3>2, <3>3, <3>4 DEF SessionNext
  <2> QED
    BY <2>2, <2>3, <2>4, <2>5
<1>3. CASE j \notin live
  <2>1. CASE SetKey(c)
    <3>1. call[c] \in CallState /\ j = made'
      BY <1>3, <2>1, AtCall DEF SetKey, IndInv
    <3>2. call'[c] = [call[c] EXCEPT !.pc = "remember", !.id = j]
      BY <1>0, <2>1, <3>1 DEF SetKey
    <3>3. j \in Nat
      BY <1>0, <2>1, <3>1 DEF SetKey
    <3>4. Holds(c, j)'
      BY <3>1, <3>2, <3>3 DEF CallState
    <3> QED
      BY <3>4
  <2>2. CASE ~SetKey(c)
    <3>1. SetRemember(c) \/ Track(c) \/ StartLogin(c) \/ Login(c) \/ StartRefresh(c) \/ Refresh(c)
          => live' \subseteq live
      BY DEF SetRemember, Track, StartLogin, Login, StartRefresh, Refresh, sessionVars
    <3>2. FindUser(c) \/ StartLogout(c) \/ DelKey(c) \/ DelRemember(c) \/ Untrack(c)
          => live' \subseteq live
      BY DEF FindUser, StartLogout, DelKey, DelRemember, Untrack, sessionVars
    <3>3. Revoke(c) \/ Wipe(c) \/ UntrackAll(c) => live' \subseteq live
      BY DEF Revoke, Wipe, UntrackAll, sessionVars
    <3> QED
      BY <1>3, <2>2, <3>1, <3>2, <3>3 DEF SessionNext
  <2> QED
    BY <2>1, <2>2
<1> QED
  BY <1>1, <1>2, <1>3 DEF IndInv, LiveIsTracked, Holds

\* The other calls, and a call that dies, leave the sessions where they are.
LEMMA TrackedStays ==
    ASSUME IndInv, NEW c \in Call, Step(c), UNCHANGED sessionVars,
           \/ faults' = faults /\ call[c].pc \notin {"remember", "track"}
           \/ faults' # 0
    PROVE  LiveIsTracked'
<1>0. \A u \in Call \ {c} : call'[u] = call[u]
  BY OthersStay
<1> QED
  BY <1>0 DEF IndInv, LiveIsTracked, sessionVars

-----------------------------------------------------------------------------
(* The theorems.                                                           *)

LinkBusy == {"named", "dropLink", "storeLink", "name", "mail"}

LEMMA PcAfter ==
    ASSUME IndInv, NEW c \in Call
    PROVE  /\ \A pc : Go(c, pc) => call'[c].pc = pc
           /\ Finish(c) => call'[c].pc = "done"
           /\ \A op, pc, id : Start(c, op, pc, id) => call'[c].pc = pc
           /\ \A r : call' = [call EXCEPT ![c] = r] => call'[c] = r
<1>1. call \in [Call -> Calls]
  BY DEF IndInv, TypeOK, Calls
<1>2. ASSUME NEW pc, Go(c, pc) PROVE call'[c].pc = pc
  <2>1. call'[c] = [call[c] EXCEPT !.pc = pc]
    BY <1>1, <1>2 DEF Go
  <2>2. CASE call[c] \in CallState
    BY <2>1, <2>2 DEF CallState
  <2>3. CASE call[c] \in {Idle, Done}
    BY <2>1, <2>3 DEF Idle, Done
  <2> QED
    BY <1>1, <2>2, <2>3 DEF Calls
<1> QED
  BY <1>1, <1>2 DEF Finish, Done, Start, Begin

\* Neither the sessions nor the codes have to do with links.
LEMMA NoLinkAfter ==
    ASSUME IndInv, NEW c \in Call, SessionNext(c) \/ OtpNext(c)
    PROVE  call'[c].pc \notin LinkBusy
<1> USE PcAfter DEF LinkBusy
<1>1. CASE StartLogin(c) \/ StartRefresh(c) \/ StartLogout(c) \/ StartSend(c) \/ StartConfirm(c)
  BY <1>1 DEF StartLogin, StartRefresh, StartLogout, StartSend, StartConfirm
<1>2. CASE SetRemember(c) \/ Track(c) \/ Login(c) \/ Refresh(c) \/ FindUser(c)
  BY <1>2 DEF SetRemember, Track, Login, Refresh, FindUser, GoOr
<1>3. CASE DelKey(c) \/ DelRemember(c) \/ Untrack(c) \/ Wipe(c) \/ UntrackAll(c)
  BY <1>3 DEF DelKey, DelRemember, Untrack, Wipe, UntrackAll, GoOr
<1>4. CASE Send(c) \/ AssertResendAllowed(c) \/ StoreCode(c) \/ Cool(c)
  BY <1>4 DEF Send, AssertResendAllowed, StoreCode, Cool, GoOr
<1>5. CASE DropCode(c) \/ Ttl(c) \/ CountAttempt(c) \/ Consume(c) \/ WritePassword(c)
  BY <1>5 DEF DropCode, Ttl, CountAttempt, Consume, WritePassword, GoOr
<1>6. CASE SetKey(c) \/ Revoke(c) \/ Verify(c)
  <2>0. call[c] \in CallState /\ call \in [Call -> Calls]
    BY <1>6, AtCall DEF SetKey, Revoke, Verify, IndInv, TypeOK, Calls
  <2>1. CASE SetKey(c)
    <3>1. call'[c] = [call[c] EXCEPT !.pc = "remember", !.id = made']
      BY <2>0, <2>1 DEF SetKey
    <3> QED
      BY <2>0, <3>1 DEF CallState
  <2>2. CASE Revoke(c)
    <3>1. Finish(c) \/ call'[c] = [call[c] EXCEPT !.pc = "wipe", !.doomed = tracked]
      BY <2>0, <2>2 DEF Revoke
    <3> QED
      BY <2>0, <3>1 DEF CallState
  <2>3. CASE Verify(c)
    <3>1. \/ Finish(c)
          \/ \E pc \in {"drop", "consume", "ttl"} :
                call'[c] = [call[c] EXCEPT !.pc = pc, !.seen = otp]
      BY <2>0, <2>3 DEF Verify
    <3> QED
      BY <2>0, <3>1 DEF CallState
  <2> QED
    BY <1>6, <2>1, <2>2, <2>3
<1> QED
  BY <1>1, <1>2, <1>3, <1>4, <1>5, <1>6 DEF SessionNext, OtpNext

LEMMA SessionKeeps ==
    ASSUME IndInv, NEW c \in Call, SessionNext(c)
    PROVE  IndInv'
<1>1. /\ UNCHANGED <<user, link, named, mailed, otp, cooling, tried, faults>>
      /\ call[c].pc \notin LinkPc /\ call'[c].pc \notin LinkBusy
  BY SessionKeepsRest, NoLinkAfter DEF Elsewhere, inviteVars, otpVars, LinkPc
<1>2. SessionsTyped /\ SessionsFit /\ Step(c)
  BY SessionSteps
<1>3. CallsFit' /\ call' \in [Call -> Calls]
  BY <1>1, <1>2, CallsStay
<1>4. LinkKept' /\ AbsentFits'
  BY <1>1, <1>2, LinksStay DEF LinkBusy
<1>5. LiveIsTracked'
  BY SessionTracked
<1>6. TypeOK'
  BY <1>1, <1>2, <1>3 DEF IndInv, TypeOK, SessionsTyped, SessionsFit, Calls
<1>7. Generated'
  <2>1. \A j \in mailed : j \in Nat /\ j <= made /\ made \in Nat
    BY DEF IndInv, TypeOK, Generated
  <2> QED
    BY <1>1, <1>2, <2>1 DEF SessionsTyped, SessionsFit, Generated
<1>8. RevokedStayDead' /\ CodesCounted'
  BY <1>1, <1>2, CodesStay DEF SessionsTyped
<1> QED
  BY <1>3, <1>4, <1>5, <1>6, <1>7, <1>8 DEF IndInv

LEMMA OtpKeeps ==
    ASSUME IndInv, NEW c \in Call, OtpNext(c)
    PROVE  IndInv'
<1>1. /\ UNCHANGED <<user, link, named, mailed, sessionVars, faults>>
      /\ made' \in {made, made + 1}
      /\ call[c].pc \notin LinkPc \union {"remember", "track"} /\ call'[c].pc \notin LinkBusy
  BY OtpKeepsRest, NoLinkAfter DEF Around, inviteVars, LinkPc
<1>2. SessionsTyped /\ SessionsFit /\ Step(c)
  BY <1>1, SessionsStay, OtpMoves
<1>3. CallsFit' /\ call' \in [Call -> Calls]
  BY <1>2, OtpCodes, CallsStay
<1>4. LinkKept' /\ AbsentFits' /\ LiveIsTracked'
  BY <1>1, <1>2, LinksStay, TrackedStays DEF LinkBusy
<1>6. TypeOK' /\ CodesCounted'
  BY <1>1, <1>2, <1>3, OtpCodes
     DEF IndInv, TypeOK, SessionsTyped, SessionsFit, Calls
<1>7. Generated'
  <2>1. \A j \in mailed : j \in Nat /\ j <= made /\ made \in Nat
    BY DEF IndInv, TypeOK, Generated
  <2> QED
    BY <1>1, <1>2, <2>1 DEF SessionsTyped, SessionsFit, Generated
<1> QED
  BY <1>2, <1>3, <1>4, <1>6, <1>7 DEF IndInv, SessionsTyped

LEMMA TeamKeeps ==
    ASSUME IndInv, NEW c \in Call, TeamNext(c)
    PROVE  IndInv'
<1>1. /\ UNCHANGED <<sessionVars, otp, cooling, tried, faults>> /\ made' \in {made, made + 1}
      /\ call[c].pc \notin {"remember", "track"}
  BY TeamKeepsRest DEF Apart, otpVars, LinkPc
<1>2. SessionsTyped /\ SessionsFit /\ Step(c)
  BY <1>1, SessionsStay, TeamMoves
<1>3. CallsFit' /\ call' \in [Call -> Calls]
  BY <1>1, <1>2, CallsStay
<1>4. LinkKept' /\ AbsentFits' /\ LiveIsTracked'
  BY <1>1, <1>2, TeamLinks, TrackedStays
<1>6. TypeOK' /\ CodesCounted' /\ Generated'
  BY <1>1, <1>2, <1>3, TeamTypes, CodesStay
     DEF IndInv, TypeOK, SessionsTyped, SessionsFit, Calls, Generated
<1> QED
  BY <1>2, <1>3, <1>4, <1>6 DEF IndInv, SessionsTyped

LEMMA DeathKeeps ==
    ASSUME IndInv, NEW c \in Call, CallDies(c)
    PROVE  IndInv'
<1>1. /\ UNCHANGED <<user, link, named, mailed, sessionVars, otp, cooling, tried, made>>
      /\ faults' \in 0..MaxFaults /\ faults' # 0 /\ Finish(c)
  BY DEF CallDies, inviteVars, otpVars, IndInv, TypeOK
<1>2. SessionsTyped /\ SessionsFit /\ Step(c) /\ call'[c].pc = "done"
  BY <1>1, SessionsStay, Finishes, PcAfter
<1>3. CallsFit' /\ call' \in [Call -> Calls]
  BY <1>1, <1>2, CallsStay
<1>4. LinkKept' /\ AbsentFits' /\ LiveIsTracked'
  BY <1>1, <1>2, LinksStay, TrackedStays
<1>6. TypeOK' /\ CodesCounted' /\ Generated'
  BY <1>1, <1>2, <1>3, CodesStay
     DEF IndInv, TypeOK, SessionsTyped, SessionsFit, Calls, Generated
<1> QED
  BY <1>2, <1>3, <1>4, <1>6 DEF IndInv, SessionsTyped

\* Keys of Redis that run out.
LEMMA ExpiryKeeps ==
    ASSUME IndInv,
           \/ OtpExpires \/ CooldownExpires
           \/ \E j \in live : SessionExpires(j)
           \/ \E t \in link : LinkExpires(t)
    PROVE  IndInv'
<1>1. CASE OtpExpires \/ CooldownExpires
  <2>1. UNCHANGED <<user, link, named, mailed, sessionVars, faults, made, call, tried>>
    BY <1>1 DEF OtpExpires, CooldownExpires, Around, inviteVars
  <2>2. otp' \in {otp, NoCode} /\ cooling' \in {cooling, FALSE}
    BY <1>1 DEF OtpExpires, CooldownExpires
  <2>3. NoCode \in Envelope /\ NoCode.attempts = 0
    BY DEF NoCode, Envelope
  <2>4. otp \in Envelope /\ cooling \in BOOLEAN
    BY DEF IndInv, TypeOK
  <2>5. otp' \in Envelope /\ CodesCounted'
    BY <2>1, <2>2, <2>3, <2>4, CodesStay, CodesAnew
  <2>6. cooling' \in BOOLEAN
    BY <2>2, <2>4
  <2> QED
    BY <2>1, <2>5, <2>6 DEF sessionVars, IndInv, TypeOK, CallsFit, Generated, RevokedStayDead,
        LiveIsTracked, LinkKept, Pending, InHand, AbsentFits
<1>2. CASE \E j \in live : SessionExpires(j)
  <2>1. PICK j \in live : SessionExpires(j)
    BY <1>2
  <2>2. /\ UNCHANGED <<user, tracked, issued, revoked, missed, link, named, mailed>>
        /\ UNCHANGED <<otp, cooling, tried, made, call>>
        /\ live' \subseteq live /\ remember' \subseteq remember
        /\ faults' \in 0..MaxFaults /\ faults' # 0
    BY <2>1 DEF SessionExpires, inviteVars, otpVars, IndInv, TypeOK
  <2>3. SessionsTyped /\ SessionsFit
    BY <2>2, SessionsEnd DEF IndInv, TypeOK, Generated, RevokedStayDead
  <2>4. CallsFit'
    BY <2>2, <2>3, FitsStay DEF IndInv, CallsFit
  <2>5. TypeOK' /\ CodesCounted' /\ Generated'
    BY <2>2, <2>3, CodesStay DEF IndInv, TypeOK, SessionsTyped, SessionsFit, Generated
  <2>6. LinkKept' /\ AbsentFits' /\ LiveIsTracked'
    BY <2>2 DEF LinkKept, AbsentFits, LiveIsTracked, IndInv
  <2> QED
    BY <2>3, <2>4, <2>5, <2>6 DEF IndInv, SessionsTyped
<1>3. CASE \E t \in link : LinkExpires(t)
  <2>1. PICK t \in link : LinkExpires(t)
    BY <1>3
  <2>2. /\ UNCHANGED <<user, sessionVars, named, mailed, otp, cooling, tried, made, call>>
        /\ link' \in SUBSET Nat /\ faults' \in 0..MaxFaults /\ faults' # 0
    BY <2>1 DEF LinkExpires, otpVars, IndInv, TypeOK
  <2>3. LinkKept' /\ LiveIsTracked'
    BY <2>2 DEF LinkKept, LiveIsTracked
  <2> QED
    BY <2>2, <2>3, CodesStay DEF sessionVars, IndInv, TypeOK, CallsFit, Generated,
        RevokedStayDead, AbsentFits
<1> QED
  BY <1>1, <1>2, <1>3

LEMMA InitInv == Init => IndInv
<1> SUFFICES ASSUME Init PROVE IndInv
  OBVIOUS
<1>1. \A c \in Call : call[c] = Idle /\ call[c].pc = "idle" /\ call[c] \notin CallState
  BY DEF Init, Idle, CallState
<1>2. /\ live \subseteq Nat /\ made \in Nat /\ (\A j \in live : j <= made)
      /\ remember = live /\ tracked = live
  BY DEF Init
<1>3. otp \in Envelope /\ otp.attempts = 0
  BY DEF Init, Envelope, NoCode
<1>4. TypeOK
  BY <1>2, <1>3 DEF Init, TypeOK
<1>5. CallsFit
  BY <1>1 DEF CallsFit, Fits
<1>6. Generated /\ RevokedStayDead /\ LiveIsTracked /\ CodesCounted
  BY <1>2, <1>3 DEF Init, Generated, RevokedStayDead, LiveIsTracked, CodesCounted,
     AttemptsAreAnswers, TriedDown
<1>7. LinkKept /\ AbsentFits
  BY <1>1 DEF Init, LinkKept, AbsentFits
<1> QED
  BY <1>4, <1>5, <1>6, <1>7 DEF IndInv

\* The invariant the theorems below rest on holds of every behaviour.
THEOREM Inductive == Spec => []IndInv
<1>1. Init => IndInv
  BY InitInv
<1>2. IndInv /\ [Next]_vars => IndInv'
  <2> SUFFICES ASSUME IndInv, [Next]_vars PROVE IndInv'
    OBVIOUS
  <2>1. CASE UNCHANGED vars
    BY <2>1, CodesStay DEF vars, sessionVars, inviteVars, otpVars, IndInv, TypeOK, CallsFit,
        Generated, RevokedStayDead, LiveIsTracked, LinkKept, Pending, InHand, AbsentFits
  <2>2. CASE Next
    BY <2>2, SessionKeeps, OtpKeeps, TeamKeeps, DeathKeeps, ExpiryKeeps DEF Next
  <2> QED
    BY <2>1, <2>2
<1> QED
  BY <1>1, <1>2, PTL DEF Spec

\* Every variable stays in its type, whatever calls overlap, die or come late.
THEOREM TypeCorrect == Spec => []TypeOK
<1>1. IndInv => TypeOK
  BY DEF IndInv
<1> QED
  BY <1>1, Inductive, PTL

\* A session ended by a change of the password never works again
\* (token.service.ts, issueTokens and revokeAllRefreshTokens).
THEOREM RevocationCorrect == Spec => []RevokedStayDead
<1>1. IndInv => RevokedStayDead
  BY DEF IndInv
<1> QED
  BY <1>1, Inductive, PTL

\* Every session that works is on record or about to be, but for those that a
\* deletion of the record overtook.
THEOREM RecordCorrect == Spec => []LiveIsTracked
<1>1. IndInv => LiveIsTracked
  BY DEF IndInv
<1> QED
  BY <1>1, Inductive, PTL

\* However answers and new codes race, the count stored with a code stands for
\* wrong answers that were given to this code.
THEOREM AttemptsCorrect == Spec => []AttemptsAreAnswers
<1>1. IndInv => AttemptsAreAnswers
  BY DEF IndInv, CodesCounted
<1> QED
  BY <1>1, Inductive, PTL

\* However the invitations overlap, a member who was sent one and has not come
\* holds a link that works once nobody is at work.
THEOREM LinksCorrect == Spec => []SomeLinkWorks
<1>1. IndInv => SomeLinkWorks
  BY DEF IndInv, LinkKept, InHand, Pending, SomeLinkWorks, Idle, Done
<1> QED
  BY <1>1, Inductive, PTL
=============================================================================
