--------------------------- MODULE OperatorSessions ---------------------------
(***************************************************************************)
(* One operator account and its sessions: the local and break-glass logins *)
(* of operator_identity.py and the session store of operator_access.py.    *)
(*                                                                         *)
(* A login is two transactions (check the credentials, issue the session)  *)
(* and so is every request (read the session, touch it); password change,  *)
(* TOTP enrolment, break-glass rotation, authorization change and logout   *)
(* commit in between.  One tick of the clock is one TOTP step.             *)
(*                                                                         *)
(* The definitions no action refers to are wrong variants of the           *)
(* definition that follows them.                                           *)
(***************************************************************************)
EXTENDS Integers, FiniteSets

CONSTANTS Procs,        \* concurrent requests of the management application
          Sessions,     \* bound: session identifiers
          SessionLimit, \* unrevoked sessions kept per account (5)
          FailureLimit, \* failures that lock an attempt key (5)
          LockTime,     \* 15 minutes
          IdleTime,     \* idle_timeout
          LifeTime,     \* absolute_timeout
          MaxTime,      \* bound: clock ticks of any plan
          MaxVersion,   \* bound: changes of authz_version
          Plans         \* what is explored: [kind, secret, sessions, time, wrong]:
                        \* the identity source, whether a secret is enrolled, bounds
                        \* on sessions and ticks, whether credentials may be wrong

(* The least of what the plans keep to and the code's settings are: the    *)
(* explored sessions and ticks stay within the bounds, an account may keep *)
(* a session.                                                              *)
ASSUME SessionAssumption ==
    /\ Sessions \in Nat /\ SessionLimit \in Nat \ {0} /\ MaxTime \in Nat
    /\ IdleTime \in Nat /\ LifeTime \in Nat
    /\ \A pl \in Plans : pl.secret \in Nat /\ pl.sessions \in 0 .. Sessions /\ pl.time \in 0 .. MaxTime

VARIABLES now,
          plan,       \* the member of Plans explored
          account,    \* operator_accounts row and its credentials
          attempt,    \* operator_login_attempts row of the source and user name
          session,    \* operator_sessions
          proc,       \* requests in flight
          codes,      \* history: accepted codes of the present secret, by step
          guesses     \* history: wrong credentials judged since the last success, by tick

sessionVars == <<now, plan, account, attempt, session, proc, codes, guesses>>

-----------------------------------------------------------------------------
Times == 0 .. MaxTime
Unset == -1
NoSession == [status |-> "none", version |-> 0, idle |-> 0, end |-> 0,
              cred |-> 0, mfa |-> Unset, nth |-> 0]
Idle == [pc |-> "idle", at |-> 0, sess |-> 0, version |-> 0, cred |-> 0,
         mfa |-> Unset]
NoAttempt == [count |-> 0, last |-> Unset, until |-> 0]
NoHistory == [t \in Times |-> 0]

SessionInit ==
    /\ now = 0
    /\ plan \in Plans
    /\ account = [enabled |-> TRUE, may |-> TRUE, version |-> 1,
                  cred |-> 1, secret |-> plan.secret, last |-> Unset]
    /\ attempt = NoAttempt
    /\ session = [s \in 1 .. Sessions |-> NoSession]
    /\ proc = [p \in Procs |-> Idle]
    /\ codes = NoHistory /\ guesses = NoHistory

Goto(p, changes) == proc' = [proc EXCEPT ![p] = changes]
Done(p) == proc' = [proc EXCEPT ![p] = Idle]

\* _evaluate_joined_row: unrevoked, unexpired, of an enabled account and of its
\* present authorization version.
Usable(s) ==
    /\ session[s].status = "open"
    /\ now < session[s].idle /\ now < session[s].end
    /\ account.enabled
    /\ session[s].version = account.version

Revoked(rows) == [s \in DOMAIN session |->
                    IF s \in rows /\ session[s].status = "open"
                    THEN [session[s] EXCEPT !.status = "revoked"] ELSE session[s]]

-----------------------------------------------------------------------------
(* Attempt limits.                                                         *)

Locked == attempt.until > now

LockedAfterLimit ==
    attempt' = [count |-> IF attempt.last < now - LockTime THEN 1 ELSE attempt.count + 1,
                last |-> now,
                until |-> IF Locked THEN attempt.until
                          ELSE IF attempt.count + 1 > FailureLimit THEN now + LockTime
                          ELSE 0]

\* The lock time follows from the stored count, also when the count restarts.
_record_progressive_failure ==
    attempt' = [count |-> IF attempt.last < now - LockTime THEN 1 ELSE attempt.count + 1,
                last |-> now,
                until |-> IF Locked THEN attempt.until
                          ELSE IF attempt.count + 1 >= FailureLimit THEN now + LockTime
                          ELSE 0]

\* Credentials were judged wrong while the key was not locked.
Rejected == /\ _record_progressive_failure
            /\ guesses' = [guesses EXCEPT ![now] = @ + 1]

Cleared == attempt' = NoAttempt /\ guesses' = NoHistory

\* A code is accepted for the step of the request's clock, once.
FreshCode(at) == account.secret # 0 /\ at > account.last
AcceptCode(at) == codes' = [codes EXCEPT ![at] = @ + 1]

-----------------------------------------------------------------------------
(* Login.                                                                  *)

\* The request reads the clock; the statement of the local store takes its
\* snapshot of the account row before it has the lock on the credentials.
BeginLocalLogin(p) ==
    /\ proc[p].pc = "idle" /\ plan.kind = "local"
    /\ Goto(p, [Idle EXCEPT !.pc = "login", !.at = now, !.version = account.version])
    /\ UNCHANGED <<now, plan, account, attempt, session, codes, guesses>>

BeginBreakGlassLogin(p) ==
    /\ proc[p].pc = "idle" /\ plan.kind = "break_glass"
    /\ Goto(p, [Idle EXCEPT !.pc = "login", !.at = now])
    /\ UNCHANGED <<now, plan, account, attempt, session, codes, guesses>>

\* With the lock held: a locked key refuses, wrong credentials are counted.  The
\* failure is committed before it is raised.
RefuseLogin(p) ==
    /\ \/ Locked /\ UNCHANGED <<attempt, guesses>>
       \/ ~Locked /\ plan.wrong /\ Rejected
    /\ Done(p)
    /\ UNCHANGED <<now, plan, account, session, codes>>

AcceptLogin(p, version, mfa) ==
    /\ ~Locked /\ account.enabled
    /\ Goto(p, [proc[p] EXCEPT !.pc = "issue", !.version = version,
                 !.cred = account.cred, !.mfa = mfa])
    /\ Cleared
    /\ UNCHANGED <<now, plan, session>>

UseCode(at) ==
    /\ FreshCode(at) /\ AcceptCode(at)
    /\ account' = [account EXCEPT !.last = at]

\* The password, and the code where one is given.
AuthenticateLocal(p) ==
    /\ proc[p].pc = "login" /\ plan.kind = "local"
    /\ \/ RefuseLogin(p)
       \/ AcceptLogin(p, proc[p].version, Unset) /\ UNCHANGED <<account, codes>>
       \/ UseCode(proc[p].at) /\ AcceptLogin(p, proc[p].version, proc[p].at)

\* The password and the code.
AuthenticateBreakGlass(p) ==
    /\ proc[p].pc = "login" /\ plan.kind = "break_glass"
    /\ \/ RefuseLogin(p)
       \/ UseCode(proc[p].at) /\ AcceptLogin(p, account.version, proc[p].at)

\* The other open sessions, all but the SessionLimit - 1 newest.
Excess(new) ==
    LET others == {s \in DOMAIN session : session[s].status = "open" /\ s # new}
    IN {s \in others : Cardinality({o \in others : session[o].nth > session[s].nth})
                          >= SessionLimit - 1}

IssueAnyVersion(p) ==
    LET free == {s \in 1 .. plan.sessions : session[s].status = "none"}
        new == CHOOSE s \in free : \A o \in free : s <= o
    IN /\ proc[p].pc = "issue"
       /\ free # {}
       /\ session' = IF ~account.enabled THEN session
                     ELSE [Revoked(Excess(new)) EXCEPT ![new] =
                            [status |-> "open", version |-> account.version, nth |-> new,
                             idle |-> now + IdleTime, end |-> now + LifeTime,
                             cred |-> proc[p].cred, mfa |-> proc[p].mfa]]
       /\ Done(p)
       /\ UNCHANGED <<now, plan, account, attempt, codes, guesses>>

\* The account row locked and matched with the version that was authenticated.
issue_session(p) ==
    LET free == {s \in 1 .. plan.sessions : session[s].status = "none"}
        new == CHOOSE s \in free : \A o \in free : s <= o
    IN /\ proc[p].pc = "issue"
       /\ free # {}
       /\ IF account.enabled /\ account.version = proc[p].version
          THEN session' = [Revoked(Excess(new)) EXCEPT ![new] =
                  [status |-> "open", version |-> account.version, nth |-> new,
                   idle |-> now + IdleTime, end |-> now + LifeTime,
                   cred |-> proc[p].cred, mfa |-> proc[p].mfa]]
          ELSE UNCHANGED session
       /\ Done(p)
       /\ UNCHANGED <<now, plan, account, attempt, codes, guesses>>

-----------------------------------------------------------------------------
(* Requests with a session.                                                *)

\* authenticate: the session and account are read, then the permission checked.
authenticate(p, s) ==
    /\ proc[p].pc = "idle" /\ session[s].status # "none"
    /\ IF Usable(s) /\ account.may
       THEN Goto(p, [Idle EXCEPT !.pc = "touch", !.sess = s, !.version = account.version])
       ELSE Done(p)
    /\ UNCHANGED <<now, plan, account, attempt, session, codes, guesses>>

TouchRowOnly(p) ==
    LET s == proc[p].sess
        open == session[s].status = "open" /\ now < session[s].idle /\ now < session[s].end
    IN /\ proc[p].pc = "touch"
       /\ IF open
          THEN /\ session' = [session EXCEPT ![s].idle =
                     IF now + IdleTime < session[s].end THEN now + IdleTime ELSE session[s].end]
               /\ Goto(p, [proc[p] EXCEPT !.pc = "granted", !.at = now])
          ELSE Done(p) /\ UNCHANGED session
       /\ UNCHANGED <<now, plan, account, attempt, codes, guesses>>

touch_authorized_session(p) ==
    LET s == proc[p].sess
    IN /\ proc[p].pc = "touch"
       /\ IF Usable(s) /\ account.version = proc[p].version
          THEN /\ session' = [session EXCEPT ![s].idle =
                     IF now + IdleTime < session[s].end THEN now + IdleTime ELSE session[s].end]
               /\ Goto(p, [proc[p] EXCEPT !.pc = "granted", !.at = now])
          ELSE Done(p) /\ UNCHANGED session
       /\ UNCHANGED <<now, plan, account, attempt, codes, guesses>>

\* The handler that was let in ends, or goes on to change the credentials.
Finish(p) ==
    /\ proc[p].pc = "granted"
    /\ Done(p)
    /\ UNCHANGED <<now, plan, account, attempt, session, codes, guesses>>

revoke_session(p) ==
    /\ proc[p].pc = "granted"
    /\ session' = Revoked({proc[p].sess})
    /\ Done(p)
    /\ UNCHANGED <<now, plan, account, attempt, codes, guesses>>

\* refresh_mfa: the code is accepted in one transaction, the session marked in
\* the next.
verify_totp(p) ==
    /\ proc[p].pc = "granted" /\ plan.kind = "local"
    /\ IF account.enabled /\ FreshCode(proc[p].at)
       THEN /\ account' = [account EXCEPT !.last = proc[p].at]
            /\ AcceptCode(proc[p].at)
            /\ Goto(p, [proc[p] EXCEPT !.pc = "mark"])
       ELSE Done(p) /\ UNCHANGED <<account, codes>>
    /\ UNCHANGED <<now, plan, attempt, session, guesses>>

mark_mfa_verified(p) ==
    /\ proc[p].pc = "mark"
    /\ session' = IF Usable(proc[p].sess)
                  THEN [session EXCEPT ![proc[p].sess].mfa = proc[p].at] ELSE session
    /\ Done(p)
    /\ UNCHANGED <<now, plan, account, attempt, codes, guesses>>

-----------------------------------------------------------------------------
(* Changes of the account.                                                 *)

\* The password, and the code where a secret is enrolled; every other session is
\* revoked and this one carried to the new version, or nothing is changed.
change_password(p) ==
    LET s == proc[p].sess
    IN /\ proc[p].pc = "granted" /\ plan.kind = "local"
       /\ account.version < MaxVersion
       /\ IF /\ account.enabled
             /\ account.secret # 0 => FreshCode(proc[p].at)
             /\ session[s].status = "open"
          THEN /\ account' = [account EXCEPT !.cred = @ + 1, !.version = @ + 1,
                     !.last = IF account.secret = 0 THEN @ ELSE proc[p].at]
               /\ codes' = IF account.secret = 0 THEN codes
                           ELSE [codes EXCEPT ![proc[p].at] = @ + 1]
               /\ session' = [Revoked(DOMAIN session \ {s}) EXCEPT
                     ![s].version = account.version + 1, ![s].cred = account.cred + 1]
          ELSE UNCHANGED <<account, codes, session>>
       /\ Done(p)
       /\ UNCHANGED <<now, plan, attempt, guesses>>

\* A first secret; the code that proves it is used up, every session ends.
enroll_totp(p) ==
    /\ proc[p].pc = "granted" /\ plan.kind = "local"
    /\ account.version < MaxVersion
    /\ IF account.enabled /\ account.secret = 0
       THEN /\ account' = [account EXCEPT !.secret = 1, !.last = proc[p].at, !.version = @ + 1]
            /\ codes' = [NoHistory EXCEPT ![proc[p].at] = 1]
            /\ session' = Revoked(DOMAIN session)
       ELSE UNCHANGED <<account, codes, session>>
    /\ Done(p)
    /\ UNCHANGED <<now, plan, attempt, guesses>>

\* The break-glass CLI: new password, new secret with no step used, no session.
rotate ==
    /\ plan.kind = "break_glass" /\ account.enabled /\ account.version < MaxVersion
    /\ account' = [account EXCEPT !.cred = @ + 1, !.secret = @ + 1, !.last = Unset,
                                  !.version = @ + 1]
    /\ codes' = NoHistory
    /\ session' = Revoked(DOMAIN session)
    /\ UNCHANGED <<now, plan, attempt, proc, guesses>>

\* Roles, scopes and the enabled flag, under the version the caller saw.
update_authorization ==
    /\ account.version < MaxVersion
    /\ \E enabled, may \in BOOLEAN :
          account' = [account EXCEPT !.enabled = enabled, !.may = may, !.version = @ + 1]
    /\ UNCHANGED <<now, plan, attempt, session, proc, codes, guesses>>

Tick == /\ now < plan.time
        /\ now' = now + 1
        /\ UNCHANGED <<plan, account, attempt, session, proc, codes, guesses>>

Step(p) ==
    \/ BeginLocalLogin(p) \/ BeginBreakGlassLogin(p)
    \/ AuthenticateLocal(p) \/ AuthenticateBreakGlass(p) \/ issue_session(p)
    \/ \E s \in 1 .. Sessions : authenticate(p, s)
    \/ touch_authorized_session(p) \/ Finish(p) \/ revoke_session(p)
    \/ verify_totp(p) \/ mark_mfa_verified(p)
    \/ change_password(p) \/ enroll_totp(p)

SessionNext == (\E p \in Procs : Step(p)) \/ rotate \/ update_authorization \/ Tick

SessionSpec == SessionInit /\ [][SessionNext]_sessionVars

-----------------------------------------------------------------------------
(* Properties.                                                             *)

GrantedStep ==
    \A p \in Procs : proc[p].pc = "touch" /\ proc'[p].pc = "granted" =>
       /\ account.enabled /\ account.may
       /\ session[proc[p].sess].status = "open"
       /\ now < session'[proc[p].sess].end
       /\ session'[proc[p].sess].idle <= session[proc[p].sess].end

\* A request is granted only while its session is open and within both times,
\* and the account still has the permission that was checked one transaction
\* earlier; a change of roles between the two denies it.
GrantedIsCurrent == [][GrantedStep]_sessionVars

\* A session that can be used was obtained with the present password and second
\* factor, or made the change: a login that checked the old password can not
\* issue a session after the change.
CredentialChangeEndsSessions ==
    \A s \in 1 .. Sessions : Usable(s) => session[s].cred = account.cred

\* A one-time code opens one login, refresh or password change at most, whatever
\* requests race with clocks read earlier.
CodeUsedOnce == \A t \in Times : codes[t] <= 1

\* A session that can be used and counts as MFA-verified at some step has a code
\* of the account accepted for that very step behind it.
MfaMeansCode ==
    \A s \in 1 .. Sessions :
        Usable(s) /\ session[s].mfa # Unset => codes[session[s].mfa] = 1

\* Each account keeps at most SessionLimit unrevoked sessions, racing logins
\* included.
SessionsBounded ==
    Cardinality({s \in 1 .. Sessions : session[s].status = "open"}) <= SessionLimit

\* In any LockTime at most FailureLimit wrong credentials are judged for a key.
GuessesBounded ==
    LET recent == {t \in Times : t > now - LockTime /\ t <= now}
        Total[T \in SUBSET Times] ==
            IF T = {} THEN 0
            ELSE LET t == CHOOSE t \in T : TRUE IN guesses[t] + Total[T \ {t}]
    IN Total[recent] <= FailureLimit

\* What a session stands for: the credentials that are current, a code that
\* nobody used before, and one of a bounded number.
SessionsSafe ==
    CredentialChangeEndsSessions /\ CodeUsedOnce /\ MfaMeansCode /\ SessionsBounded

-----------------------------------------------------------------------------
(* The inductive invariant that makes the properties true.                 *)

AccountRow == [enabled : BOOLEAN, may : BOOLEAN, version : Nat \ {0}, cred : Nat,
               secret : Nat, last : Times \cup {Unset}]
SessionRow == [status : {"none", "open", "revoked"}, version : Nat, idle : Nat, end : Nat,
               cred : Nat, mfa : Times \cup {Unset}, nth : Nat]
RequestRow == [pc : {"idle", "login", "issue", "touch", "granted", "mark"}, at : Times,
               sess : 0 .. Sessions, version : Nat, cred : Nat, mfa : Times \cup {Unset}]

\* The clock, the account, its sessions, the requests and the accepted codes.
SessionTypeOK ==
    /\ plan \in Plans /\ now \in 0 .. plan.time
    /\ account \in AccountRow
    /\ session \in [1 .. Sessions -> SessionRow]
    /\ proc \in [Procs -> RequestRow]
    /\ codes \in [Times -> Nat]

\* What a code used for the step t leaves behind.
Accepted(t) == t # Unset => codes[t] = 1

\* A request knows no later version of the account than the present one.  While it
\* is the present one, the credentials it checked and the permission it read are.
RequestIsCurrent(p) ==
    /\ proc[p].version <= account.version
    /\ proc[p].version = account.version =>
          /\ proc[p].pc = "issue" => proc[p].cred = account.cred /\ Accepted(proc[p].mfa)
          /\ proc[p].pc = "touch" => account.may

\* A request that was let in names a session that was issued; the code it used to
\* refresh it is of the present secret unless the session was ended since.
RequestHasSession(p) ==
    /\ proc[p].pc \in {"touch", "granted", "mark"} =>
          proc[p].sess # 0 /\ session[proc[p].sess].status # "none"
    /\ proc[p].pc = "mark" /\ session[proc[p].sess].status = "open" => codes[proc[p].at] = 1

\* A session of the present version stands for the present credentials, an open one
\* for a code of the present secret, and the numbers tell the older of two.
SessionIsCurrent(s) ==
    /\ session[s].version <= account.version
    /\ session[s].version = account.version => session[s].cred = account.cred
    /\ session[s].status = "open" => Accepted(session[s].mfa)
    /\ session[s].status # "none" => session[s].nth = s

\* The codes accepted are of the steps up to the last one used, and each was once.
StepsAreUsed ==
    \A t \in Times : codes[t] <= 1 /\ (t > account.last => codes[t] = 0)

OpenSessions == {s \in 1 .. Sessions : session[s].status = "open"}

\* The invariant of the account: what requests in flight and sessions stand for.
SessionInv ==
    /\ SessionTypeOK
    /\ \A p \in Procs : RequestIsCurrent(p) /\ RequestHasSession(p)
    /\ \A s \in 1 .. Sessions : SessionIsCurrent(s)
    /\ StepsAreUsed
    /\ Cardinality(OpenSessions) <= SessionLimit
=============================================================================
