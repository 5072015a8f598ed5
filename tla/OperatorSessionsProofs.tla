------------------------ MODULE OperatorSessionsProofs ------------------------
(***************************************************************************)
(* The sessions of an operator account are safe for any number of requests *)
(* and any bounds: the inductive invariant SessionInv, and the properties  *)
(* of OperatorSessions that follow from it.                                *)
(***************************************************************************)
EXTENDS OperatorSessions, FiniteSetTheorems, TLAPS

-----------------------------------------------------------------------------
(* Numbers and sets.                                                       *)

\* A set of numbers that is not empty has a least one: the free row that
\* issue_session takes, the oldest session that it ends.
LEMMA LeastNumber ==
    ASSUME NEW T, T \subseteq Nat, T # {}
    PROVE  \E x \in T : \A y \in T : x <= y
<1> DEFINE R == OpToRel(<, Nat)
<1>1. IsWellFoundedOn(R, Nat)
  BY NatLessThanWellFounded, Zenon
<1>2. \A x, y \in Nat : x < y => <<x, y>> \in R
  BY Zenon DEF OpToRel
<1> HIDE DEF R
<1>3. PICK x \in T : \A y \in T : ~(<<y, x>> \in R)
  <2>1. \E x \in T : \A y \in T : ~(<<y, x>> \in R)
    BY <1>1, WFMin
  <2> QED BY <2>1
<1>4. \A y \in T : ~(y < x)
  BY <1>2, <1>3
<1>5. \A y \in T : x <= y
  BY <1>4
<1> QED BY <1>5

\* The settings, one fact at a time.
LEMMA SettingFacts ==
    /\ Sessions \in Nat /\ SessionLimit \in Nat /\ SessionLimit >= 1 /\ MaxTime \in Nat
    /\ IdleTime \in Nat /\ LifeTime \in Nat
    /\ \A pl \in Plans : pl.secret \in Nat /\ pl.sessions \in 0 .. Sessions /\ pl.time \in 0 .. MaxTime
BY SessionAssumption DEF SessionAssumption

\* The session rows are finitely many, and so are the open ones.
LEMMA OpenFinite ==
    /\ IsFiniteSet(OpenSessions) /\ Cardinality(OpenSessions) \in Nat
    /\ \A T \in SUBSET OpenSessions :
          IsFiniteSet(T) /\ Cardinality(T) \in Nat /\ Cardinality(T) <= Cardinality(OpenSessions)
<1>1. IsFiniteSet(1 .. Sessions)
  BY SettingFacts, FS_Interval
<1>2. OpenSessions \in SUBSET (1 .. Sessions)
  BY DEF OpenSessions
<1>3. IsFiniteSet(OpenSessions)
  BY <1>1, <1>2, FS_Subset
<1>4. Cardinality(OpenSessions) \in Nat
  BY <1>3, FS_CardinalityType
<1>5. ASSUME NEW T \in SUBSET OpenSessions
      PROVE  IsFiniteSet(T) /\ Cardinality(T) \in Nat /\ Cardinality(T) <= Cardinality(OpenSessions)
  <2>1. IsFiniteSet(T) /\ Cardinality(T) <= Cardinality(OpenSessions)
    BY <1>3, FS_Subset
  <2>2. Cardinality(T) \in Nat
    BY <2>1, FS_CardinalityType
  <2> QED BY <2>1, <2>2
<1> QED BY <1>3, <1>4, <1>5

\* What issue_session leaves open beside the new session: when the account is
\* at its limit, the oldest of its sessions is among those that it ends.
LEMMA KeptBelowLimit ==
    ASSUME SessionInv, NEW new \in 1 .. Sessions, session[new].status = "none"
    PROVE  /\ IsFiniteSet(OpenSessions \ Excess(new))
           /\ Cardinality(OpenSessions \ Excess(new)) \in Nat
           /\ Cardinality(OpenSessions \ Excess(new)) <= SessionLimit - 1
<1> DEFINE kept == OpenSessions \ Excess(new)
<1> DEFINE Newer(s) == {o \in OpenSessions : session[o].nth > session[s].nth}
<1>1. Excess(new) = {s \in OpenSessions : Cardinality(Newer(s)) >= SessionLimit - 1}
  <2>1. DOMAIN session = 1 .. Sessions
    BY DEF SessionInv, SessionTypeOK
  <2>2. {s \in DOMAIN session : session[s].status = "open" /\ s # new} = OpenSessions
    BY <2>1 DEF OpenSessions
  <2> QED BY <2>2 DEF Excess
<1>2. \A s \in OpenSessions : session[s].nth = s /\ s \in Nat
  BY SettingFacts DEF SessionInv, SessionIsCurrent, OpenSessions
<1>3. kept \in SUBSET OpenSessions
  OBVIOUS
<1>4. IsFiniteSet(kept) /\ Cardinality(kept) \in Nat /\ Cardinality(kept) <= Cardinality(OpenSessions)
  <2> HIDE DEF kept
  <2> QED BY <1>3, OpenFinite
<1>5. Cardinality(OpenSessions) <= SessionLimit /\ Cardinality(OpenSessions) \in Nat
  BY OpenFinite DEF SessionInv
<1>6. CASE Cardinality(OpenSessions) # SessionLimit
  <2> HIDE DEF kept
  <2>1. Cardinality(OpenSessions) <= SessionLimit - 1
    BY <1>5, <1>6, SettingFacts
  <2>2. Cardinality(kept) <= SessionLimit - 1
    BY <2>1, <1>4, <1>5, SettingFacts
  <2> QED BY <2>2, <1>4 DEF kept
<1>7. CASE Cardinality(OpenSessions) = SessionLimit
  <2>1. OpenSessions # {}
    <3>1. Cardinality({}) = 0
      BY FS_EmptySet
    <3> QED BY <3>1, <1>7, SettingFacts
  <2>2. OpenSessions \subseteq Nat
    BY <1>2
  <2>3. PICK m \in OpenSessions : \A y \in OpenSessions : m <= y
    BY <2>1, <2>2, LeastNumber
  <2>4. Newer(m) = OpenSessions \ {m}
    <3>1. \A o \in OpenSessions : session[o].nth > session[m].nth <=> o # m
      BY <1>2, <2>3
    <3> QED BY <3>1, <2>3
  <2>5. /\ IsFiniteSet(OpenSessions \ {m})
        /\ Cardinality(OpenSessions \ {m}) = SessionLimit - 1
    BY <1>7, <2>3, OpenFinite, FS_RemoveElement
  <2>6. m \in Excess(new)
    <3>1. Cardinality(Newer(m)) = SessionLimit - 1
      BY <2>4, <2>5
    <3> HIDE DEF Newer
    <3>2. Cardinality(Newer(m)) >= SessionLimit - 1
      BY <3>1, SettingFacts
    <3> QED BY <3>2, <1>1, <2>3
  <2>7. kept \in SUBSET (OpenSessions \ {m})
    BY <2>6
  <2>8. Cardinality(kept) <= SessionLimit - 1
    <3> HIDE DEF kept
    <3> QED BY <2>5, <2>7, FS_Subset
  <2> QED BY <2>8, <1>4
<1> QED BY <1>6, <1>7

-----------------------------------------------------------------------------
(* What a step leaves alone.                                               *)

\* The codes that were accepted still are.
CodesKept == \A t \in Times : codes[t] = 1 => codes'[t] = 1

\* The account moves on to a later version, or keeps what a version stands for.
AccountMovesOn ==
    \/ account'.version > account.version
    \/ /\ account'.version = account.version
       /\ account'.cred = account.cred /\ account'.may = account.may
       /\ CodesKept

\* A session row stays in use; one that is open was, and its codes are kept.
RowsMoveOn ==
    \A s \in 1 .. Sessions : session[s].status # "none" =>
        /\ session'[s].status # "none"
        /\ session'[s].status = "open" => session[s].status = "open" /\ CodesKept

\* A request that a step does not touch keeps what it stands for, whatever
\* another request commits.
LEMMA RequestKept ==
    ASSUME SessionInv, SessionTypeOK', AccountMovesOn, RowsMoveOn,
           NEW q \in Procs, proc'[q] = proc[q]
    PROVE  RequestIsCurrent(q)' /\ RequestHasSession(q)'
<1>1. /\ proc[q] \in RequestRow /\ account \in AccountRow /\ account' \in AccountRow
      /\ RequestIsCurrent(q) /\ RequestHasSession(q)
  BY DEF SessionInv, SessionTypeOK
<1>2. /\ proc[q].version \in Nat /\ proc[q].at \in Times /\ proc[q].sess \in 0 .. Sessions
      /\ proc[q].mfa \in Times \cup {Unset}
      /\ account.version \in Nat /\ account'.version \in Nat
  BY <1>1 DEF RequestRow, AccountRow
<1>3. RequestIsCurrent(q)'
  BY <1>1, <1>2 DEF RequestIsCurrent, AccountMovesOn, CodesKept, Accepted
<1>4. RequestHasSession(q)'
  BY <1>1, <1>2, SettingFacts DEF RequestHasSession, RowsMoveOn, CodesKept
<1> QED BY <1>3, <1>4

\* The same for all requests when one of them moves to r.
LEMMA RequestsKept ==
    ASSUME SessionInv, SessionTypeOK', AccountMovesOn, RowsMoveOn,
           NEW p \in Procs, NEW r, proc' = [proc EXCEPT ![p] = r],
           r.version <= account'.version,
           r.version = account'.version =>
              /\ r.pc = "issue" => r.cred = account'.cred /\ (r.mfa # Unset => codes'[r.mfa] = 1)
              /\ r.pc = "touch" => account'.may,
           r.pc \in {"touch", "granted", "mark"} =>
              r.sess # 0 /\ session'[r.sess].status # "none",
           r.pc = "mark" /\ session'[r.sess].status = "open" => codes'[r.at] = 1
    PROVE  \A q \in Procs : RequestIsCurrent(q)' /\ RequestHasSession(q)'
<1> SUFFICES ASSUME NEW q \in Procs
             PROVE  RequestIsCurrent(q)' /\ RequestHasSession(q)'
  OBVIOUS
<1>1. proc \in [Procs -> RequestRow]
  BY DEF SessionInv, SessionTypeOK
<1>2. CASE q = p
  <2>1. proc'[q] = r
    BY <1>1, <1>2
  <2>2. RequestIsCurrent(q)'
    BY <2>1 DEF RequestIsCurrent, Accepted
  <2>3. RequestHasSession(q)'
    BY <2>1 DEF RequestHasSession
  <2> QED BY <2>2, <2>3
<1>3. CASE q # p
  <2>1. proc'[q] = proc[q]
    BY <1>1, <1>3
  <2> QED BY <2>1, RequestKept
<1> QED BY <1>2, <1>3

\* A request that ends stands for nothing.
LEMMA IdleIsARequest ==
    Idle \in RequestRow
<1>1. 0 \in Times /\ 0 \in 0 .. Sessions
  BY SettingFacts DEF Times
<1> QED BY <1>1 DEF Idle, RequestRow

\* The same when a request ends (the end of every handler).
LEMMA RequestsKeptDone ==
    ASSUME SessionInv, SessionTypeOK', AccountMovesOn, RowsMoveOn,
           NEW p \in Procs, Done(p)
    PROVE  \A q \in Procs : RequestIsCurrent(q)' /\ RequestHasSession(q)'
<1>1. Idle.version = 0 /\ Idle.pc = "idle"
  BY DEF Idle
<1>2. account'.version \in Nat /\ account'.version > 0
  BY DEF SessionTypeOK, AccountRow
<1>3. proc' = [proc EXCEPT ![p] = Idle]
  BY DEF Done
<1>4. /\ Idle.version <= account'.version /\ Idle.version # account'.version
      /\ Idle.pc # "issue" /\ Idle.pc # "touch" /\ Idle.pc # "mark"
      /\ Idle.pc \notin {"touch", "granted", "mark"}
  BY <1>1, <1>2
<1> HIDE DEF Idle
<1> QED BY <1>3, <1>4, RequestsKept

\* No session opens: the limit still holds.
LEMMA NoneOpens ==
    ASSUME SessionInv, \A s \in 1 .. Sessions : session'[s].status = "open" => session[s].status = "open"
    PROVE  Cardinality(OpenSessions') <= SessionLimit
<1>1. OpenSessions' \in SUBSET OpenSessions
  BY DEF OpenSessions
<1>2. Cardinality(OpenSessions') \in Nat /\ Cardinality(OpenSessions') <= Cardinality(OpenSessions)
  BY <1>1, OpenFinite
<1>3. Cardinality(OpenSessions) <= SessionLimit /\ Cardinality(OpenSessions) \in Nat
  BY OpenFinite DEF SessionInv
<1> HIDE DEF OpenSessions
<1> QED BY <1>2, <1>3, SettingFacts

\* The account, the codes and the sessions rest.
LEMMA StoreRests ==
    ASSUME SessionInv, UNCHANGED <<account, session, codes>>
    PROVE  /\ AccountMovesOn /\ RowsMoveOn
           /\ \A s \in 1 .. Sessions : SessionIsCurrent(s)'
           /\ StepsAreUsed'
           /\ Cardinality(OpenSessions') <= SessionLimit
<1>1. CodesKept
  BY DEF CodesKept
<1>2. AccountMovesOn /\ RowsMoveOn
  BY <1>1 DEF AccountMovesOn, RowsMoveOn
<1>3. \A s \in 1 .. Sessions : SessionIsCurrent(s)'
  BY DEF SessionInv, SessionIsCurrent, Accepted
<1>4. StepsAreUsed'
  BY DEF SessionInv, StepsAreUsed
<1>5. Cardinality(OpenSessions') <= SessionLimit
  BY NoneOpens
<1> QED BY <1>2, <1>3, <1>4, <1>5

\* A step of one request that writes no row of the store.
LEMMA RequestMoves ==
    ASSUME SessionInv, UNCHANGED <<now, plan, account, session, codes>>,
           NEW p \in Procs, NEW r \in RequestRow, proc' = [proc EXCEPT ![p] = r],
           r.version <= account.version,
           r.version = account.version =>
              /\ r.pc = "issue" => r.cred = account.cred /\ (r.mfa # Unset => codes[r.mfa] = 1)
              /\ r.pc = "touch" => account.may,
           r.pc \in {"touch", "granted", "mark"} =>
              r.sess # 0 /\ session[r.sess].status # "none",
           r.pc # "mark"
    PROVE  SessionInv'
<1>1. SessionTypeOK'
  BY DEF SessionInv, SessionTypeOK
<1>2. /\ AccountMovesOn /\ RowsMoveOn
      /\ \A s \in 1 .. Sessions : SessionIsCurrent(s)'
      /\ StepsAreUsed'
      /\ Cardinality(OpenSessions') <= SessionLimit
  BY StoreRests
<1>3. \A q \in Procs : RequestIsCurrent(q)' /\ RequestHasSession(q)'
  BY <1>1, <1>2, RequestsKept
<1> QED BY <1>1, <1>2, <1>3 DEF SessionInv

\* A request that ends without writing a row, as every refusal does.
LEMMA RequestEnds ==
    ASSUME SessionInv, UNCHANGED <<now, plan, account, session, codes>>,
           NEW p \in Procs, Done(p)
    PROVE  SessionInv'
<1>1. Idle.version = 0 /\ Idle.pc = "idle"
  BY DEF Idle
<1>2. account.version \in Nat /\ account.version > 0
  BY DEF SessionInv, SessionTypeOK, AccountRow
<1>3. proc' = [proc EXCEPT ![p] = Idle]
  BY DEF Done
<1>4. /\ Idle.version <= account.version /\ Idle.version # account.version
      /\ Idle.pc # "issue" /\ Idle.pc # "touch" /\ Idle.pc # "mark"
      /\ Idle.pc \notin {"touch", "granted", "mark"}
  BY <1>1, <1>2
<1> HIDE DEF Idle
<1> QED BY <1>3, <1>4, IdleIsARequest, RequestMoves

\* What the type invariant says of a request, the account and the clock.
LEMMA TypeFacts ==
    ASSUME SessionInv
    PROVE  /\ now \in Times /\ now \in Nat /\ plan \in Plans
           /\ account \in AccountRow
           /\ account.version \in Nat /\ account.version > 0 /\ account.cred \in Nat
           /\ account.secret \in Nat /\ account.last \in Times \cup {Unset}
           /\ account.enabled \in BOOLEAN /\ account.may \in BOOLEAN
           /\ proc \in [Procs -> RequestRow] /\ session \in [1 .. Sessions -> SessionRow]
           /\ codes \in [Times -> Nat]
           /\ Times \subseteq Nat /\ Unset \notin Times
           /\ \A p \in Procs : proc[p] \in RequestRow
           /\ \A p \in Procs : /\ proc[p].at \in Times /\ proc[p].sess \in 0 .. Sessions
                               /\ proc[p].version \in Nat /\ proc[p].cred \in Nat
                               /\ proc[p].mfa \in Times \cup {Unset}
<1>1. plan \in Plans /\ now \in 0 .. plan.time /\ plan.time \in 0 .. MaxTime
  BY SettingFacts DEF SessionInv, SessionTypeOK
<1>2. now \in Times /\ now \in Nat /\ Times \subseteq Nat /\ Unset \notin Times
  BY <1>1, SettingFacts DEF Times, Unset
<1>3. /\ account \in AccountRow /\ proc \in [Procs -> RequestRow]
      /\ session \in [1 .. Sessions -> SessionRow] /\ codes \in [Times -> Nat]
  BY DEF SessionInv, SessionTypeOK
<1>4. /\ account.version \in Nat /\ account.version > 0 /\ account.cred \in Nat
      /\ account.secret \in Nat /\ account.last \in Times \cup {Unset}
      /\ account.enabled \in BOOLEAN /\ account.may \in BOOLEAN
  BY <1>3 DEF AccountRow
<1>5. \A p \in Procs : proc[p] \in RequestRow
  BY <1>3
<1>6. \A p \in Procs : /\ proc[p].at \in Times /\ proc[p].sess \in 0 .. Sessions
                       /\ proc[p].version \in Nat /\ proc[p].cred \in Nat
                       /\ proc[p].mfa \in Times \cup {Unset}
  BY <1>5 DEF RequestRow
<1> QED BY <1>1, <1>2, <1>3, <1>4, <1>5, <1>6

-----------------------------------------------------------------------------
(* One lemma per operation.                                                *)

\* The snapshot of the account row is of the present version.
LEMMA BeginLocalLoginKeeps ==
    ASSUME SessionInv, NEW p \in Procs, BeginLocalLogin(p)
    PROVE  SessionInv'
<1> DEFINE r == [Idle EXCEPT !.pc = "login", !.at = now, !.version = account.version]
<1>1. r \in RequestRow
  BY IdleIsARequest, TypeFacts DEF RequestRow
<1>2. r.version <= account.version /\ r.pc = "login"
  BY TypeFacts DEF Idle
<1>3. proc' = [proc EXCEPT ![p] = r] /\ UNCHANGED <<now, plan, account, session, codes>>
  BY DEF BeginLocalLogin, Goto
<1> HIDE DEF r
<1> QED BY <1>1, <1>2, <1>3, RequestMoves

\* A break-glass login starts without a version.
LEMMA BeginBreakGlassLoginKeeps ==
    ASSUME SessionInv, NEW p \in Procs, BeginBreakGlassLogin(p)
    PROVE  SessionInv'
<1> DEFINE r == [Idle EXCEPT !.pc = "login", !.at = now]
<1>1. r \in RequestRow
  BY IdleIsARequest, TypeFacts DEF RequestRow
<1>2. r.version = 0 /\ r.pc = "login"
  BY DEF Idle
<1>3. proc' = [proc EXCEPT ![p] = r] /\ UNCHANGED <<now, plan, account, session, codes>>
  BY DEF BeginBreakGlassLogin, Goto
<1> HIDE DEF r
<1>4. r.version <= account.version
  BY <1>2, TypeFacts
<1> QED BY <1>1, <1>2, <1>3, <1>4, RequestMoves

\* A code that is fresh is used for the first time; what was accepted stays.
LEMMA FreshCodeUsed ==
    ASSUME SessionInv, NEW at \in Times, at > account.last,
           codes' = [codes EXCEPT ![at] = @ + 1], account'.last = at
    PROVE  /\ CodesKept /\ codes'[at] = 1 /\ codes' \in [Times -> Nat]
           /\ StepsAreUsed'
<1>1. codes \in [Times -> Nat] /\ Times \subseteq Nat
  BY TypeFacts
<1>2. codes[at] = 0
  BY DEF SessionInv, StepsAreUsed
<1>3. \A t \in Times : codes'[t] = IF t = at THEN 1 ELSE codes[t]
  BY <1>1, <1>2
<1>4. codes' \in [Times -> Nat]
  BY <1>1
<1>5. CodesKept
  BY <1>2, <1>3 DEF CodesKept
<1>6. StepsAreUsed'
  <2> SUFFICES ASSUME NEW t \in Times
               PROVE  codes'[t] <= 1 /\ (t > account'.last => codes'[t] = 0)
    BY DEF StepsAreUsed
  <2>1. codes[t] <= 1 /\ (t > account.last => codes[t] = 0)
    BY DEF SessionInv, StepsAreUsed
  <2>2. account.last \in Int /\ t \in Nat /\ at \in Nat
    BY TypeFacts DEF Unset
  <2>3. CASE t = at
    BY <2>2, <2>3, <1>3
  <2>4. CASE t # at
    <3>1. codes'[t] = codes[t]
      BY <1>3, <2>4
    <3>2. t > at => t > account.last
      BY <2>2
    <3> QED BY <3>1, <3>2, <2>1
  <2> QED BY <2>3, <2>4
<1> QED BY <1>3, <1>4, <1>5, <1>6

\* A step of one request that uses a code and writes nothing else of the store.
LEMMA CodeIsSpent ==
    ASSUME SessionInv, NEW at \in Times, UseCode(at), UNCHANGED <<now, plan, session>>,
           NEW p \in Procs, NEW r \in RequestRow, proc' = [proc EXCEPT ![p] = r],
           r.version <= account.version,
           r.pc # "touch",
           r.version = account.version /\ r.pc = "issue" =>
              r.cred = account.cred /\ r.mfa = at,
           r.pc \in {"granted", "mark"} => r.sess # 0 /\ session[r.sess].status # "none",
           r.pc = "mark" => r.at = at
    PROVE  SessionInv'
<1>1. /\ account' = [account EXCEPT !.last = at] /\ at > account.last
      /\ codes' = [codes EXCEPT ![at] = @ + 1]
  BY DEF UseCode, FreshCode, AcceptCode
<1>2. /\ account' \in AccountRow /\ account'.last = at
      /\ account'.version = account.version /\ account'.cred = account.cred
      /\ account'.may = account.may
  BY <1>1, TypeFacts DEF AccountRow
<1>3. CodesKept /\ codes'[at] = 1 /\ codes' \in [Times -> Nat] /\ StepsAreUsed'
  BY <1>1, <1>2, FreshCodeUsed
<1>4. SessionTypeOK'
  BY <1>2, <1>3 DEF SessionInv, SessionTypeOK
<1>5. AccountMovesOn /\ RowsMoveOn
  BY <1>2, <1>3 DEF AccountMovesOn, RowsMoveOn
<1>6. \A q \in Procs : RequestIsCurrent(q)' /\ RequestHasSession(q)'
  <2>1. r.version <= account'.version
    BY <1>2
  <2>2. r.version = account'.version =>
           /\ r.pc = "issue" => r.cred = account'.cred /\ (r.mfa # Unset => codes'[r.mfa] = 1)
           /\ r.pc = "touch" => account'.may
    BY <1>2, <1>3
  <2>3. r.pc \in {"touch", "granted", "mark"} => r.sess # 0 /\ session'[r.sess].status # "none"
    OBVIOUS
  <2>4. r.pc = "mark" /\ session'[r.sess].status = "open" => codes'[r.at] = 1
    BY <1>3
  <2> QED BY <1>4, <1>5, <2>1, <2>2, <2>3, <2>4, RequestsKept
<1>7. ASSUME NEW s \in 1 .. Sessions PROVE SessionIsCurrent(s)'
  <2>1. session[s].mfa \in Times \cup {Unset}
    BY TypeFacts DEF SessionRow
  <2>2. SessionIsCurrent(s)
    BY DEF SessionInv
  <2>3. session'[s] = session[s]
    OBVIOUS
  <2> QED BY <1>2, <1>3, <2>1, <2>2, <2>3 DEF SessionIsCurrent, Accepted, CodesKept
<1>8. Cardinality(OpenSessions') <= SessionLimit
  BY NoneOpens
<1> QED BY <1>3, <1>4, <1>6, <1>7, <1>8 DEF SessionInv

\* A refused login writes the attempt row alone.
LEMMA RefuseLoginKeeps ==
    ASSUME SessionInv, NEW p \in Procs, RefuseLogin(p)
    PROVE  SessionInv'
<1>1. Done(p) /\ UNCHANGED <<now, plan, account, session, codes>>
  BY DEF RefuseLogin
<1> QED BY <1>1, RequestEnds

\* The password alone, or with the code: the request holds the credentials that
\* are current if its version of the account is.
LEMMA AuthenticateLocalKeeps ==
    ASSUME SessionInv, NEW p \in Procs, AuthenticateLocal(p)
    PROVE  SessionInv'
<1>1. CASE RefuseLogin(p)
  BY <1>1, RefuseLoginKeeps
<1>2. CASE AcceptLogin(p, proc[p].version, Unset) /\ UNCHANGED <<account, codes>>
  <2> DEFINE r == [proc[p] EXCEPT !.pc = "issue", !.version = proc[p].version,
                                  !.cred = account.cred, !.mfa = Unset]
  <2>1. r \in RequestRow
    BY TypeFacts DEF RequestRow
  <2>2. r.version = proc[p].version /\ r.pc = "issue" /\ r.cred = account.cred /\ r.mfa = Unset
    BY TypeFacts DEF RequestRow
  <2>3. proc' = [proc EXCEPT ![p] = r] /\ UNCHANGED <<now, plan, account, session, codes>>
    BY <1>2 DEF AcceptLogin, Goto
  <2>4. proc[p].version <= account.version
    BY DEF SessionInv, RequestIsCurrent
  <2> HIDE DEF r
  <2> QED BY <2>1, <2>2, <2>3, <2>4, RequestMoves
<1>3. CASE UseCode(proc[p].at) /\ AcceptLogin(p, proc[p].version, proc[p].at)
  <2> DEFINE r == [proc[p] EXCEPT !.pc = "issue", !.version = proc[p].version,
                                  !.cred = account.cred, !.mfa = proc[p].at]
  <2>1. r \in RequestRow
    BY TypeFacts DEF RequestRow
  <2>2. /\ r.version = proc[p].version /\ r.pc = "issue" /\ r.cred = account.cred
        /\ r.mfa = proc[p].at
    BY TypeFacts DEF RequestRow
  <2>3. proc' = [proc EXCEPT ![p] = r] /\ UNCHANGED <<now, plan, session>>
    BY <1>3 DEF AcceptLogin, Goto
  <2>4. proc[p].version <= account.version /\ proc[p].at \in Times
    BY TypeFacts DEF SessionInv, RequestIsCurrent
  <2> HIDE DEF r
  <2> QED BY <1>3, <2>1, <2>2, <2>3, <2>4, CodeIsSpent
<1> QED BY <1>1, <1>2, <1>3 DEF AuthenticateLocal

\* The break-glass login reads the version with the lock held, after its code.
LEMMA AuthenticateBreakGlassKeeps ==
    ASSUME SessionInv, NEW p \in Procs, AuthenticateBreakGlass(p)
    PROVE  SessionInv'
<1>1. CASE RefuseLogin(p)
  BY <1>1, RefuseLoginKeeps
<1>2. CASE UseCode(proc[p].at) /\ AcceptLogin(p, account.version, proc[p].at)
  <2> DEFINE r == [proc[p] EXCEPT !.pc = "issue", !.version = account.version,
                                  !.cred = account.cred, !.mfa = proc[p].at]
  <2>1. r \in RequestRow
    BY TypeFacts DEF RequestRow
  <2>2. /\ r.version = account.version /\ r.pc = "issue" /\ r.cred = account.cred
        /\ r.mfa = proc[p].at
    BY TypeFacts DEF RequestRow
  <2>3. proc' = [proc EXCEPT ![p] = r] /\ UNCHANGED <<now, plan, session>>
    BY <1>2 DEF AcceptLogin, Goto
  <2>4. account.version <= account.version /\ proc[p].at \in Times
    BY TypeFacts
  <2> HIDE DEF r
  <2> QED BY <1>2, <2>1, <2>2, <2>3, <2>4, CodeIsSpent
<1> QED BY <1>1, <1>2 DEF AuthenticateBreakGlass

\* A request is let through to the second transaction with the version and the
\* permission it read.
LEMMA authenticateKeeps ==
    ASSUME SessionInv, NEW p \in Procs, NEW s \in 1 .. Sessions, authenticate(p, s)
    PROVE  SessionInv'
<1>0. UNCHANGED <<now, plan, account, session, codes>>
  BY DEF authenticate
<1>1. CASE Usable(s) /\ account.may
  <2> DEFINE r == [Idle EXCEPT !.pc = "touch", !.sess = s, !.version = account.version]
  <2>1. r \in RequestRow
    <3>1. s \in 0 .. Sessions
      BY SettingFacts
    <3> QED BY <3>1, IdleIsARequest, TypeFacts DEF RequestRow
  <2>2. r.version = account.version /\ r.pc = "touch" /\ r.sess = s
    BY DEF Idle
  <2>3. proc' = [proc EXCEPT ![p] = r]
    BY <1>1 DEF authenticate, Goto
  <2>4. s # 0 /\ session[s].status # "none" /\ account.version <= account.version
    BY TypeFacts DEF authenticate
  <2> HIDE DEF r
  <2> QED BY <1>0, <1>1, <2>1, <2>2, <2>3, <2>4, RequestMoves
<1>2. CASE ~(Usable(s) /\ account.may)
  <2>1. Done(p)
    BY <1>2 DEF authenticate
  <2> QED BY <1>0, <2>1, RequestEnds
<1> QED BY <1>1, <1>2

\* A handler that ends.
LEMMA FinishKeeps ==
    ASSUME SessionInv, NEW p \in Procs, Finish(p)
    PROVE  SessionInv'
<1>1. Done(p) /\ UNCHANGED <<now, plan, account, session, codes>>
  BY DEF Finish
<1> QED BY <1>1, RequestEnds

\* The first transaction of refresh_mfa: the code is used, the session not yet marked.
LEMMA verify_totpKeeps ==
    ASSUME SessionInv, NEW p \in Procs, verify_totp(p)
    PROVE  SessionInv'
<1>0. proc[p].pc = "granted" /\ UNCHANGED <<now, plan, session>>
  BY DEF verify_totp
<1>1. CASE account.enabled /\ FreshCode(proc[p].at)
  <2> DEFINE r == [proc[p] EXCEPT !.pc = "mark"]
  <2>1. r \in RequestRow
    BY TypeFacts DEF RequestRow
  <2>2. /\ r.version = proc[p].version /\ r.pc = "mark" /\ r.sess = proc[p].sess
        /\ r.at = proc[p].at
    BY TypeFacts DEF RequestRow
  <2>3. proc' = [proc EXCEPT ![p] = r] /\ UseCode(proc[p].at)
    BY <1>1 DEF verify_totp, Goto, UseCode
  <2>4. proc[p].version <= account.version /\ proc[p].at \in Times
    BY TypeFacts DEF SessionInv, RequestIsCurrent
  <2>5. proc[p].sess # 0 /\ session[proc[p].sess].status # "none"
    BY <1>0 DEF SessionInv, RequestHasSession
  <2> HIDE DEF r
  <2> QED BY <1>0, <2>1, <2>2, <2>3, <2>4, <2>5, CodeIsSpent
<1>2. CASE ~(account.enabled /\ FreshCode(proc[p].at))
  <2>1. Done(p) /\ UNCHANGED <<account, codes>>
    BY <1>2 DEF verify_totp
  <2> QED BY <1>0, <2>1, RequestEnds
<1> QED BY <1>1, <1>2

-----------------------------------------------------------------------------
(* The operations that write session rows.                                 *)

\* Ending sessions changes nothing but their status.
LEMMA RevokedRows ==
    ASSUME SessionInv, NEW rows
    PROVE  /\ Revoked(rows) \in [1 .. Sessions -> SessionRow]
           /\ \A s \in 1 .. Sessions :
                 /\ Revoked(rows)[s].status = IF s \in rows /\ session[s].status = "open"
                                              THEN "revoked" ELSE session[s].status
                 /\ Revoked(rows)[s].version = session[s].version
                 /\ Revoked(rows)[s].cred = session[s].cred
                 /\ Revoked(rows)[s].mfa = session[s].mfa
                 /\ Revoked(rows)[s].nth = session[s].nth
<1>1. session \in [1 .. Sessions -> SessionRow]
  BY TypeFacts
<1>2. \A s \in 1 .. Sessions :
         Revoked(rows)[s] = IF s \in rows /\ session[s].status = "open"
                            THEN [session[s] EXCEPT !.status = "revoked"] ELSE session[s]
  BY <1>1 DEF Revoked
<1>3. \A s \in 1 .. Sessions : session[s] \in SessionRow
  BY <1>1
<1>4. ASSUME NEW s \in 1 .. Sessions
      PROVE  /\ [session[s] EXCEPT !.status = "revoked"] \in SessionRow
             /\ [session[s] EXCEPT !.status = "revoked"].status = "revoked"
             /\ [session[s] EXCEPT !.status = "revoked"].version = session[s].version
             /\ [session[s] EXCEPT !.status = "revoked"].cred = session[s].cred
             /\ [session[s] EXCEPT !.status = "revoked"].mfa = session[s].mfa
             /\ [session[s] EXCEPT !.status = "revoked"].nth = session[s].nth
  BY <1>3 DEF SessionRow
<1>5. Revoked(rows) \in [1 .. Sessions -> SessionRow]
  <2>1. Revoked(rows) = [s \in 1 .. Sessions |-> Revoked(rows)[s]]
    BY <1>1 DEF Revoked
  <2>2. \A s \in 1 .. Sessions : Revoked(rows)[s] \in SessionRow
    BY <1>2, <1>3, <1>4
  <2> QED BY <2>1, <2>2
<1> QED BY <1>2, <1>4, <1>5

\* A step of one request that only writes session rows, at the same version.
LEMMA RowsWritten ==
    ASSUME SessionInv, UNCHANGED <<now, plan, account, codes>>,
           session' \in [1 .. Sessions -> SessionRow],
           \A s \in 1 .. Sessions : SessionIsCurrent(s)',
           \A s \in 1 .. Sessions : session[s].status # "none" =>
              /\ session'[s].status # "none"
              /\ session'[s].status = "open" => session[s].status = "open",
           Cardinality(OpenSessions') <= SessionLimit,
           NEW p \in Procs, NEW r \in RequestRow, proc' = [proc EXCEPT ![p] = r],
           r = Idle \/ (r.pc = "granted" /\ r.version <= account.version /\ r.sess # 0
                           /\ session'[r.sess].status # "none")
    PROVE  SessionInv'
<1>1. SessionTypeOK'
  BY DEF SessionInv, SessionTypeOK
<1>2. AccountMovesOn /\ RowsMoveOn
  BY DEF AccountMovesOn, RowsMoveOn, CodesKept
<1>3. StepsAreUsed'
  BY DEF SessionInv, StepsAreUsed
<1>4. \A q \in Procs : RequestIsCurrent(q)' /\ RequestHasSession(q)'
  <2>1. CASE r = Idle
    <3>1. Done(p)
      BY <2>1 DEF Done
    <3> QED BY <1>1, <1>2, <3>1, RequestsKeptDone
  <2>2. CASE r.pc = "granted" /\ r.version <= account.version /\ r.sess # 0
                /\ session'[r.sess].status # "none"
    BY <1>1, <1>2, <2>2, RequestsKept
  <2> QED BY <2>1, <2>2
<1> QED BY <1>1, <1>3, <1>4 DEF SessionInv

\* The idle time moves, within the session's end.
LEMMA touch_authorized_sessionKeeps ==
    ASSUME SessionInv, NEW p \in Procs, touch_authorized_session(p)
    PROVE  SessionInv'
<1> DEFINE s == proc[p].sess
<1>0. /\ UNCHANGED <<now, plan, account, codes>> /\ proc[p].pc = "touch"
      /\ s \in 1 .. Sessions /\ session[s].status # "none"
  <2>1. proc[p].pc = "touch" /\ UNCHANGED <<now, plan, account, codes>>
    BY DEF touch_authorized_session
  <2>2. s # 0 /\ session[s].status # "none"
    BY <2>1 DEF SessionInv, RequestHasSession
  <2>3. s \in 0 .. Sessions
    BY TypeFacts
  <2> QED BY <2>1, <2>2, <2>3, SettingFacts
<1>1. CASE Usable(s) /\ account.version = proc[p].version
  <2> DEFINE i == IF now + IdleTime < session[s].end THEN now + IdleTime ELSE session[s].end
             r == [proc[p] EXCEPT !.pc = "granted", !.at = now]
             row == [session[s] EXCEPT !.idle = i]
  <2>1. i \in Nat
    <3>1. session[s].end \in Nat
      BY <1>0, TypeFacts DEF SessionRow
    <3>2. now + IdleTime \in Nat
      BY TypeFacts, SettingFacts
    <3> QED BY <3>1, <3>2
  <2>2. session' = [session EXCEPT ![s] = row] /\ proc' = [proc EXCEPT ![p] = r]
    BY <1>1 DEF touch_authorized_session, Goto
  <2> HIDE DEF i
  <2>3. /\ row \in SessionRow /\ row.status = session[s].status
        /\ row.version = session[s].version /\ row.cred = session[s].cred
        /\ row.mfa = session[s].mfa /\ row.nth = session[s].nth
    BY <1>0, <2>1, TypeFacts DEF SessionRow
  <2>4. r \in RequestRow
    BY TypeFacts DEF RequestRow
  <2>5. r.pc = "granted" /\ r.version = proc[p].version /\ r.sess = s
    BY TypeFacts DEF RequestRow
  <2> HIDE DEF row, r
  <2>6. session \in [1 .. Sessions -> SessionRow]
    BY TypeFacts
  <2>7. session' \in [1 .. Sessions -> SessionRow]
    BY <2>2, <2>3, <2>6
  <2>8. \A t \in 1 .. Sessions :
           /\ session'[t].status = session[t].status /\ session'[t].version = session[t].version
           /\ session'[t].cred = session[t].cred /\ session'[t].mfa = session[t].mfa
           /\ session'[t].nth = session[t].nth
    BY <2>2, <2>3, <2>6
  <2>9. \A t \in 1 .. Sessions : SessionIsCurrent(t)'
    BY <1>0, <2>8 DEF SessionInv, SessionIsCurrent, Accepted
  <2>10. Cardinality(OpenSessions') <= SessionLimit
    BY <2>8, NoneOpens
  <2>11. proc[p].version <= account.version
    BY DEF SessionInv, RequestIsCurrent
  <2>12. session'[r.sess].status # "none" /\ r.sess # 0
    BY <1>0, <2>5, <2>8
  <2> HIDE DEF s
  <2> QED BY <1>0, <2>2, <2>4, <2>5, <2>7, <2>8, <2>9, <2>10, <2>11, <2>12, RowsWritten
<1>2. CASE ~(Usable(s) /\ account.version = proc[p].version)
  <2>1. Done(p) /\ UNCHANGED session
    BY <1>2 DEF touch_authorized_session
  <2> QED BY <1>0, <2>1, RequestEnds
<1> QED BY <1>1, <1>2

\* Logging out ends the session of the request.
LEMMA revoke_sessionKeeps ==
    ASSUME SessionInv, NEW p \in Procs, revoke_session(p)
    PROVE  SessionInv'
<1> DEFINE rows == {proc[p].sess}
<1>1. /\ session' = Revoked(rows) /\ proc' = [proc EXCEPT ![p] = Idle]
      /\ UNCHANGED <<now, plan, account, codes>>
  BY DEF revoke_session, Done
<1> HIDE DEF rows
<1>2. session' \in [1 .. Sessions -> SessionRow]
  BY <1>1, RevokedRows
<1>3. \A s \in 1 .. Sessions :
         /\ session'[s].status = IF s \in rows /\ session[s].status = "open"
                                 THEN "revoked" ELSE session[s].status
         /\ session'[s].version = session[s].version /\ session'[s].cred = session[s].cred
         /\ session'[s].mfa = session[s].mfa /\ session'[s].nth = session[s].nth
  BY <1>1, RevokedRows
<1>4. \A s \in 1 .. Sessions :
         /\ session'[s].status = "open" => session[s].status = "open"
         /\ session[s].status # "none" <=> session'[s].status # "none"
  BY <1>3
<1>5. \A s \in 1 .. Sessions : SessionIsCurrent(s)'
  BY <1>1, <1>3, <1>4 DEF SessionInv, SessionIsCurrent, Accepted
<1>6. Cardinality(OpenSessions') <= SessionLimit
  BY <1>4, NoneOpens
<1> QED BY <1>1, <1>2, <1>4, <1>5, <1>6, IdleIsARequest, RowsWritten

\* The session is marked with a code of the present secret: had the secret been
\* replaced since verify_totp, the session would have been ended with it.
LEMMA mark_mfa_verifiedKeeps ==
    ASSUME SessionInv, NEW p \in Procs, mark_mfa_verified(p)
    PROVE  SessionInv'
<1> DEFINE s == proc[p].sess
           row == [session[s] EXCEPT !.mfa = proc[p].at]
<1>0. /\ UNCHANGED <<now, plan, account, codes>> /\ proc[p].pc = "mark" /\ Done(p)
      /\ session' = IF Usable(s) THEN [session EXCEPT ![s] = row] ELSE session
  BY DEF mark_mfa_verified
<1>1. CASE Usable(s)
  <2>1. s \in 1 .. Sessions /\ codes[proc[p].at] = 1
    <3>1. s # 0 /\ session[s].status = "open"
      BY <1>0, <1>1 DEF SessionInv, RequestHasSession, Usable
    <3>2. codes[proc[p].at] = 1
      BY <1>0, <3>1 DEF SessionInv, RequestHasSession
    <3>3. s \in 0 .. Sessions
      BY TypeFacts
    <3> QED BY <3>1, <3>2, <3>3, SettingFacts
  <2>2. /\ row \in SessionRow /\ row.status = session[s].status
        /\ row.version = session[s].version /\ row.cred = session[s].cred
        /\ row.mfa = proc[p].at /\ row.nth = session[s].nth
    BY <2>1, TypeFacts DEF SessionRow
  <2>3. session \in [1 .. Sessions -> SessionRow]
    BY TypeFacts
  <2> HIDE DEF row
  <2>4. session' = [session EXCEPT ![s] = row] /\ session' \in [1 .. Sessions -> SessionRow]
    BY <1>0, <1>1, <2>2, <2>3
  <2>5. \A t \in 1 .. Sessions :
           /\ session'[t].status = session[t].status /\ session'[t].version = session[t].version
           /\ session'[t].cred = session[t].cred /\ session'[t].nth = session[t].nth
           /\ session'[t].mfa = session[t].mfa \/ codes[session'[t].mfa] = 1
    BY <2>1, <2>2, <2>3, <2>4, SMTT(30)
  <2>6. \A t \in 1 .. Sessions : SessionIsCurrent(t)'
    BY <1>0, <2>5 DEF SessionInv, SessionIsCurrent, Accepted
  <2>7. Cardinality(OpenSessions') <= SessionLimit
    BY <2>5, NoneOpens
  <2>8. proc' = [proc EXCEPT ![p] = Idle]
    BY <1>0 DEF Done
  <2> HIDE DEF s
  <2> QED BY <1>0, <2>4, <2>5, <2>6, <2>7, <2>8, IdleIsARequest, RowsWritten
<1>2. CASE ~Usable(s)
  BY <1>0, <1>2, RequestEnds
<1> QED BY <1>1, <1>2

\* The new session stands for the credentials that were checked, since the
\* version was matched; beside it fewer than SessionLimit are left.
LEMMA issue_sessionKeeps ==
    ASSUME SessionInv, NEW p \in Procs, issue_session(p)
    PROVE  SessionInv'
<1> DEFINE free == {s \in 1 .. plan.sessions : session[s].status = "none"}
           new == CHOOSE s \in free : \A o \in free : s <= o
           old == Revoked(Excess(new))
           row == [status |-> "open", version |-> account.version, nth |-> new,
                   idle |-> now + IdleTime, end |-> now + LifeTime,
                   cred |-> proc[p].cred, mfa |-> proc[p].mfa]
<1>0. /\ UNCHANGED <<now, plan, account, codes>> /\ proc[p].pc = "issue" /\ Done(p)
      /\ free # {}
      /\ IF account.enabled /\ account.version = proc[p].version
         THEN session' = [old EXCEPT ![new] = row] ELSE UNCHANGED session
  BY DEF issue_session
<1>1. CASE account.enabled /\ account.version = proc[p].version
  <2>1. new \in 1 .. Sessions /\ session[new].status = "none"
    <3>1. free \subseteq Nat /\ free \subseteq 1 .. Sessions
      BY TypeFacts, SettingFacts
    <3>2. \E s \in free : \A o \in free : s <= o
      <4> HIDE DEF free
      <4> QED BY <1>0, <3>1, LeastNumber
    <3>3. new \in free
      <4> HIDE DEF free
      <4> QED BY <3>2
    <3> QED BY <3>1, <3>3
  <2>2. session' = [old EXCEPT ![new] = row]
    BY <1>0, <1>1
  <2> HIDE DEF free, new
  <2>3. /\ row \in SessionRow /\ row.status = "open" /\ row.version = account.version
        /\ row.nth = new /\ row.cred = proc[p].cred /\ row.mfa = proc[p].mfa
    <3>1. now \in Nat /\ IdleTime \in Nat /\ LifeTime \in Nat /\ Sessions \in Nat
      BY TypeFacts, SettingFacts
    <3>2. now + IdleTime \in Nat /\ now + LifeTime \in Nat
      BY <3>1
    <3>3. new \in Nat
      BY <2>1
    <3> QED BY <3>2, <3>3, TypeFacts DEF SessionRow
  <2>4. old \in [1 .. Sessions -> SessionRow]
    BY RevokedRows
  <2>5. \A s \in 1 .. Sessions :
           /\ old[s].status = IF s \in Excess(new) /\ session[s].status = "open"
                              THEN "revoked" ELSE session[s].status
           /\ old[s].version = session[s].version /\ old[s].cred = session[s].cred
           /\ old[s].mfa = session[s].mfa /\ old[s].nth = session[s].nth
    BY RevokedRows
  <2> HIDE DEF old, row
  <2>6. session' \in [1 .. Sessions -> SessionRow] /\ session'[new] = row
    BY <2>1, <2>2, <2>3, <2>4
  <2>7. \A s \in 1 .. Sessions : s # new => session'[s] = old[s]
    BY <2>2, <2>4
  <2>8. proc[p].cred = account.cred /\ (proc[p].mfa # Unset => codes[proc[p].mfa] = 1)
    BY <1>0, <1>1 DEF SessionInv, RequestIsCurrent, Accepted
  <2>9. ASSUME NEW s \in 1 .. Sessions PROVE SessionIsCurrent(s)'
    <3>1. CASE s = new
      BY <3>1, <1>0, <2>3, <2>6, <2>8, TypeFacts DEF SessionIsCurrent, Accepted
    <3>2. CASE s # new
      <4>1. SessionIsCurrent(s)
        BY DEF SessionInv
      <4>2. /\ session'[s].version = session[s].version /\ session'[s].cred = session[s].cred
            /\ session'[s].mfa = session[s].mfa /\ session'[s].nth = session[s].nth
            /\ session'[s].status = "open" => session[s].status = "open"
            /\ session'[s].status # "none" => session[s].status # "none"
        BY <3>2, <2>5, <2>7
      <4> QED BY <4>1, <4>2, <1>0 DEF SessionIsCurrent, Accepted
    <3> QED BY <3>1, <3>2
  <2>10. \A s \in 1 .. Sessions : session[s].status # "none" =>
            /\ session'[s].status # "none"
            /\ session'[s].status = "open" => session[s].status = "open"
    BY <2>1, <2>5, <2>7
  <2>11. Cardinality(OpenSessions') <= SessionLimit
    <3> DEFINE kept == OpenSessions \ Excess(new)
    <3>1. IsFiniteSet(kept) /\ Cardinality(kept) \in Nat /\ Cardinality(kept) <= SessionLimit - 1
      BY <2>1, KeptBelowLimit
    <3>2. OpenSessions' = kept \cup {new}
      <4>1. ASSUME NEW s \in 1 .. Sessions
            PROVE  session'[s].status = "open" <=> s \in kept \cup {new}
        <5>1. CASE s = new
          BY <5>1, <2>3, <2>6
        <5>2. CASE s # new
          BY <5>2, <2>5, <2>7 DEF OpenSessions
        <5> QED BY <5>1, <5>2
      <4>2. kept \cup {new} \subseteq 1 .. Sessions
        BY <2>1 DEF OpenSessions
      <4>3. OpenSessions' = {s \in 1 .. Sessions : session'[s].status = "open"}
        BY DEF OpenSessions
      <4> HIDE DEF kept
      <4> QED BY <4>1, <4>2, <4>3
    <3> HIDE DEF kept
    <3>3. Cardinality(kept \cup {new}) = IF new \in kept THEN Cardinality(kept)
                                         ELSE Cardinality(kept) + 1
      BY <3>1, FS_AddElement
    <3>4. Cardinality(kept \cup {new}) <= SessionLimit
      BY <3>1, <3>3, SettingFacts
    <3> QED BY <3>2, <3>4
  <2>12. proc' = [proc EXCEPT ![p] = Idle]
    BY <1>0 DEF Done
  <2>13. \A s \in 1 .. Sessions : SessionIsCurrent(s)'
    BY <2>9
  <2> QED BY <1>0, <2>6, <2>10, <2>11, <2>12, <2>13, IdleIsARequest, RowsWritten
<1>2. CASE ~(account.enabled /\ account.version = proc[p].version)
  <2>1. UNCHANGED session
    BY <1>0, <1>2
  <2> QED BY <1>0, <2>1, RequestEnds
<1> QED BY <1>1, <1>2

-----------------------------------------------------------------------------
(* The operations that move the account to its next version.               *)

\* Nothing that requests in flight hold is of the next version; the sessions
\* that are not ended keep their codes, and those of the next version stand
\* for its credentials.
LEMMA VersionMoves ==
    ASSUME SessionInv, UNCHANGED <<now, plan>>,
           account' \in AccountRow, account'.version = account.version + 1,
           codes' \in [Times -> Nat], StepsAreUsed',
           session' \in [1 .. Sessions -> SessionRow],
           \A s \in 1 .. Sessions :
              /\ session[s].status # "none" <=> session'[s].status # "none"
              /\ session'[s].status = "open" => session[s].status = "open" /\ CodesKept
              /\ session'[s].mfa = session[s].mfa /\ session'[s].nth = session[s].nth
              /\ \/ session'[s].version = session[s].version
                 \/ session'[s].version = account'.version /\ session'[s].cred = account'.cred,
           UNCHANGED proc \/ \E p \in Procs : Done(p)
    PROVE  SessionInv'
<1>1. proc' \in [Procs -> RequestRow]
  <2>1. CASE UNCHANGED proc
    BY <2>1, TypeFacts
  <2>2. CASE \E p \in Procs : Done(p)
    <3>1. PICK p \in Procs : Done(p)
      BY <2>2
    <3> QED BY <3>1, TypeFacts, IdleIsARequest DEF Done
  <2> QED BY <2>1, <2>2
<1>2. SessionTypeOK'
  BY <1>1 DEF SessionInv, SessionTypeOK
<1>3. account.version \in Nat /\ account'.version > account.version
  BY TypeFacts
<1>4. AccountMovesOn /\ RowsMoveOn
  BY <1>3 DEF AccountMovesOn, RowsMoveOn
<1>5. \A q \in Procs : RequestIsCurrent(q)' /\ RequestHasSession(q)'
  <2>1. CASE UNCHANGED proc
    BY <1>2, <1>4, <2>1, RequestKept
  <2>2. CASE \E p \in Procs : Done(p)
    BY <1>2, <1>4, <2>2, RequestsKeptDone
  <2> QED BY <2>1, <2>2
<1>6. ASSUME NEW s \in 1 .. Sessions PROVE SessionIsCurrent(s)'
  <2>1. SessionIsCurrent(s)
    BY DEF SessionInv
  <2>2. session[s].version \in Nat /\ session[s].mfa \in Times \cup {Unset}
    BY TypeFacts DEF SessionRow
  <2>3. session'[s].version <= account'.version
    BY <1>3, <2>1, <2>2 DEF SessionIsCurrent
  <2>4. session'[s].version = account'.version => session'[s].cred = account'.cred
    BY <1>3, <2>1, <2>2 DEF SessionIsCurrent
  <2>5. session'[s].status = "open" => Accepted(session[s].mfa)'
    BY <2>1, <2>2 DEF SessionIsCurrent, Accepted, CodesKept
  <2>6. session'[s].status # "none" => session'[s].nth = s
    BY <2>1 DEF SessionIsCurrent
  <2> QED BY <2>3, <2>4, <2>5, <2>6 DEF SessionIsCurrent, Accepted
<1>7. Cardinality(OpenSessions') <= SessionLimit
  BY NoneOpens
<1> QED BY <1>2, <1>5, <1>6, <1>7 DEF SessionInv

\* The counters of the account row stay what they are when they move on.
LEMMA NextCounters ==
    ASSUME SessionInv
    PROVE  /\ account.version + 1 \in Nat \ {0} /\ account.cred + 1 \in Nat
           /\ account.secret + 1 \in Nat /\ 1 \in Nat
           /\ account \in AccountRow
           /\ Unset \in Times \cup {Unset} /\ account.last \in Times \cup {Unset}
BY TypeFacts

\* A change of roles, scopes or the enabled flag leaves sessions and codes alone.
LEMMA update_authorizationKeeps ==
    ASSUME SessionInv, update_authorization
    PROVE  SessionInv'
<1>1. UNCHANGED <<now, plan, session, proc, codes>>
  BY DEF update_authorization
<1>2. PICK enabled \in BOOLEAN, may \in BOOLEAN :
         account' = [account EXCEPT !.enabled = enabled, !.may = may, !.version = @ + 1]
  BY DEF update_authorization
<1>3. /\ account' \in AccountRow /\ account'.version = account.version + 1
      /\ account'.last = account.last
  BY <1>2, NextCounters DEF AccountRow
<1>4. StepsAreUsed' /\ CodesKept
  BY <1>1, <1>3 DEF SessionInv, StepsAreUsed, CodesKept
<1>5. session \in [1 .. Sessions -> SessionRow] /\ codes \in [Times -> Nat]
  BY TypeFacts
<1> QED BY <1>1, <1>3, <1>4, <1>5, VersionMoves

\* The history starts again with the new secret: no step is used, or the one
\* that proved it.
LEMMA HistoryRestarts ==
    /\ NoHistory \in [Times -> Nat]
    /\ \A t \in Times : NoHistory[t] = 0
    /\ \A at \in Times : /\ [NoHistory EXCEPT ![at] = 1] \in [Times -> Nat]
                         /\ \A t \in Times : [NoHistory EXCEPT ![at] = 1][t] =
                                                IF t = at THEN 1 ELSE 0
BY DEF NoHistory

\* Every session is ended, whatever the codes become.
LEMMA EverySessionEnds ==
    ASSUME SessionInv, session' = Revoked(DOMAIN session)
    PROVE  /\ session' \in [1 .. Sessions -> SessionRow]
           /\ \A s \in 1 .. Sessions :
                 /\ session[s].status # "none" <=> session'[s].status # "none"
                 /\ session'[s].status # "open"
                 /\ session'[s].mfa = session[s].mfa /\ session'[s].nth = session[s].nth
                 /\ session'[s].version = session[s].version
<1>1. DOMAIN session = 1 .. Sessions
  BY TypeFacts
<1> DEFINE rows == 1 .. Sessions
<1>2. session' = Revoked(rows)
  BY <1>1
<1> HIDE DEF rows
<1>3. /\ session' \in [1 .. Sessions -> SessionRow]
      /\ \A s \in 1 .. Sessions :
            /\ session'[s].status = IF s \in rows /\ session[s].status = "open"
                                    THEN "revoked" ELSE session[s].status
            /\ session'[s].version = session[s].version
            /\ session'[s].mfa = session[s].mfa /\ session'[s].nth = session[s].nth
  BY <1>2, RevokedRows
<1> QED BY <1>3 DEF rows

\* A first secret: the code that proves it is the only one used, no session is left.
LEMMA enroll_totpKeeps ==
    ASSUME SessionInv, NEW p \in Procs, enroll_totp(p)
    PROVE  SessionInv'
<1>0. Done(p) /\ UNCHANGED <<now, plan>>
  BY DEF enroll_totp
<1>1. CASE account.enabled /\ account.secret = 0
  <2> DEFINE at == proc[p].at
  <2>1. /\ account' = [account EXCEPT !.secret = 1, !.last = at, !.version = @ + 1]
        /\ codes' = [NoHistory EXCEPT ![at] = 1]
        /\ session' = Revoked(DOMAIN session)
    BY <1>1 DEF enroll_totp
  <2>2. at \in Times /\ at \in Nat /\ Times \subseteq Nat
    BY TypeFacts
  <2>3. /\ account' \in AccountRow /\ account'.version = account.version + 1
        /\ account'.last = at
    BY <2>1, <2>2, NextCounters DEF AccountRow
  <2>4. codes' \in [Times -> Nat] /\ \A t \in Times : codes'[t] = IF t = at THEN 1 ELSE 0
    BY <2>1, <2>2, HistoryRestarts
  <2>5. StepsAreUsed'
    BY <2>2, <2>3, <2>4 DEF StepsAreUsed
  <2> QED BY <1>0, <2>1, <2>3, <2>4, <2>5, EverySessionEnds, VersionMoves
<1>2. CASE ~(account.enabled /\ account.secret = 0)
  <2>1. UNCHANGED <<account, codes, session>>
    BY <1>2 DEF enroll_totp
  <2> QED BY <1>0, <2>1, RequestEnds
<1> QED BY <1>1, <1>2

\* New break-glass credentials: no step of the secret is used, no session is left.
LEMMA rotateKeeps ==
    ASSUME SessionInv, rotate
    PROVE  SessionInv'
<1>1. /\ account' = [account EXCEPT !.cred = @ + 1, !.secret = @ + 1, !.last = Unset,
                                    !.version = @ + 1]
      /\ codes' = NoHistory /\ session' = Revoked(DOMAIN session)
      /\ UNCHANGED <<now, plan, proc>>
  BY DEF rotate
<1>2. account' \in AccountRow /\ account'.version = account.version + 1
  BY <1>1, NextCounters DEF AccountRow
<1>3. codes' \in [Times -> Nat] /\ \A t \in Times : codes'[t] = 0
  BY <1>1, HistoryRestarts
<1>4. StepsAreUsed'
  BY <1>3 DEF StepsAreUsed
<1> QED BY <1>1, <1>2, <1>3, <1>4, EverySessionEnds, VersionMoves

\* The session that makes the change is carried over to the next version.
LEMMA change_passwordKeeps ==
    ASSUME SessionInv, NEW p \in Procs, change_password(p)
    PROVE  SessionInv'
<1> DEFINE s == proc[p].sess
           at == proc[p].at
           old == Revoked(DOMAIN session \ {s})
           go == /\ account.enabled
                 /\ account.secret # 0 => FreshCode(at)
                 /\ session[s].status = "open"
<1>0. proc[p].pc = "granted" /\ Done(p) /\ UNCHANGED <<now, plan>>
  BY DEF change_password
<1>1. CASE go
  <2>1. /\ account' = [account EXCEPT !.cred = @ + 1, !.version = @ + 1,
                            !.last = IF account.secret = 0 THEN @ ELSE at]
        /\ codes' = IF account.secret = 0 THEN codes ELSE [codes EXCEPT ![at] = @ + 1]
        /\ session' = [old EXCEPT ![s].version = account.version + 1,
                                  ![s].cred = account.cred + 1]
    BY <1>1 DEF change_password
  <2>2. s \in 1 .. Sessions /\ at \in Times
    <3>1. s # 0 /\ s \in 0 .. Sessions /\ at \in Times
      BY <1>0, TypeFacts DEF SessionInv, RequestHasSession
    <3> QED BY <3>1, SettingFacts
  <2>3. /\ account' \in AccountRow /\ account'.version = account.version + 1
        /\ account'.cred = account.cred + 1
        /\ account'.last = IF account.secret = 0 THEN account.last ELSE at
    BY <2>1, <2>2, NextCounters DEF AccountRow
  <2>4. CodesKept /\ codes' \in [Times -> Nat] /\ StepsAreUsed'
    <3>1. CASE account.secret = 0
      <4>1. codes' = codes /\ account'.last = account.last
        BY <3>1, <2>1, <2>3
      <4> QED BY <4>1, TypeFacts DEF SessionInv, StepsAreUsed, CodesKept
    <3>2. CASE account.secret # 0
      <4>1. at > account.last /\ account'.last = at /\ codes' = [codes EXCEPT ![at] = @ + 1]
        BY <1>1, <3>2, <2>1, <2>3 DEF FreshCode
      <4> QED BY <4>1, <2>2, FreshCodeUsed
    <3> QED BY <3>1, <3>2
  <2>5. old \in [1 .. Sessions -> SessionRow]
    BY RevokedRows
  <2>6. \A t \in 1 .. Sessions :
           /\ old[t].status # "none" <=> session[t].status # "none"
           /\ old[t].status = "open" => session[t].status = "open"
           /\ old[t].version = session[t].version
           /\ old[t].mfa = session[t].mfa /\ old[t].nth = session[t].nth
    BY RevokedRows
  <2> HIDE DEF old
  <2> DEFINE row == [old[s] EXCEPT !.version = account.version + 1, !.cred = account.cred + 1]
  <2>7. session' = [old EXCEPT ![s] = row]
    BY <2>1, <2>2, <2>5
  <2>8. /\ row \in SessionRow /\ row.status = old[s].status
        /\ row.version = account.version + 1 /\ row.cred = account.cred + 1
        /\ row.mfa = old[s].mfa /\ row.nth = old[s].nth
    <3>1. old[s] \in SessionRow
      BY <2>2, <2>5
    <3>2. account.version + 1 \in Nat /\ account.cred + 1 \in Nat
      BY NextCounters
    <3> QED BY <3>1, <3>2 DEF SessionRow
  <2> HIDE DEF row
  <2>9. session' \in [1 .. Sessions -> SessionRow]
    BY <2>5, <2>7, <2>8
  <2>10. \A t \in 1 .. Sessions :
            /\ session[t].status # "none" <=> session'[t].status # "none"
            /\ session'[t].status = "open" => session[t].status = "open" /\ CodesKept
            /\ session'[t].mfa = session[t].mfa /\ session'[t].nth = session[t].nth
            /\ \/ session'[t].version = session[t].version
               \/ session'[t].version = account'.version /\ session'[t].cred = account'.cred
    BY <2>2, <2>3, <2>4, <2>5, <2>6, <2>7, <2>8, SMTT(30)
  <2> HIDE DEF s, at
  <2> QED BY <1>0, <2>3, <2>4, <2>9, <2>10, VersionMoves
<1>2. CASE ~go
  <2>1. UNCHANGED <<account, codes, session>>
    BY <1>2 DEF change_password
  <2> QED BY <1>0, <2>1, RequestEnds
<1> QED BY <1>1, <1>2

-----------------------------------------------------------------------------
(* The theorems.                                                           *)

\* An account whose store is new.
LEMMA InitHolds ==
    SessionInit => SessionInv
<1> SUFFICES ASSUME SessionInit PROVE SessionInv
  OBVIOUS
<1>1. /\ now = 0 /\ plan \in Plans
      /\ account = [enabled |-> TRUE, may |-> TRUE, version |-> 1,
                    cred |-> 1, secret |-> plan.secret, last |-> Unset]
      /\ session = [s \in 1 .. Sessions |-> NoSession]
      /\ proc = [p \in Procs |-> Idle] /\ codes = NoHistory
  BY DEF SessionInit
<1>2. account \in AccountRow /\ account.version = 1
  <2>1. plan.secret \in Nat
    BY <1>1, SettingFacts
  <2> QED BY <1>1, <2>1 DEF AccountRow
<1>3. NoSession \in SessionRow
  BY DEF NoSession, SessionRow
<1>4. now \in 0 .. plan.time
  BY <1>1, SettingFacts
<1>5. SessionTypeOK
  BY <1>1, <1>2, <1>3, <1>4, IdleIsARequest, HistoryRestarts DEF SessionTypeOK
<1>6. \A p \in Procs : proc[p].version = 0 /\ proc[p].pc = "idle"
  BY <1>1 DEF Idle
<1>7. \A p \in Procs : RequestIsCurrent(p) /\ RequestHasSession(p)
  BY <1>2, <1>6 DEF RequestIsCurrent, RequestHasSession
<1>8. \A s \in 1 .. Sessions : session[s].version = 0 /\ session[s].status = "none"
  BY <1>1 DEF NoSession
<1>9. \A s \in 1 .. Sessions : SessionIsCurrent(s)
  <2>1. ASSUME NEW s \in 1 .. Sessions PROVE SessionIsCurrent(s)
    <3>1. session[s].version = 0 /\ session[s].status = "none"
      BY <1>8
    <3>2. 0 <= account.version /\ 0 # account.version
      BY <1>2
    <3> QED BY <3>1, <3>2 DEF SessionIsCurrent
  <2> QED BY <2>1
<1>10. StepsAreUsed
  BY <1>1, HistoryRestarts DEF StepsAreUsed
<1>11. Cardinality(OpenSessions) <= SessionLimit
  <2>1. OpenSessions = {}
    BY <1>8 DEF OpenSessions
  <2>2. Cardinality({}) = 0
    BY FS_EmptySet
  <2> HIDE DEF OpenSessions
  <2> QED BY <2>1, <2>2, SettingFacts
<1> QED BY <1>5, <1>7, <1>9, <1>10, <1>11 DEF SessionInv

\* The clock.
LEMMA TickKeeps ==
    ASSUME SessionInv, Tick
    PROVE  SessionInv'
<1>1. now < plan.time /\ now' = now + 1 /\ UNCHANGED <<plan, account, session, proc, codes>>
  BY DEF Tick
<1>2. now' \in 0 .. plan'.time
  <2>1. plan.time \in Nat /\ now \in Nat
    BY TypeFacts, SettingFacts
  <2> QED BY <1>1, <2>1
<1>3. SessionTypeOK'
  BY <1>1, <1>2 DEF SessionInv, SessionTypeOK
<1>4. /\ AccountMovesOn /\ RowsMoveOn
      /\ \A s \in 1 .. Sessions : SessionIsCurrent(s)'
      /\ StepsAreUsed'
      /\ Cardinality(OpenSessions') <= SessionLimit
  BY <1>1, StoreRests
<1>5. \A q \in Procs : RequestIsCurrent(q)' /\ RequestHasSession(q)'
  BY <1>1, <1>3, <1>4, RequestKept
<1> QED BY <1>3, <1>4, <1>5 DEF SessionInv

\* Every step keeps the invariant: one case per operation.
LEMMA NextKeeps ==
    ASSUME SessionInv, [SessionNext]_sessionVars
    PROVE  SessionInv'
<1>1. ASSUME NEW p \in Procs, Step(p) PROVE SessionInv'
  <2>1. CASE BeginLocalLogin(p) BY <2>1, BeginLocalLoginKeeps
  <2>2. CASE BeginBreakGlassLogin(p) BY <2>2, BeginBreakGlassLoginKeeps
  <2>3. CASE AuthenticateLocal(p) BY <2>3, AuthenticateLocalKeeps
  <2>4. CASE AuthenticateBreakGlass(p) BY <2>4, AuthenticateBreakGlassKeeps
  <2>5. CASE issue_session(p) BY <2>5, issue_sessionKeeps
  <2>6. CASE \E s \in 1 .. Sessions : authenticate(p, s) BY <2>6, authenticateKeeps
  <2>7. CASE touch_authorized_session(p) BY <2>7, touch_authorized_sessionKeeps
  <2>8. CASE Finish(p) BY <2>8, FinishKeeps
  <2>9. CASE revoke_session(p) BY <2>9, revoke_sessionKeeps
  <2>10. CASE verify_totp(p) BY <2>10, verify_totpKeeps
  <2>11. CASE mark_mfa_verified(p) BY <2>11, mark_mfa_verifiedKeeps
  <2>12. CASE change_password(p) BY <2>12, change_passwordKeeps
  <2>13. CASE enroll_totp(p) BY <2>13, enroll_totpKeeps
  <2> QED BY <1>1, <2>1, <2>2, <2>3, <2>4, <2>5, <2>6, <2>7, <2>8, <2>9, <2>10, <2>11,
             <2>12, <2>13 DEF Step
<1>2. CASE rotate BY <1>2, rotateKeeps
<1>3. CASE update_authorization BY <1>3, update_authorizationKeeps
<1>4. CASE Tick BY <1>4, TickKeeps
<1>5. CASE UNCHANGED sessionVars
  <2>1. UNCHANGED <<now, plan, account, session, proc, codes>>
    BY <1>5 DEF sessionVars
  <2>2. SessionTypeOK'
    BY <2>1 DEF SessionInv, SessionTypeOK
  <2>3. /\ AccountMovesOn /\ RowsMoveOn
        /\ \A s \in 1 .. Sessions : SessionIsCurrent(s)'
        /\ StepsAreUsed'
        /\ Cardinality(OpenSessions') <= SessionLimit
    BY <2>1, StoreRests
  <2>4. \A q \in Procs : RequestIsCurrent(q)' /\ RequestHasSession(q)'
    BY <2>1, <2>2, <2>3, RequestKept
  <2> QED BY <2>2, <2>3, <2>4 DEF SessionInv
<1> QED BY <1>1, <1>2, <1>3, <1>4, <1>5 DEF SessionNext

\* The invariant holds throughout, for any number of requests, sessions and
\* ticks: what requests carry from one transaction to the next is current
\* whenever its version is (operator_access.py, operator_identity.py).
THEOREM SessionInvariant == SessionSpec => []SessionInv
<1>1. SessionInit => SessionInv
  BY InitHolds
<1>2. SessionInv /\ [SessionNext]_sessionVars => SessionInv'
  BY NextKeeps
<1> QED BY <1>1, <1>2, PTL DEF SessionSpec

\* The invariant gives the promises of the store.
LEMMA InvariantSafe ==
    SessionInv => SessionsSafe
<1> SUFFICES ASSUME SessionInv PROVE SessionsSafe
  OBVIOUS
<1>1. CredentialChangeEndsSessions
  BY DEF SessionInv, SessionIsCurrent, CredentialChangeEndsSessions, Usable
<1>2. CodeUsedOnce
  BY DEF SessionInv, StepsAreUsed, CodeUsedOnce
<1>3. MfaMeansCode
  BY DEF SessionInv, SessionIsCurrent, Accepted, MfaMeansCode, Usable
<1>4. SessionsBounded
  BY DEF SessionInv, OpenSessions, SessionsBounded
<1> QED BY <1>1, <1>2, <1>3, <1>4 DEF SessionsSafe

\* A session that can be used stands for the current credentials and, where it
\* counts as verified, for a code that was used once; and no more than
\* SessionLimit are open (issue_session, change_password, enroll_totp, rotate).
THEOREM SessionsAreSafe == SessionSpec => []SessionsSafe
BY SessionInvariant, InvariantSafe, PTL

\* The second transaction of a request grants what the first one checked.
LEMMA StepGrants ==
    ASSUME SessionInv, [SessionNext]_sessionVars
    PROVE  [GrantedStep]_sessionVars
<1> SUFFICES ASSUME SessionNext, NEW p \in Procs,
                    proc[p].pc = "touch", proc'[p].pc = "granted"
             PROVE  /\ account.enabled /\ account.may
                    /\ session[proc[p].sess].status = "open"
                    /\ now < session'[proc[p].sess].end
                    /\ session'[proc[p].sess].idle <= session[proc[p].sess].end
  BY DEF GrantedStep
<1>1. touch_authorized_session(p)
  <2>1. proc \in [Procs -> RequestRow] /\ Idle.pc = "idle"
    BY TypeFacts DEF Idle
  <2>2. proc' # proc
    OBVIOUS
  <2>3. ASSUME NEW q \in Procs, Step(q), q # p PROVE FALSE
    <3>1. \E r : proc' = [proc EXCEPT ![q] = r]
      BY <2>3 DEF Step, BeginLocalLogin, BeginBreakGlassLogin, AuthenticateLocal,
          AuthenticateBreakGlass, RefuseLogin, AcceptLogin, issue_session, authenticate,
          touch_authorized_session, Finish, revoke_session, verify_totp, mark_mfa_verified,
          change_password, enroll_totp, Goto, Done
    <3> QED BY <2>1, <2>3, <3>1
  <2>4. Step(p)
    BY <2>2, <2>3 DEF SessionNext, rotate, update_authorization, Tick
  <2>5. \A s \in 1 .. Sessions : ~authenticate(p, s)
    BY DEF authenticate
  <2> QED BY <2>4, <2>5 DEF Step, BeginLocalLogin, BeginBreakGlassLogin, AuthenticateLocal,
          AuthenticateBreakGlass, issue_session, Finish, revoke_session, verify_totp,
          mark_mfa_verified, change_password, enroll_totp
<1> DEFINE s == proc[p].sess
<1>2. Usable(s) /\ account.version = proc[p].version
  <2>1. proc \in [Procs -> RequestRow] /\ Idle.pc = "idle"
    BY TypeFacts DEF Idle
  <2>2. ~Done(p)
    BY <2>1 DEF Done
  <2> QED BY <1>1, <2>2 DEF touch_authorized_session
<1>3. account.may
  BY <1>2 DEF SessionInv, RequestIsCurrent
<1>4. s \in 1 .. Sessions
  <2>1. s # 0 /\ s \in 0 .. Sessions
    BY TypeFacts DEF SessionInv, RequestHasSession
  <2> QED BY <2>1, SettingFacts
<1>5. session[s] \in SessionRow /\ session[s].end \in Nat
  BY <1>4, TypeFacts DEF SessionRow
<1> DEFINE i == IF now + IdleTime < session[s].end THEN now + IdleTime ELSE session[s].end
<1>6. session' = [session EXCEPT ![s].idle = i]
  BY <1>1, <1>2 DEF touch_authorized_session
<1>7. i <= session[s].end
  <2>1. now + IdleTime \in Nat
    BY TypeFacts, SettingFacts
  <2> QED BY <1>5, <2>1
<1> HIDE DEF i
<1>8. session'[s].idle = i /\ session'[s].end = session[s].end
  BY <1>4, <1>5, <1>6, TypeFacts DEF SessionRow
<1> QED BY <1>2, <1>3, <1>7, <1>8 DEF Usable

\* A request is granted only while its session is open and in time and the
\* account has the permission that was read one transaction earlier
\* (authenticate, touch_authorized_session).
THEOREM GrantsAreCurrent == SessionSpec => GrantedIsCurrent
<1>1. SessionInv /\ [SessionNext]_sessionVars => [GrantedStep]_sessionVars
  BY StepGrants
<1> QED BY <1>1, SessionInvariant, PTL DEF SessionSpec, GrantedIsCurrent
=============================================================================
