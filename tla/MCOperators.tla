----------------------------- MODULE MCOperators -----------------------------
(*****************************************************************************)
(* Who may do what: the operators' logins and sessions, the boundary every   *)
(* request of theirs passes, and the media grants they issue with the        *)
(* readers these admit. One component moves in each behaviour while the      *)
(* others rest.                                                              *)
(*****************************************************************************)
EXTENDS OperatorSessions, TLC

CONSTANTS None, p1, p2, q1, q2, q3, c1, c9, k1, k2   \* model values

VARIABLES
    focus,    \* the component that moves; the others rest
    slot1, slot2, slot3, slot4, slot5, slot6, slot7, slot8, slot9, slot10,
    slot11    \* its variables

Pair == {p1, p2}    \* the processes of a component
(* The accounts and clocks of OperatorSessions: a local account that is being
   guessed at, ones with a second factor, ones with two and three sessions,
   and the break-glass account. *)
Logins ==
    {[kind |-> "local", secret |-> 0, sessions |-> 1, time |-> 3, wrong |-> TRUE],
     [kind |-> "local", secret |-> 1, sessions |-> 1, time |-> 2, wrong |-> FALSE],
     [kind |-> "local", secret |-> 1, sessions |-> 2, time |-> 1, wrong |-> FALSE],
     [kind |-> "local", secret |-> 0, sessions |-> 2, time |-> 2, wrong |-> FALSE],
     [kind |-> "break_glass", secret |-> 1, sessions |-> 3, time |-> 2, wrong |-> FALSE],
     [kind |-> "local", secret |-> 0, sessions |-> 3, time |-> 1, wrong |-> FALSE]}
Readers == {"a1", "a2", "a3"}
Primary == {"k1"}

Traffic == INSTANCE MCOperatorRequests WITH
    Plans <- {}, Cameras <- {c1, c9}, Camera <- c1, Limit <- 2, Window <- 2, MaxTime <- 3,
    plan <- slot1, req <- slot2, session <- slot3, resource <- slot4, ledger
    <- slot5, bucket <- slot6, journal <- slot7, admitted <- slot8, events
    <- slot9, clock <- slot10

Boundary == INSTANCE OperatorRequests WITH
    Cameras <- {c1, c9}, Camera <- c1, Limit <- 2, Window <- 2, MaxTime <-
    3, Plans <- Traffic!MCPlans, plan <- slot1, req <- slot2, session <-
    slot3, resource <- slot4, ledger <- slot5, bucket <- slot6, journal <-
    slot7, admitted <- slot8, events <- slot9, clock <- slot10

(* Who races in MediaAccess: an operator and a reader; two operators, one of
   whom may let a grant expire; three readers; a reader while the policy
   changes. *)
Crews ==
    {[ops |-> {p1}, readers |-> {"a1"}, ids |-> 2, policies |-> 0, time |-> 1],
     [ops |-> {p1, p2}, readers |-> {}, ids |-> 3, policies |-> 0, time |-> 0],
     [ops |-> {p1, p2}, readers |-> {}, ids |-> 2, policies |-> 0, time |-> 1],
     [ops |-> {}, readers |-> {"a1", "a2", "a3"}, ids |-> 1, policies |-> 0, time |-> 1],
     [ops |-> {}, readers |-> {"a1"}, ids |-> 1, policies |-> 1, time |-> 2]}

Media == INSTANCE MediaAccess WITH
    Operators <- Pair, Readers <- Readers, Keys <- Primary, MaxGrants <- 3,
    MaxTime <- 2, MaxInflight <- 2, MaxPending <- 2, MaxKeys <- 2, Burst <-
    2, now <- slot1, target <- slot2, grants <- slot3, ledger <- slot4, op
    <- slot5, reader <- slot6, gate <- slot7, pending <- slot8, buckets <-
    slot9, spent <- slot10, crew <- slot11

requestsState == <<slot1, slot2, slot3, slot4, slot5, slot6, slot7, slot8, slot9, slot10>>
sessionsState == <<now, plan, account, attempt, session, proc, codes, guesses>>
mediaState == <<slot1, slot2, slot3, slot4, slot5, slot6, slot7, slot8, slot9, slot10,
      slot11>>
slots == <<slot1, slot2, slot3, slot4, slot5, slot6, slot7, slot8, slot9, slot10,
    slot11>>
mcVars == <<focus, sessionsState, slots>>

MCInit ==
    \/ /\ focus = "requests"
       /\ Boundary!RequestsInit
       /\ slot11 = 0
       /\ SessionInit
       /\ plan = CHOOSE p \in Plans : TRUE
    \/ /\ focus = "sessions"
       /\ SessionInit
       /\ slot1 = 0 /\ slot2 = 0 /\ slot3 = 0 /\ slot4 = 0 /\ slot5 = 0
       /\ slot6 = 0 /\ slot7 = 0 /\ slot8 = 0 /\ slot9 = 0 /\ slot10 = 0
       /\ slot11 = 0
    \/ /\ focus = "media"
       /\ Media!AccessInit
       /\ SessionInit
       /\ plan = CHOOSE p \in Plans : TRUE

MCNext ==
    \/ /\ focus = "requests"
       /\ Boundary!RequestsNext
       /\ UNCHANGED <<focus, slot11, sessionsState>>
    \/ /\ focus = "sessions"
       /\ SessionNext
       /\ UNCHANGED <<focus, slots>>
    \/ /\ focus = "media"
       /\ Media!AccessNext
       /\ UNCHANGED <<focus, sessionsState>>
    \/ /\ focus \in {"requests", "sessions", "media"}    \* these may stop
       /\ UNCHANGED mcVars

MCSpec == MCInit /\ [][MCNext]_mcVars

-----------------------------------------------------------------------------
(* OperatorRequests: every refusal is journaled, the journal of a request
   tells one story, the action buckets hold across replicas, and the API
   and the dashboard ask the same of the operator for the same action. *)
RequestsAccountedFor ==
    focus = "requests" => /\ Boundary!RequestsTypeOK
                          /\ Boundary!RefusalsJournaled
                          /\ Boundary!JournalTellsOneStory
                          /\ Boundary!BucketsHold
                          /\ Boundary!RejectionsHaveAShape
                          /\ Boundary!RoutesAgree

(* MediaAccess: a grant that ended admits nobody again and is replaced at
   most once, a rehash fences out the writers that read the row before
   it, no grant is ever widened, and the admission gate and the attempt
   limiter keep their bounds. *)
GrantsAreFenced ==
    /\ [](focus = "media" => /\ Media!EndedStaysEnded
                             /\ Media!RehashFencesReaders
                             /\ Media!OneReplacement
                             /\ Media!PendingExact
                             /\ Media!RateHolds)
    /\ [][focus = "media" => Media!GrantStep]_mediaState

=============================================================================
