------------------------------ MODULE ScoreSync ------------------------------
(***************************************************************************)
(* The leaderboard of examples/infinite_runner: the game thread and the    *)
(* worker of leaderboard/Client.cpp, the handlers, account table and score *)
(* boards of leaderboard/Server.cpp, and a link between them that fails at *)
(* any moment.                                                             *)
(*                                                                         *)
(* A request is sent again after a reconnect while it has attempts left;   *)
(* the server recognises a run by its id.  Accounts are written to disk at *)
(* every change, boards by a timer, so that a crash forgets them at        *)
(* different points.  One client suffices: what clients share is the       *)
(* server, whose handlers already overlap when a connection is replaced.   *)
(***************************************************************************)
EXTENDS Naturals, Sequences, FiniteSets, SequencesExt

CONSTANTS
    Players,      \* profiles that hold a registration token, hence accounts
    Local,        \* a profile without one
    First,        \* the profiles the game may start with
    Runs,         \* run ids given to SubmitScore
    ScoreOf,      \* run -> the score it reached
    MaxScores,    \* ScoreStoreOptions::max_scores_per_account
    Hidden,       \* accounts with the hidden bit of protocol v2: their runs are not stored
    Earlier,      \* <<account, run>> accepted and on the boards when the game starts
    Conns,        \* connections that exist at one time, on either side
    MaxAttempts,  \* ClientOptions::max_attempts
    MaxEpochs,    \* bound on server restarts and expired sessions
    MaxSwitches,  \* bound on changes of the profile
    None

\* The rows of account a on the boards b; boards that hold no score of an account
\* twice, and not more of an account than are kept.
RowsOf(a, b) == {r \in Runs : <<a, r>> \in b}
Ranked(b) ==
    \A a \in Players :
       /\ IsFiniteSet(RowsOf(a, b)) /\ Cardinality(RowsOf(a, b)) <= MaxScores
       /\ \A q, r \in RowsOf(a, b) : q # r => ScoreOf[q] # ScoreOf[r]

ASSUME SyncConstants ==
    /\ IsFiniteSet(Conns) /\ MaxAttempts \in Nat \ {0}
    /\ MaxEpochs \in Nat /\ MaxSwitches \in Nat
    /\ ScoreOf \in [Runs -> Nat] /\ MaxScores \in Nat \ {0} /\ Hidden \subseteq Players
    /\ Earlier \subseteq Players \X Runs /\ Ranked(Earlier)
    /\ First \subseteq Players \cup {Local} /\ Local \notin Players
    /\ None \notin Players \cup Runs \cup Conns

VARIABLES
    profile,    \* the game's active profile
    switches,   \* changes of it so far
    seen,       \* profiles active so far
    before,     \* run -> profiles active at some time before it was submitted
    since,      \* run -> profiles active at some time while it waited
    running,    \* Client::running_
    cred,       \* username_ and token_, None when they are empty
    session,    \* session_token_
    reconnect,  \* reconnect_
    queue,      \* queue_, with each request's attempts
    worker,     \* where WorkerLoop is
    current,    \* the request being exchanged
    conn,       \* the worker's connection
    outcome,    \* request -> what became of it
    req, rep,   \* connection -> the message in either direction
    handler,    \* connection -> HandleClient: its place, account and run
    up,         \* the server process exists
    epoch,      \* restarts and expiries so far; makes session tokens distinct
    sessions,   \* SessionStore::sessions_
    ids, idsDisk,       \* <<account, run>> in Record::run_ids; as in the file
    board, boardDisk,   \* <<account, run>> on the boards; as in the files
    accepts,    \* <<account, run>> -> times RecordRun accepted it
    lost        \* runs whose id was on disk, and their score not, at a crash

gameVars == <<profile, switches, seen, before, since>>
clientVars == <<running, cred, session, reconnect, queue, worker, current, conn, outcome>>
serverVars == <<up, epoch, sessions, ids, idsDisk, board, boardDisk, accepts, lost>>
wire == <<req, rep, handler>>
vars == <<gameVars, clientVars, wire, serverVars>>

Profiles == Players \cup {Local}
Gone == [at |-> "none", acct |-> None, run |-> None]
Rows == Players \X Runs
EarlierRuns == {x[2] : x \in Earlier}

Token(p) == IF p = Local THEN None ELSE p

TypeOK ==
    /\ profile \in Profiles /\ switches \in 0 .. MaxSwitches
    /\ seen \subseteq Profiles
    /\ before \in [Runs -> SUBSET Profiles] /\ since \in [Runs -> SUBSET Profiles]
    /\ running \in BOOLEAN /\ reconnect \in BOOLEAN
    /\ cred \in Players \cup {None}
    /\ session \in (Players \X (0 .. MaxEpochs)) \cup {None}
    /\ \A i \in DOMAIN queue : queue[i] \in [id : Runs, attempts : 0 .. MaxAttempts]
    /\ worker \in {"connect", "greet", "auth", "serve", "exchange", "stopped"}
    /\ conn \in Conns \cup {None}
    /\ \A c \in Conns : rep[c] # None => conn = c
    /\ outcome \in [Runs -> {"new", "waiting", "acked", "refused", "dropped"}]
    /\ handler \in [Conns -> [at : {"none", "receive", "store"},
                              acct : Players \cup {None}, run : Runs \cup {None}]]
    /\ up \in BOOLEAN /\ epoch \in 0 .. MaxEpochs
    /\ ids \subseteq Rows /\ idsDisk \subseteq Rows
    /\ board \subseteq Rows /\ boardDisk \subseteq Rows /\ lost \subseteq Runs

Init ==
    /\ profile \in First /\ switches = 0 /\ seen = {profile}
    /\ before = [r \in Runs |-> {}]
    /\ since = [r \in Runs |-> {a \in Players : <<a, r>> \in Earlier}]
    /\ running = TRUE /\ cred = Token(profile) /\ session = None /\ reconnect = FALSE
    /\ queue = <<>> /\ worker = "connect" /\ current = None /\ conn = None
    /\ outcome = [q \in Runs |-> IF q \in EarlierRuns THEN "acked" ELSE "new"]
    /\ req = [c \in Conns |-> None] /\ rep = [c \in Conns |-> None]
    /\ handler = [c \in Conns |-> Gone]
    /\ up = TRUE /\ epoch = 0 /\ sessions = {}
    /\ ids = Earlier /\ idsDisk = Earlier /\ board = Earlier /\ boardDisk = Earlier
    /\ accepts = [x \in Rows |-> IF x \in Earlier THEN 1 ELSE 0] /\ lost = {}

-----------------------------------------------------------------------------
(* The game thread                                                         *)

\* SubmitScore appends to the queue.
SubmitScore(q) ==
    /\ running /\ outcome[q] = "new"
    /\ outcome' = [outcome EXCEPT ![q] = "waiting"]
    /\ queue' = Append(queue, [id |-> q, attempts |-> 0])
    /\ before' = [before EXCEPT ![q] = seen] /\ since' = [since EXCEPT ![q] = {profile}]
    /\ UNCHANGED <<profile, switches, seen, running, cred, session, reconnect, worker, current, conn,
                   wire, serverVars>>

\* ClearCredentials leaves the session; SetCredentials does not.
CredentialsOf(p) ==
    /\ cred' = Token(p)
    /\ session' = IF p = Local THEN session ELSE None

\* Another profile becomes the active one.
Activate(p) ==
    /\ running /\ p # profile /\ switches < MaxSwitches
    /\ profile' = p /\ switches' = switches + 1 /\ seen' = seen \cup {p}
    /\ since' = [r \in Runs |-> IF outcome[r] = "waiting" THEN since[r] \cup {p} ELSE since[r]]
    /\ UNCHANGED <<before, running, queue, worker, current, conn, outcome, wire, serverVars>>

\* Game::SelectProfile: the credentials, then RequestReconnect.
MutSelectProfile(p) ==   \* mutation: the old connection is kept
    Activate(p) /\ CredentialsOf(p) /\ UNCHANGED reconnect
SelectProfile(p) == Activate(p) /\ CredentialsOf(p) /\ reconnect' = TRUE

\* "Create": AddProfile makes a new profile, which has no token, the active one
\* and leaves the credentials and the connection to the registration that
\* follows.  Here it is refused, or gets no answer.
AddProfile == Activate(Local) /\ UNCHANGED <<cred, session, reconnect>>

\* Client::Stop, from the destructor: nothing is called after it.
Stop ==
    /\ running /\ running' = FALSE
    /\ UNCHANGED <<gameVars, cred, session, reconnect, queue, worker, current, conn, outcome,
                   wire, serverVars>>

-----------------------------------------------------------------------------
(* The worker                                                              *)

\* Both ends are finished with the connection.
Free(c) == conn # c /\ handler[c].at = "none"

\* What is sent to a handler that has ended is lost.
Put(c, m) == req' = IF handler[c].at = "none" THEN req ELSE [req EXCEPT ![c] = m]

\* A handler whose client has closed the socket still serves what it has not
\* read, and ends with it.
OrEnd(c, h) == IF conn = c THEN h ELSE Gone

\* The worker closes its socket.
CloseAnd(next) ==
    /\ worker' = next /\ conn' = None /\ current' = None
    /\ rep' = [rep EXCEPT ![conn] = None]
    /\ handler' = IF handler[conn].at = "receive" /\ req[conn] = None
                  THEN [handler EXCEPT ![conn] = Gone] ELSE handler

\* HandleClient's half of the handshake.
Accept(c) == handler' = [handler EXCEPT ![c] = [Gone EXCEPT !.at = "receive"]]

\* ConnectAndHandshake; a connection that cannot be made only delays the
\* worker (WaitForRetry).
Connect ==
    /\ worker = "connect" /\ running /\ up /\ \E c \in Conns : Free(c)
    /\ worker' = "greet" /\ conn' = CHOOSE c \in Conns : Free(c)
    /\ Accept(conn') /\ UNCHANGED <<req, rep>>
    /\ UNCHANGED <<gameVars, running, cred, session, reconnect, queue, current, outcome, serverVars>>

\* Authenticate: the credentials, or else the stored session.
Authenticate ==
    /\ worker = "greet"
    /\ \/ cred # None /\ Put(conn, <<"login", cred>>) /\ worker' = "auth"
       \/ cred = None /\ session # None /\ Put(conn, <<"resume", session>>) /\ worker' = "auth"
       \/ cred = None /\ session = None /\ worker' = "serve" /\ UNCHANGED req
    /\ UNCHANGED <<gameVars, running, cred, session, reconnect, queue, current, conn, outcome,
                   rep, handler, serverVars>>

\* Process, for the sign-in: SetSession, or ForgetSession when a resume was
\* refused.  Any reply leaves the connection up.
SignedIn ==
    /\ worker = "auth" /\ rep[conn] # None
    /\ session' = CASE rep[conn][1] = "welcome" -> rep[conn][2]
                    [] rep[conn][1] = "rejected" -> None
                    [] OTHER -> session
    /\ rep' = [rep EXCEPT ![conn] = None] /\ worker' = "serve"
    /\ UNCHANGED <<gameVars, running, cred, reconnect, queue, current, conn, outcome, req, handler,
                   serverVars>>

\* A new profile is taken up before any further request is.
Reconnect ==
    /\ worker = "serve" /\ running /\ reconnect
    /\ reconnect' = FALSE /\ CloseAnd("connect")
    /\ UNCHANGED <<gameVars, running, cred, session, queue, outcome, req, serverVars>>

Pop ==
    /\ worker = "serve" /\ running /\ ~ reconnect /\ queue # <<>>
    /\ current' = [Head(queue) EXCEPT !.attempts = @ + 1] /\ queue' = Tail(queue)
    /\ Put(conn, <<"submit", current'.id>>) /\ worker' = "exchange"
    /\ UNCHANGED <<gameVars, running, cred, session, reconnect, conn, outcome, rep, handler, serverVars>>

\* Process: the reply to a request, an acknowledgement or an error.
Replied ==
    /\ worker = "exchange" /\ rep[conn] # None
    /\ outcome' = [outcome EXCEPT ![current.id] = IF rep[conn] = <<"ack">> THEN "acked" ELSE "refused"]
    /\ rep' = [rep EXCEPT ![conn] = None] /\ worker' = "serve" /\ current' = None
    /\ UNCHANGED <<gameVars, running, cred, session, reconnect, queue, conn, req, handler, serverVars>>

\* A timeout, a lost connection, or Stop's Shutdown of the socket: the request
\* goes back to the front while it has attempts left, and else its promise is
\* resolved.  So it is at once when the reply cannot be read (ProtocolError).
Retry == current.attempts < MaxAttempts
Unreadable == rep[conn] # None

ExchangeFails ==
    /\ worker = "exchange" /\ CloseAnd("connect")
    /\ \/ Retry /\ queue' = <<current>> \o queue /\ UNCHANGED outcome
       \/ /\ ~ Retry \/ Unreadable
          /\ outcome' = [outcome EXCEPT ![current.id] = "dropped"] /\ UNCHANGED queue
    /\ UNCHANGED <<gameVars, running, cred, session, reconnect, req, serverVars>>

\* The sign-in or a keepalive gets no answer.
ConnectionLost ==
    /\ worker \in {"greet", "auth", "serve"} /\ CloseAnd("connect")
    /\ UNCHANGED <<gameVars, running, cred, session, reconnect, queue, outcome, req, serverVars>>

\* The loop ends: FailQueuedRuns.
MutWorkerEnds ==   \* mutation: the requests are left in the queue
    /\ ~ running /\ worker \in {"connect", "serve"}
    /\ worker' = "stopped" /\ conn' = None /\ rep' = [c \in Conns |-> None]
    /\ handler' = [c \in Conns |-> IF handler[c].at = "receive" /\ req[c] = None
                                   THEN Gone ELSE handler[c]]
    /\ UNCHANGED <<gameVars, running, cred, session, reconnect, queue, current, outcome, req, serverVars>>
WorkerEnds ==
    /\ ~ running /\ worker \in {"connect", "serve"}
    /\ worker' = "stopped" /\ conn' = None /\ rep' = [c \in Conns |-> None]
    /\ handler' = [c \in Conns |-> IF handler[c].at = "receive" /\ req[c] = None
                                   THEN Gone ELSE handler[c]]
    /\ outcome' = [q \in Runs |-> IF \E i \in DOMAIN queue : queue[i].id = q
                                      THEN "dropped" ELSE outcome[q]]
    /\ queue' = <<>>
    /\ UNCHANGED <<gameVars, running, cred, session, reconnect, current, req, serverVars>>

-----------------------------------------------------------------------------
(* The server                                                              *)

Take(c, h) ==
    /\ req' = [req EXCEPT ![c] = None]
    /\ handler' = [handler EXCEPT ![c] = OrEnd(c, h)]
Answer(c, m) == rep' = IF conn = c THEN [rep EXCEPT ![c] = m] ELSE rep
Kind(c, k) == up /\ handler[c].at = "receive" /\ req[c] # None /\ req[c][1] = k

\* LoginRequest: AccountStore::Login and SessionStore::Issue.
ServeLogin(c) ==
    /\ Kind(c, "login")
    /\ LET a == req[c][2] IN
       /\ sessions' = sessions \cup {<<a, epoch>>}
       /\ Take(c, [handler[c] EXCEPT !.acct = a]) /\ Answer(c, <<"welcome", <<a, epoch>>>>)
    /\ UNCHANGED <<gameVars, clientVars, up, epoch, ids, idsDisk, board, boardDisk, accepts, lost>>

\* ResumeRequest: SessionStore::Resolve, and a new token when it is known.
ServeResume(c) ==
    /\ Kind(c, "resume")
    /\ LET t == req[c][2] IN
       \/ /\ t \in sessions /\ sessions' = sessions \cup {<<t[1], epoch>>}
          /\ Take(c, [handler[c] EXCEPT !.acct = t[1]]) /\ Answer(c, <<"welcome", <<t[1], epoch>>>>)
       \/ t \notin sessions /\ Take(c, handler[c]) /\ Answer(c, <<"rejected">>) /\ UNCHANGED sessions
    /\ UNCHANGED <<gameVars, clientVars, up, epoch, ids, idsDisk, board, boardDisk, accepts, lost>>

\* SubmitV3 from a connection that is signed in, until RecordRun returns.
\* Save writes every record.  The oldest ids, which RecordRun drops beyond
\* max_run_ids_per_account of them, are left out: fewer runs are modelled.
MutRecordRun(c) ==   \* mutation: the id is saved with the boards
    LET x == <<handler[c].acct, req[c][2]>> IN
    /\ Kind(c, "submit") /\ x[1] # None /\ x \notin ids
    /\ ids' = ids \cup {x} /\ accepts' = [accepts EXCEPT ![x] = @ + 1]
    /\ req' = [req EXCEPT ![c] = None]
    /\ handler' = [handler EXCEPT ![c].at = "store", ![c].run = x[2]]
    /\ UNCHANGED <<gameVars, clientVars, rep, up, epoch, sessions, idsDisk, board, boardDisk, lost>>
RecordRun(c) ==
    LET x == <<handler[c].acct, req[c][2]>> IN
    /\ Kind(c, "submit") /\ x[1] # None /\ x \notin ids
    /\ ids' = ids \cup {x} /\ accepts' = [accepts EXCEPT ![x] = @ + 1]
    /\ idsDisk' = ids'
    /\ req' = [req EXCEPT ![c] = None]
    /\ handler' = [handler EXCEPT ![c].at = "store", ![c].run = x[2]]
    /\ UNCHANGED <<gameVars, clientVars, rep, up, epoch, sessions, board, boardDisk, lost>>

\* What the boards b make of run r of account a: the score is there, first reached
\* by this run or by another; or the account's list is full of better ones; or the
\* account's runs are not stored.
Counted(a, r, b) ==
    \/ a \in Hidden
    \/ \E q \in RowsOf(a, b) : ScoreOf[q] = ScoreOf[r]
    \/ /\ Cardinality(RowsOf(a, b)) = MaxScores
       /\ \A q \in RowsOf(a, b) : ScoreOf[q] > ScoreOf[r]

\* ScoreStore::Submit: a score the account has reached before is discarded; else
\* the run is added, and the worst row dropped when there are too many.
Submit(a, r) ==
    LET mine == RowsOf(a, board) \cup {r} IN
    IF a \in Hidden \/ \E q \in RowsOf(a, board) : ScoreOf[q] = ScoreOf[r]
    THEN UNCHANGED board
    ELSE \/ Cardinality(mine) <= MaxScores /\ board' = board \cup {<<a, r>>}
         \/ /\ Cardinality(mine) > MaxScores
            /\ \E worst \in mine :
                  /\ \A q \in mine : ScoreOf[worst] <= ScoreOf[q]
                  /\ board' = (board \cup {<<a, r>>}) \ {<<a, worst>>}

\* The rest of SubmitV3: the row, unless the account is hidden, and the
\* acknowledgement.
MutStoreRun(c) ==   \* mutation: the row is not added
    /\ up /\ handler[c].at = "store"
    /\ handler' = [handler EXCEPT ![c] = OrEnd(c, [@ EXCEPT !.at = "receive", !.run = None])]
    /\ Answer(c, <<"ack">>)
    /\ UNCHANGED <<gameVars, clientVars, req, up, epoch, sessions, ids, idsDisk, board, boardDisk,
                   accepts, lost>>
StoreRun(c) ==
    /\ up /\ handler[c].at = "store"
    /\ Submit(handler[c].acct, handler[c].run)
    /\ handler' = [handler EXCEPT ![c] = OrEnd(c, [@ EXCEPT !.at = "receive", !.run = None])]
    /\ Answer(c, <<"ack">>)
    /\ UNCHANGED <<gameVars, clientVars, req, up, epoch, sessions, ids, idsDisk, boardDisk,
                   accepts, lost>>

\* A run without an account is refused, a duplicate acknowledged.
RefuseRun(c) ==
    /\ Kind(c, "submit") /\ Take(c, handler[c])
    /\ \/ handler[c].acct = None /\ Answer(c, <<"error">>)
       \/ /\ handler[c].acct # None
          /\ <<handler[c].acct, req[c][2]>> \in ids
          /\ Answer(c, <<"ack">>)
    /\ UNCHANGED <<gameVars, clientVars, serverVars>>

\* A refusal for exceeding the rate, which also closes the connection; the
\* client has gone; or it has been idle for too long.
HandlerEnds(c) ==
    /\ up /\ conn = c /\ handler[c].at = "receive"
    /\ \/ req[c] # None /\ Answer(c, <<"error">>)
       \/ req[c] = None /\ UNCHANGED rep
    /\ Take(c, Gone)
    /\ UNCHANGED <<gameVars, clientVars, serverVars>>

Expire(t) ==
    /\ up /\ t \in sessions /\ epoch < MaxEpochs
    /\ sessions' = sessions \ {t} /\ epoch' = epoch + 1
    /\ UNCHANGED <<gameVars, clientVars, wire, up, ids, idsDisk, board, boardDisk, accepts, lost>>

\* ScoreStore::Flush, by the timer: a board is dirty when its file is behind.
Flush ==
    /\ up /\ board # boardDisk /\ boardDisk' = board
    /\ UNCHANGED <<gameVars, clientVars, wire, up, epoch, sessions, ids, idsDisk, board, accepts, lost>>

\* What a process that ends takes with it.
ForgetAnd(disk) ==
    /\ up /\ up' = FALSE /\ epoch < MaxEpochs /\ epoch' = epoch + 1 /\ sessions' = {}
    /\ handler' = [c \in Conns |-> Gone] /\ req' = [c \in Conns |-> None]
    /\ lost' = lost \cup {r \in Runs : \E a \in Players : <<a, r>> \in idsDisk /\ ~ Counted(a, r, disk)}
    /\ ids' = idsDisk /\ board' = disk
    /\ UNCHANGED <<gameVars, clientVars, rep, idsDisk, accepts>>

Crash ==
    /\ ForgetAnd(boardDisk) /\ UNCHANGED boardDisk

\* Server::Stop: the handlers finish, then the boards are written.
ServerStop ==
    /\ \A c \in Conns : handler[c].at # "store"
    /\ ForgetAnd(board) /\ boardDisk' = board

\* The stores load their files.
Restart ==
    /\ ~ up /\ up' = TRUE
    /\ UNCHANGED <<gameVars, clientVars, wire, epoch, sessions, ids, idsDisk, board, boardDisk,
                   accepts, lost>>

-----------------------------------------------------------------------------
Game == Stop \/ AddProfile \/ (\E q \in Runs : SubmitScore(q)) \/ (\E p \in Profiles : SelectProfile(p))

Worker ==
    \/ Connect \/ Authenticate \/ SignedIn \/ Reconnect \/ Pop \/ Replied
    \/ ExchangeFails \/ ConnectionLost \/ WorkerEnds

Serve(c) ==
    \/ ServeLogin(c) \/ ServeResume(c) \/ RecordRun(c) \/ StoreRun(c) \/ RefuseRun(c)

Server ==
    \/ \E c \in Conns : Serve(c) \/ HandlerEnds(c)
    \/ \E t \in sessions : Expire(t)
    \/ Flush \/ Crash \/ ServerStop \/ Restart

Next == Game \/ Worker \/ Server
Spec == Init /\ [][Next]_vars

\* The worker and the server run, and a server that ended is started again.
\* A reply that does not come is a timeout.
Fairness ==
    /\ WF_vars(Connect) /\ WF_vars(Authenticate) /\ WF_vars(SignedIn)
    /\ WF_vars(Reconnect) /\ WF_vars(Pop) /\ WF_vars(Replied) /\ WF_vars(WorkerEnds)
    /\ WF_vars(ExchangeFails)
    /\ WF_vars((~ running \/ worker = "auth") /\ ConnectionLost)
    /\ \A c \in Conns : WF_vars(Serve(c))
    /\ WF_vars(Restart)
FairSpec == Spec /\ Fairness

-----------------------------------------------------------------------------
\* A run that never waited under a profile without a token is credited to nobody
\* but a player who was active while it waited: a connection that was signed in
\* for another profile is not used for it.  A run that did wait under such a
\* profile may go to a player who was active before it was submitted, and to no
\* other: the connection, or the session, of that player is still in use.  (See
\* LocalStaysLocal: the code does not do what its comments say there.)
CreditFollowsProfile ==
    \A x \in board \cup boardDisk :
       \/ x[1] \in since[x[2]]
       \/ Local \in since[x[2]] /\ x[1] \in before[x[2]]

\* RecordRun: "a retried run_id is accepted once", over reconnects, several
\* handlers at work for the same player, and restarts of the server, for as long
\* as the account's ids are remembered.
AcceptedOnce == \A x \in Rows : accepts[x] <= 1

\* A run that was acknowledged was accepted for an account, and its score is on
\* the account's board or below it (Counted), or a handler is about to add it,
\* unless the server ended with the run's id on disk and its score not.
AckedIsKept ==
    \A r \in Runs : outcome[r] = "acked" =>
        \/ \E a \in Players : <<a, r>> \in ids /\ Counted(a, r, board)
        \/ \E c \in Conns : handler[c].at = "store" /\ handler[c].run = r
        \/ r \in lost

\* A caller that waits for a future is answered in the end: by the reply, by
\* the last attempt, or because the client stopped; provided the link does not
\* fail for ever, for a client that never connects keeps its queue.
LinkFails ==
    \/ ConnectionLost /\ handler[conn].at # "none"
    \/ \E c \in Conns : HandlerEnds(c)
LinkHeals == <>[][~ LinkFails]_vars
EveryRequestEnds ==
    LinkHeals => \A q \in Runs \ EarlierRuns : outcome[q] = "waiting" ~> outcome[q] # "waiting"

\* Game.cpp:652 tells the player of a profile without a token: "scores stay
\* on this machine", and Game.cpp:812 that a connection authenticated for
\* another profile is not reused.  (Both fail: the session of the last player
\* is resumed, and AddProfile keeps the connection.)
LocalStaysLocal == \A x \in board : since[x[2]] # {Local}
=============================================================================
