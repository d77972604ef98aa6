-------------------------- MODULE ScoreSync_proofs --------------------------
(***************************************************************************)
(* What the leaderboard promises, for any number of players, runs and      *)
(* connections: a run is accepted once, what was acknowledged is kept, and *)
(* a score goes to a player who was active while it waited.                *)
(*                                                                         *)
(* The invariant follows one request through the link.  A connection that  *)
(* the worker has given up may still hold a request or a handler that is   *)
(* about to store one, so what is promised of a request has to hold from   *)
(* the moment it is sent, whatever becomes of the worker.                  *)
(***************************************************************************)
EXTENDS ScoreSync, FiniteSetTheorems, TLAPS

Tokens == Players \X (0 .. MaxEpochs)
Request == [id : Runs, attempts : 0 .. MaxAttempts]
Message == ({"login"} \X Players) \cup ({"resume"} \X Tokens) \cup ({"submit"} \X Runs)
Reply == ({"welcome"} \X Tokens) \cup {<<"rejected">>, <<"ack">>, <<"error">>}
HandlerState == [at : {"none", "receive", "store"},
                 acct : Players \cup {None}, run : Runs \cup {None}]

\* Types of all variables, those that TypeOK leaves out included, by owner.
GameTyped ==
    /\ profile \in Profiles /\ switches \in 0 .. MaxSwitches
    /\ seen \subseteq Profiles
    /\ before \in [Runs -> SUBSET Profiles] /\ since \in [Runs -> SUBSET Profiles]
    /\ cred \in Players \cup {None}
WorkerTyped ==
    /\ session \in Tokens \cup {None}
    /\ worker \in {"connect", "greet", "auth", "serve", "exchange", "stopped"}
    /\ conn \in Conns \cup {None}
    /\ outcome \in [Runs -> {"new", "waiting", "acked", "refused", "dropped"}]
    /\ queue \in Seq(Request)
    /\ \A i \in 1 .. Len(queue) : queue[i].attempts < MaxAttempts
    /\ worker = "exchange" => current \in Request
WireTyped ==
    /\ req \in [Conns -> Message \cup {None}] /\ rep \in [Conns -> Reply \cup {None}]
    /\ handler \in [Conns -> HandlerState]
    /\ \A c \in Conns : rep[c] # None => conn = c
ServerTyped ==
    /\ epoch \in 0 .. MaxEpochs /\ sessions \subseteq Tokens
    /\ ids \subseteq Rows /\ idsDisk \subseteq Rows
    /\ board \subseteq Rows /\ boardDisk \subseteq Rows /\ lost \subseteq Runs
    /\ accepts \in [Rows -> Nat]
FlagsTyped == running \in BOOLEAN /\ reconnect \in BOOLEAN /\ up \in BOOLEAN
Typed == GameTyped /\ WorkerTyped /\ WireTyped /\ ServerTyped /\ FlagsTyped

\* The worker has a connection except while it makes one and after its end.
\* An exchange is in one place: on its way, with the handler, or answered.
LinkInv ==
    /\ worker \in {"connect", "stopped"} <=> conn = None
    /\ \A c \in Conns : handler[c].at \in {"none", "store"} => req[c] = None
    /\ \A c \in Conns : handler[c].at = "store" => handler[c].run \in Runs
                                                /\ handler[c].acct \in Players
    /\ conn # None =>
         /\ worker # "exchange" => /\ handler[conn].at # "store"
                                   /\ req[conn] # None => req[conn][1] # "submit"
         /\ worker \in {"greet", "serve"} => req[conn] = None /\ rep[conn] = None
         /\ rep[conn] # None => req[conn] = None /\ handler[conn].at # "store"
         /\ worker = "exchange" =>
              /\ req[conn] # None => req[conn] = <<"submit", current.id>>
              /\ handler[conn].at = "store" => handler[conn].run = current.id

\* Requests wait in one place, and so do their callers; a run that waits saw
\* the profile that is active now.
QueueInv ==
    /\ \A i, j \in 1 .. Len(queue) : queue[i].id = queue[j].id => i = j
    /\ \A i \in 1 .. Len(queue) : outcome[queue[i].id] = "waiting"
    /\ worker = "exchange" =>
         /\ outcome[current.id] = "waiting"
         /\ \A i \in 1 .. Len(queue) : queue[i].id # current.id
    /\ \A r \in Runs : outcome[r] = "waiting" => profile \in since[r]
    /\ \A r \in Runs : outcome[r] = "new" => since[r] = {}

\* Unless a reconnect is pending, a connection used for a profile with an
\* account is signed in to that account, or will be, or to none.
AccountInv ==
    /\ profile # Local => cred = profile
    /\ ~ reconnect /\ profile # Local /\ conn # None =>
         /\ handler[conn].acct \in {None, profile}
         /\ req[conn] # None => /\ req[conn][1] # "resume"
                                /\ req[conn][1] = "login" => req[conn][2] = profile

\* Whoever the client or a connection may sign in was active before; and all who
\* were, were so before a waiting run was submitted or since.
SeenInv ==
    /\ profile \in seen
    /\ cred # None => cred \in seen
    /\ session # None => session[1] \in seen
    /\ \A c \in Conns :
         /\ handler[c].acct # None => handler[c].acct \in seen
         /\ req[c] # None => /\ req[c][1] = "login" => req[c][2] \in seen
                             /\ req[c][1] = "resume" => req[c][2][1] \in seen
         /\ rep[c] # None => (rep[c][1] = "welcome" => rep[c][2][1] \in seen)
    /\ \A r \in Runs : outcome[r] = "waiting" => seen \subseteq before[r] \cup since[r]

\* What account a run may be credited to.
MayCredit(a, r) == a \in since[r] \/ (Local \in since[r] /\ a \in before[r])

\* No run is recorded, or can still be by a request on the wire, for a player
\* it does not belong to.
CreditInv ==
    /\ \A x \in ids : MayCredit(x[1], x[2])
    /\ \A c \in Conns : req[c] # None /\ req[c][1] = "submit" /\ handler[c].acct # None
                           => MayCredit(handler[c].acct, req[c][2])

\* The ids are on disk with the memory, and count what was accepted.
AcceptInv ==
    /\ idsDisk = ids
    /\ \A x \in Rows : accepts[x] = IF x \in ids THEN 1 ELSE 0

Storing(a, r) == \E c \in Conns : /\ handler[c].at = "store"
                                  /\ handler[c].acct = a /\ handler[c].run = r
Kept(r) == \/ \E a \in Players : <<a, r>> \in ids /\ Counted(a, r, board)
           \/ \E c \in Conns : handler[c].at = "store" /\ handler[c].run = r
           \/ r \in lost

\* A recorded run counts on the board, is about to, or was lost by a crash; only
\* such a run was acknowledged, or is being.
KeptInv ==
    /\ board \subseteq ids /\ boardDisk \subseteq ids /\ Ranked(board) /\ Ranked(boardDisk)
    /\ \A c \in Conns : handler[c].at = "store" => <<handler[c].acct, handler[c].run>> \in ids
    /\ \A a \in Players, r \in Runs : <<a, r>> \in ids =>
         Counted(a, r, board) \/ Storing(a, r) \/ r \in lost
    /\ AckedIsKept
    /\ worker = "exchange" /\ rep[conn] # None /\ rep[conn] = <<"ack">> => Kept(current.id)

IInv == /\ Typed /\ LinkInv /\ QueueInv
        /\ AccountInv /\ SeenInv /\ CreditInv /\ AcceptInv /\ KeptInv

-----------------------------------------------------------------------------
(* Messages, requests and handlers *)

\* The constants: None is nobody, and an attempt or epoch is a number.
LEMMA Apart ==
    /\ None \notin Players /\ None \notin Runs /\ None \notin Conns
    /\ Local \notin Players /\ MaxAttempts \in Nat \ {0} /\ MaxEpochs \in Nat
    /\ MaxSwitches \in Nat /\ First \subseteq Profiles
  BY SyncConstants DEF Profiles

\* What a message or a reply carries.
LEMMA MessageFacts ==
    /\ \A a \in Players : <<"login", a>> \in Message
    /\ \A t \in Tokens : <<"resume", t>> \in Message
    /\ \A r \in Runs : <<"submit", r>> \in Message
    /\ \A m \in Message : /\ m[1] = "login" => m[2] \in Players
                          /\ m[1] = "resume" => m[2] \in Tokens
                          /\ m[1] = "submit" => m[2] \in Runs
    /\ \A t \in Tokens : <<"welcome", t>> \in Reply
    /\ <<"rejected">> \in Reply /\ <<"ack">> \in Reply /\ <<"error">> \in Reply
    /\ \A m \in Reply : m[1] = "welcome" => m[2] \in Tokens
  BY DEF Message, Reply

\* A session token names an account.
LEMMA TokenFacts ==
    /\ \A a \in Players, e \in 0 .. MaxEpochs : <<a, e>> \in Tokens
    /\ \A t \in Tokens : t[1] \in Players
    /\ \A a \in Players, r \in Runs : <<a, r>> \in Rows
    /\ \A x \in Rows : x[1] \in Players /\ x[2] \in Runs /\ x = <<x[1], x[2]>>
  BY DEF Tokens, Rows

\* Requests as they are sent, and a handler as it goes on.
LEMMA RequestFacts ==
    /\ \A x \in Request : /\ x.id \in Runs /\ x.attempts \in 0 .. MaxAttempts
                          /\ x.attempts < MaxAttempts =>
                               /\ [x EXCEPT !.attempts = @ + 1] \in Request
                               /\ [x EXCEPT !.attempts = @ + 1].id = x.id
    /\ \A r \in Runs : [id |-> r, attempts |-> 0] \in Request
    /\ Gone \in HandlerState /\ [Gone EXCEPT !.at = "receive"] \in HandlerState
    /\ \A h \in HandlerState :
         /\ h.at \in {"none", "receive", "store"}
         /\ h.acct \in Players \cup {None} /\ h.run \in Runs \cup {None}
         /\ \A a \in Players : [h EXCEPT !.acct = a] \in HandlerState
         /\ \A r \in Runs : [h EXCEPT !.at = "store", !.run = r] \in HandlerState
         /\ [h EXCEPT !.at = "receive", !.run = None] \in HandlerState
<1> USE SyncConstants DEF Request, Gone, HandlerState
<1>1. ASSUME NEW x \in Request
      PROVE  /\ x.id \in Runs /\ x.attempts \in 0 .. MaxAttempts
             /\ x.attempts < MaxAttempts => /\ [x EXCEPT !.attempts = @ + 1] \in Request
                                            /\ [x EXCEPT !.attempts = @ + 1].id = x.id
  OBVIOUS
<1>2. ASSUME NEW h \in HandlerState
      PROVE  /\ h.at \in {"none", "receive", "store"}
             /\ h.acct \in Players \cup {None} /\ h.run \in Runs \cup {None}
             /\ \A a \in Players : [h EXCEPT !.acct = a] \in HandlerState
             /\ \A r \in Runs : [h EXCEPT !.at = "store", !.run = r] \in HandlerState
             /\ [h EXCEPT !.at = "receive", !.run = None] \in HandlerState
  OBVIOUS
<1>3. \A r \in Runs : [id |-> r, attempts |-> 0] \in Request
  OBVIOUS
<1>4. Gone \in HandlerState /\ [Gone EXCEPT !.at = "receive"] \in HandlerState
  OBVIOUS
<1> QED
  BY <1>1, <1>2, <1>3, <1>4

\* The queue after a request is added at either end or taken off.
LEMMA QueueFacts ==
    ASSUME NEW s \in Seq(Request), NEW x \in Request
    PROVE  /\ Append(s, x) \in Seq(Request) /\ Len(Append(s, x)) = Len(s) + 1
           /\ \A i \in 1 .. Len(s) + 1 : Append(s, x)[i] = IF i = Len(s) + 1 THEN x ELSE s[i]
           /\ <<x>> \o s \in Seq(Request) /\ Len(<<x>> \o s) = Len(s) + 1
           /\ \A i \in 1 .. Len(s) + 1 : (<<x>> \o s)[i] = IF i = 1 THEN x ELSE s[i - 1]
  OBVIOUS

\* The queue after its first request was taken.
LEMMA TailFacts ==
    ASSUME NEW s \in Seq(Request), s # <<>>
    PROVE  /\ Tail(s) \in Seq(Request) /\ Len(Tail(s)) = Len(s) - 1
           /\ Len(s) \in Nat \ {0} /\ Head(s) \in Request /\ Head(s) = s[1]
           /\ \A i \in 1 .. Len(s) - 1 : Tail(s)[i] = s[i + 1]
  OBVIOUS

-----------------------------------------------------------------------------
(* What each party leaves alone *)

\* The game touches neither the wire nor the server.
LEMMA GameLeaves ==
    ASSUME Game
    PROVE  UNCHANGED <<wire, serverVars, worker, current, conn>>
  BY DEF Game, Stop, SubmitScore, AddProfile, SelectProfile, Activate, clientVars

\* The worker touches neither the game nor the server.
LEMMA WorkerLeaves ==
    ASSUME Worker
    PROVE  UNCHANGED <<gameVars, serverVars, running, cred>>
  BY DEF Worker, Connect, Authenticate, SignedIn, Reconnect, Pop, Replied, ExchangeFails,
     ConnectionLost, WorkerEnds

\* The server touches neither the game nor the client.
LEMMA ServerLeaves ==
    ASSUME Server
    PROVE  UNCHANGED <<gameVars, clientVars>>
  BY DEF Server, Serve, ServeLogin, ServeResume, RecordRun, StoreRun, RefuseRun, HandlerEnds,
     Expire, Flush, Crash, ServerStop, ForgetAnd, Restart

\* The end of a connection, which three steps of the worker share.
LEMMA Closes ==
    ASSUME Typed, LinkInv, Reconnect \/ ConnectionLost \/ ExchangeFails
    PROVE  /\ worker \notin {"connect", "stopped"} /\ conn \in Conns
           /\ CloseAnd("connect") /\ UNCHANGED <<req, session>>
           /\ conn' = None /\ worker' = "connect"
           /\ rep' = [c \in Conns |-> None]
           /\ handler' \in [Conns -> HandlerState]
           /\ \A c \in Conns : handler'[c] # handler[c] =>
                 handler'[c] = Gone /\ handler[c].at = "receive" /\ req[c] = None
<1>1. /\ worker \notin {"connect", "stopped"} /\ CloseAnd("connect") /\ UNCHANGED <<req, session>>
  BY DEF Reconnect, ConnectionLost, ExchangeFails
<1>2. conn \in Conns
  BY <1>1 DEF LinkInv, Typed, WorkerTyped
<1>3. rep' = [c \in Conns |-> None]
  BY <1>1, <1>2 DEF CloseAnd, Typed, WireTyped
<1>4. /\ handler' \in [Conns -> HandlerState]
      /\ \A c \in Conns : handler'[c] # handler[c] =>
            handler'[c] = Gone /\ handler[c].at = "receive" /\ req[c] = None
  BY <1>1, <1>2, RequestFacts DEF CloseAnd, Typed, WireTyped
<1> QED
  BY <1>1, <1>2, <1>3, <1>4 DEF CloseAnd

\* A message goes to a connection whose handler is there, or is lost.
LEMMA Puts ==
    ASSUME Typed, LinkInv, NEW c \in Conns, NEW m \in Message, Put(c, m)
    PROVE  /\ req' \in [Conns -> Message \cup {None}]
           /\ \A d \in Conns : d # c \/ handler[c].at = "none" => req'[d] = req[d]
           /\ handler[c].at # "none" => req'[c] = m
  BY DEF Put, Typed, WireTyped

\* A handler reads its message, and answers while the worker listens.
LEMMA Takes ==
    ASSUME Typed, NEW c \in Conns, NEW h \in HandlerState, Take(c, h)
    PROVE  /\ req' = [req EXCEPT ![c] = None]
           /\ req' \in [Conns -> Message \cup {None}]
           /\ handler' \in [Conns -> HandlerState]
           /\ \A d \in Conns : d # c => handler'[d] = handler[d] /\ req'[d] = req[d]
           /\ req'[c] = None /\ handler'[c] = OrEnd(c, h)
  BY RequestFacts DEF Take, Typed, WireTyped, OrEnd

\* A reply arrives only if the worker still holds this connection.
LEMMA Answers ==
    ASSUME Typed, NEW c \in Conns, NEW m \in Reply, Answer(c, m)
    PROVE  /\ rep' \in [Conns -> Reply \cup {None}]
           /\ \A d \in Conns : rep'[d] # None => rep[d] # None \/ d = conn
           /\ rep' = rep \/ (conn = c /\ rep'[c] = m)
  BY DEF Answer, Typed, WireTyped

\* The worker takes the first request; a handler reads who signs in.
LEMMA Connected ==
    ASSUME Typed, LinkInv, worker \notin {"connect", "stopped"}
    PROVE  conn \in Conns
  BY DEF Typed, WorkerTyped, LinkInv

\* The worker takes the first request and sends it.
LEMMA Pops ==
    ASSUME Typed, LinkInv, Pop
    PROVE  /\ conn \in Conns /\ worker = "serve" /\ worker' = "exchange" /\ queue # <<>>
           /\ queue' = Tail(queue) /\ ~ reconnect
           /\ current' \in Request /\ current'.id = queue[1].id /\ current'.id \in Runs
           /\ Put(conn, <<"submit", current'.id>>)
           /\ UNCHANGED <<gameVars, serverVars, session, reconnect, conn, outcome, rep, handler>>
<1>1. conn \in Conns
  BY Connected DEF Pop
<1>2. /\ queue \in Seq(Request) /\ queue # <<>> /\ Len(queue) \in Nat \ {0}
      /\ Head(queue) = queue[1] /\ queue[1] \in Request
  BY TailFacts DEF Pop, Typed, WorkerTyped
<1>3. queue[1].attempts < MaxAttempts
  BY <1>2 DEF Typed, WorkerTyped
<1>4. current' \in Request /\ current'.id = queue[1].id /\ current'.id \in Runs
  BY <1>2, <1>3, RequestFacts DEF Pop
<1> QED
  BY <1>1, <1>4 DEF Pop

\* A sign-in or a resume changes only who the handler serves.
LEMMA SignsIn ==
    ASSUME Typed, NEW c \in Conns, ServeLogin(c) \/ ServeResume(c)
    PROVE  /\ req[c] \in Message /\ handler[c] \in HandlerState /\ handler[c].at = "receive"
           /\ req[c][1] \in {"login", "resume"}
           /\ \E h \in HandlerState, m \in Reply :
                /\ Take(c, h) /\ Answer(c, m) /\ m # <<"ack">>
                /\ h.at = "receive"
                /\ req[c][1] = "login" => h.acct = req[c][2]
           /\ UNCHANGED <<ids, idsDisk, board, boardDisk, accepts, lost>>
<1>1. req[c] \in Message /\ handler[c] \in HandlerState /\ handler[c].at = "receive"
  BY DEF ServeLogin, ServeResume, Kind, Typed, WireTyped
<1>2. CASE ServeLogin(c)
  <2>1. req[c][1] = "login" /\ req[c][2] \in Players /\ epoch \in 0 .. MaxEpochs
    BY <1>1, <1>2, MessageFacts DEF ServeLogin, Kind, Typed, ServerTyped
  <2>2. [handler[c] EXCEPT !.acct = req[c][2]] \in HandlerState
    BY <1>1, <2>1, RequestFacts
  <2>3. <<"welcome", <<req[c][2], epoch>>>> \in Reply
    BY <2>1, MessageFacts, TokenFacts
  <2>4. [handler[c] EXCEPT !.acct = req[c][2]].at = "receive"
        /\ [handler[c] EXCEPT !.acct = req[c][2]].acct = req[c][2]
    BY <1>1 DEF HandlerState
  <2> QED
    BY <1>1, <1>2, <2>1, <2>2, <2>3, <2>4 DEF ServeLogin
<1>3. CASE ServeResume(c)
  <2>1. req[c][1] = "resume" /\ req[c][2] \in Tokens /\ epoch \in 0 .. MaxEpochs
    BY <1>1, <1>3, MessageFacts DEF ServeResume, Kind, Typed, ServerTyped
  <2>2. req[c][2][1] \in Players /\ [handler[c] EXCEPT !.acct = req[c][2][1]] \in HandlerState
    BY <1>1, <2>1, RequestFacts, TokenFacts
  <2>3. /\ <<"welcome", <<req[c][2][1], epoch>>>> \in Reply
        /\ <<"rejected">> \in Reply /\ <<"rejected">> # <<"ack">>
    BY <2>1, <2>2, MessageFacts, TokenFacts
  <2>4. [handler[c] EXCEPT !.acct = req[c][2][1]].at = "receive"
    BY <1>1 DEF HandlerState
  <2> QED
    BY <1>1, <1>3, <2>1, <2>2, <2>3, <2>4 DEF ServeResume
<1> QED
  BY <1>2, <1>3

-----------------------------------------------------------------------------
(* Types *)

\* The types of what the game keeps.
LEMMA GameTypes ==
    ASSUME Typed, [Next]_vars
    PROVE  GameTyped'
<1> USE Apart DEF Typed, GameTyped, gameVars, clientVars
<1>1. CASE UNCHANGED vars \/ Worker \/ Server
  BY <1>1, WorkerLeaves, ServerLeaves DEF vars
<1>2. ASSUME NEW q \in Runs, SubmitScore(q)
      PROVE  GameTyped'
  BY <1>2 DEF SubmitScore
<1>3. CASE Stop
  BY <1>3 DEF Stop
<1>4. ASSUME NEW p \in Profiles, Activate(p)
      PROVE  /\ profile' \in Profiles /\ switches' \in 0 .. MaxSwitches /\ seen' \subseteq Profiles
             /\ before' \in [Runs -> SUBSET Profiles] /\ since' \in [Runs -> SUBSET Profiles]
  BY <1>4 DEF Activate
<1>5. ASSUME NEW p \in Profiles, SelectProfile(p)
      PROVE  GameTyped'
  BY <1>4, <1>5 DEF SelectProfile, CredentialsOf, Token, Profiles
<1>6. CASE AddProfile
  BY <1>4, <1>6 DEF AddProfile, Profiles
<1> QED
  BY <1>1, <1>2, <1>3, <1>5, <1>6 DEF Next, Game

\* The types of what the worker keeps.
LEMMA WorkerTypes ==
    ASSUME Typed, LinkInv, [Next]_vars
    PROVE  WorkerTyped'
<1> USE DEF WorkerTyped
<1>0. WorkerTyped
  BY DEF Typed
<1>1. CASE UNCHANGED vars \/ Server \/ Stop \/ AddProfile
  BY <1>0, <1>1, ServerLeaves DEF vars, clientVars, Stop, AddProfile, Activate
<1>2. ASSUME NEW q \in Runs, SubmitScore(q)
      PROVE  WorkerTyped'
  <2>0. 0 < MaxAttempts
    BY Apart
  <2>1. /\ [id |-> q, attempts |-> 0] \in Request
        /\ [id |-> q, attempts |-> 0].attempts = 0
    BY RequestFacts
  <2>2. queue' \in Seq(Request) /\ \A i \in 1 .. Len(queue') : queue'[i].attempts < MaxAttempts
    BY <1>0, <1>2, <2>0, <2>1, QueueFacts DEF SubmitScore
  <2> QED
    BY <1>0, <1>2, <2>2 DEF SubmitScore
<1>3. ASSUME NEW p \in Profiles, SelectProfile(p)
      PROVE  WorkerTyped'
  BY <1>0, <1>3 DEF SelectProfile, Activate, CredentialsOf
<1>4. CASE Connect
  BY <1>0, <1>4 DEF Connect, Free
<1>5. CASE Authenticate
  BY <1>0, <1>5 DEF Authenticate
<1>6. CASE SignedIn
  <2>1. conn \in Conns /\ rep[conn] \in Reply
    BY <1>6, Connected DEF SignedIn, Typed, WireTyped
  <2> QED
    BY <1>0, <1>6, <2>1, MessageFacts DEF SignedIn
<1>7. CASE Reconnect \/ ConnectionLost
  BY <1>0, <1>7, Closes DEF Reconnect, ConnectionLost
<1>8. CASE ExchangeFails
  <2>1. conn' = None /\ worker' = "connect" /\ UNCHANGED session
    BY <1>8, Closes
  <2>2. CASE Retry /\ queue' = <<current>> \o queue /\ UNCHANGED outcome
    <3>1. current \in Request /\ current.attempts < MaxAttempts /\ queue' = <<current>> \o queue
      BY <1>0, <1>8, <2>2, RequestFacts DEF ExchangeFails, Retry
    <3>2. queue' \in Seq(Request) /\ \A i \in 1 .. Len(queue') : queue'[i].attempts < MaxAttempts
      BY <1>0, <3>1, QueueFacts
    <3> QED
      BY <1>0, <1>8, <2>1, <2>2, <3>2 DEF ExchangeFails
  <2>3. CASE outcome' = [outcome EXCEPT ![current.id] = "dropped"] /\ UNCHANGED queue
    BY <1>0, <1>8, <2>1, <2>3 DEF ExchangeFails
  <2> QED
    BY <1>8, <2>2, <2>3 DEF ExchangeFails
<1>9. CASE Pop
  <2>1. queue' \in Seq(Request) /\ \A i \in 1 .. Len(queue') : queue'[i].attempts < MaxAttempts
    <3>1. queue' = Tail(queue) /\ queue \in Seq(Request) /\ queue # <<>>
      BY <1>0, <1>9, Pops
    <3> QED
      BY <1>0, <3>1, TailFacts
  <2> QED
    BY <1>0, <1>9, <2>1, Pops
<1>10. CASE Replied
  BY <1>0, <1>10 DEF Replied
<1>11. CASE WorkerEnds
  BY <1>0, <1>11 DEF WorkerEnds
<1> QED
  BY <1>1, <1>2, <1>3, <1>4, <1>5, <1>6, <1>7, <1>8, <1>9, <1>10, <1>11 DEF Next, Game, Worker

\* The types of what is under way.
LEMMA WireTypes ==
    ASSUME Typed, LinkInv, [Next]_vars
    PROVE  WireTyped'
<1> USE DEF WireTyped
<1>0. WireTyped
  BY DEF Typed
<1>1. CASE UNCHANGED vars \/ Game
  BY <1>0, <1>1, GameLeaves DEF vars, wire, clientVars
<1>2. CASE Connect
  <2>1. \A c \in Conns : rep[c] = None
    BY <1>0, <1>2, Apart DEF Connect, LinkInv
  <2> QED
    BY <1>0, <1>2, <2>1, RequestFacts DEF Connect, Accept
<1>3. CASE Authenticate
  <2>1. \/ UNCHANGED req
        \/ \E m \in Message : Put(conn, m)
    BY <1>3, MessageFacts DEF Authenticate, Typed, GameTyped, WorkerTyped
  <2>2. conn \in Conns /\ UNCHANGED <<rep, handler, conn>>
    BY <1>3, Connected DEF Authenticate
  <2> QED
    BY <1>0, <2>1, <2>2, Puts
<1>4. CASE SignedIn \/ Replied
  BY <1>0, <1>4, Connected DEF SignedIn, Replied
<1>5. CASE Reconnect \/ ConnectionLost \/ ExchangeFails
  BY <1>0, <1>5, Closes
<1>6. CASE Pop
  <2>1. <<"submit", current'.id>> \in Message
    BY <1>6, Pops, MessageFacts
  <2> QED
    BY <1>0, <1>6, <2>1, Pops, Puts
<1>7. CASE WorkerEnds
  BY <1>0, <1>7, RequestFacts DEF WorkerEnds
<1>8. ASSUME NEW c \in Conns, ServeLogin(c) \/ ServeResume(c)
      PROVE  WireTyped'
  <2>1. UNCHANGED conn
    BY <1>8 DEF ServeLogin, ServeResume, clientVars
  <2> QED
    BY <1>0, <1>8, <2>1, SignsIn, Takes, Answers
<1>9. ASSUME NEW c \in Conns, RecordRun(c)
      PROVE  WireTyped'
  <2>1. req[c] \in Message /\ req[c][2] \in Runs
    BY <1>0, <1>9, MessageFacts DEF RecordRun, Kind
  <2> QED
    BY <1>0, <1>9, <2>1, RequestFacts DEF RecordRun, clientVars
<1>10. ASSUME NEW c \in Conns, StoreRun(c)
       PROVE  WireTyped'
  <2>1. /\ rep' \in [Conns -> Reply \cup {None}] /\ UNCHANGED <<req, conn>>
        /\ \A d \in Conns : rep'[d] # None => rep[d] # None \/ d = conn
    BY <1>10, Answers, MessageFacts DEF StoreRun, clientVars
  <2>2. handler' \in [Conns -> HandlerState]
    BY <1>0, <1>10, RequestFacts DEF StoreRun, OrEnd
  <2> QED
    BY <1>0, <2>1, <2>2
<1>11. ASSUME NEW c \in Conns, RefuseRun(c)
       PROVE  WireTyped'
  <2>1. UNCHANGED conn /\ handler[c] \in HandlerState
    BY <1>0, <1>11 DEF RefuseRun, clientVars
  <2> QED
    BY <1>0, <1>11, <2>1, Takes, Answers, MessageFacts DEF RefuseRun
<1>12. ASSUME NEW c \in Conns, HandlerEnds(c)
       PROVE  WireTyped'
  <2>1. UNCHANGED conn /\ Gone \in HandlerState
    BY <1>12, RequestFacts DEF HandlerEnds, clientVars
  <2> QED
    BY <1>0, <1>12, <2>1, Takes, Answers, MessageFacts DEF HandlerEnds
<1>13. CASE Flush \/ Restart \/ \E t \in sessions : Expire(t)
  BY <1>0, <1>13 DEF Flush, Restart, Expire, wire, clientVars
<1>14. CASE Crash \/ ServerStop
  <2>1. /\ handler' = [c \in Conns |-> Gone] /\ req' = [c \in Conns |-> None]
        /\ UNCHANGED <<rep, conn>>
    BY <1>14 DEF Crash, ServerStop, ForgetAnd, clientVars
  <2> QED
    BY <1>0, <2>1, RequestFacts
<1> QED
  BY <1>1, <1>2, <1>3, <1>4, <1>5, <1>6, <1>7, <1>8, <1>9, <1>10, <1>11, <1>12, <1>13, <1>14
  DEF Next, Worker, Server, Serve

\* The types of what the server keeps.
LEMMA ServerTypes ==
    ASSUME Typed, LinkInv, [Next]_vars
    PROVE  ServerTyped'
<1> USE Apart DEF Typed, ServerTyped, serverVars, wire
<1>1. CASE UNCHANGED vars \/ Game \/ Worker
  BY <1>1, GameLeaves, WorkerLeaves DEF vars
<1>2. ASSUME NEW c \in Conns, ServeLogin(c) \/ ServeResume(c)
      PROVE  ServerTyped'
  BY <1>2, MessageFacts, TokenFacts DEF ServeLogin, ServeResume, Kind, WireTyped
<1>3. ASSUME NEW c \in Conns, RecordRun(c)
      PROVE  ServerTyped'
  <2>1. handler[c].acct \in Players /\ req[c][2] \in Runs
    BY <1>3, MessageFacts, RequestFacts DEF RecordRun, Kind, WireTyped
  <2> QED
    BY <1>3, <2>1, TokenFacts DEF RecordRun
<1>4. ASSUME NEW c \in Conns, StoreRun(c)
      PROVE  ServerTyped'
  BY <1>4, TokenFacts DEF StoreRun, Submit, LinkInv
<1>5. ASSUME NEW c \in Conns, RefuseRun(c) \/ HandlerEnds(c)
      PROVE  ServerTyped'
  BY <1>5 DEF RefuseRun, HandlerEnds
<1>6. CASE Flush \/ Restart
  BY <1>6 DEF Flush, Restart
<1>7. ASSUME NEW t \in sessions, Expire(t)
      PROVE  ServerTyped'
  BY <1>7 DEF Expire
<1>8. CASE Crash
  BY <1>8 DEF Crash, ForgetAnd
<1>9. CASE ServerStop
  BY <1>9 DEF ServerStop, ForgetAnd
<1> QED
  BY <1>1, <1>2, <1>3, <1>4, <1>5, <1>6, <1>7, <1>8, <1>9 DEF Next, Server, Serve

\* The types of the flags.
LEMMA FlagTypes ==
    ASSUME Typed, [Next]_vars
    PROVE  FlagsTyped'
<1> USE DEF Typed, FlagsTyped, gameVars, clientVars, serverVars
<1>1. CASE UNCHANGED vars
  BY <1>1 DEF vars
<1>2. CASE Game
  BY <1>2 DEF Game, Stop, SubmitScore, AddProfile, SelectProfile, Activate
<1>3. CASE Worker
  BY <1>3 DEF Worker, Connect, Authenticate, SignedIn, Reconnect, Pop, Replied, ExchangeFails,
     ConnectionLost, WorkerEnds
<1>4. ASSUME NEW c \in Conns, Serve(c) \/ HandlerEnds(c)
      PROVE  FlagsTyped'
  BY <1>4 DEF Serve, ServeLogin, ServeResume, RecordRun, StoreRun, RefuseRun, HandlerEnds
<1>5. CASE Flush \/ Crash \/ ServerStop \/ Restart \/ \E t \in sessions : Expire(t)
  BY <1>5 DEF Expire, Flush, Crash, ServerStop, ForgetAnd, Restart
<1> QED
  BY <1>1, <1>2, <1>3, <1>4, <1>5 DEF Next, Server

-----------------------------------------------------------------------------
(* The link *)

\* What is on a connection stays that of the worker's current request.
LEMMA LinkStep ==
    ASSUME Typed, LinkInv, [Next]_vars
    PROVE  LinkInv'
<1> USE DEF LinkInv
<1>0. /\ \A c \in Conns : handler[c] \in HandlerState /\ req[c] \in Message \cup {None}
      /\ worker \in {"connect", "greet", "auth", "serve", "exchange", "stopped"}
      /\ conn \in Conns \cup {None} /\ None \notin Conns
      /\ handler \in [Conns -> HandlerState] /\ rep \in [Conns -> Reply \cup {None}]
      /\ req \in [Conns -> Message \cup {None}] /\ \A c \in Conns : rep[c] # None => conn = c
  BY Apart DEF Typed, WireTyped, WorkerTyped
<1>1. CASE UNCHANGED vars \/ Game
  BY <1>1, GameLeaves DEF vars, wire, clientVars
<1>2. CASE Connect
  <2>1. conn' \in Conns /\ handler[conn'].at = "none" /\ conn = None
    BY <1>2 DEF Connect, Free
  <2>2. /\ worker' = "greet" /\ req' = req /\ rep' = rep
        /\ handler' = [handler EXCEPT ![conn'] = [Gone EXCEPT !.at = "receive"]]
    BY <1>2 DEF Connect, Accept
  <2>3. [Gone EXCEPT !.at = "receive"].at = "receive"
    BY DEF Gone
  <2> QED
    BY <1>0, <2>1, <2>2, <2>3
<1>3. CASE Authenticate
  <2>1. \/ UNCHANGED req /\ worker' = "serve"
        \/ /\ worker' = "auth"
           /\ \E m \in Message : Put(conn, m) /\ m[1] # "submit"
    BY <1>3, MessageFacts DEF Authenticate, Typed, GameTyped, WorkerTyped
  <2>2. conn \in Conns /\ UNCHANGED <<rep, handler, conn>> /\ worker = "greet"
    BY <1>3, Connected DEF Authenticate
  <2>3. \A d \in Conns : d # conn \/ handler[conn].at = "none" => req'[d] = req[d]
    BY <2>1, <2>2, Puts
  <2>4. req'[conn] # None => req'[conn][1] # "submit"
    BY <2>1, <2>2, <2>3, Puts
  <2> QED
    BY <1>0, <2>1, <2>2, <2>3, <2>4
<1>4. CASE SignedIn \/ Replied
  <2>1. conn \in Conns /\ rep[conn] # None /\ rep' = [rep EXCEPT ![conn] = None]
    BY <1>4, Connected DEF SignedIn, Replied
  <2>2. worker' = "serve" /\ UNCHANGED <<req, handler, conn>>
    BY <1>4 DEF SignedIn, Replied
  <2> QED
    BY <1>0, <2>1, <2>2
<1>5. CASE Reconnect \/ ConnectionLost \/ ExchangeFails
  <2>1. Gone.at = "none"
    BY DEF Gone
  <2> QED
    BY <1>0, <1>5, <2>1, Closes
<1>6. CASE Pop
  <2>1. <<"submit", current'.id>> \in Message
    BY <1>6, Pops, MessageFacts
  <2>2. /\ \A d \in Conns : d # conn \/ handler[conn].at = "none" => req'[d] = req[d]
        /\ handler[conn].at # "none" => req'[conn] = <<"submit", current'.id>>
    BY <1>6, <2>1, Pops, Puts
  <2> QED
    BY <1>0, <1>6, <2>2, Pops
<1>7. CASE WorkerEnds
  <2>1. /\ worker' = "stopped" /\ conn' = None /\ rep' = [c \in Conns |-> None] /\ req' = req
        /\ \A c \in Conns : handler'[c] # handler[c] => handler'[c].at = "none" /\ req[c] = None
    BY <1>0, <1>7 DEF WorkerEnds, Gone
  <2> QED
    BY <1>0, <2>1
<1>8. ASSUME NEW c \in Conns, NEW h \in HandlerState, NEW m \in Reply,
             Take(c, h), Answer(c, m) \/ UNCHANGED rep, h.at # "store",
             UNCHANGED <<worker, conn, current>>, req[c] # None
      PROVE  LinkInv'
  <2>1. /\ \A d \in Conns : d # c => handler'[d] = handler[d] /\ req'[d] = req[d] /\ rep'[d] = rep[d]
        /\ req'[c] = None /\ handler'[c].at # "store"
    BY <1>0, <1>8, Takes DEF OrEnd, Answer, Gone
  <2> QED
    BY <1>0, <1>8, <2>1
<1>9. ASSUME NEW c \in Conns, ServeLogin(c) \/ ServeResume(c)
      PROVE  LinkInv'
  <2>1. UNCHANGED <<worker, conn, current>> /\ req[c] # None
    BY <1>9 DEF ServeLogin, ServeResume, clientVars, Kind
  <2> QED
    BY <1>8, <1>9, <2>1, SignsIn
<1>10. ASSUME NEW c \in Conns, RecordRun(c)
       PROVE  LinkInv'
  <2>1. /\ req[c] \in Message /\ req[c][1] = "submit" /\ req[c][2] \in Runs
        /\ handler[c].acct \in Players /\ handler[c].at = "receive"
    BY <1>0, <1>10, MessageFacts, RequestFacts DEF RecordRun, Kind
  <2>2. /\ handler' = [handler EXCEPT ![c].at = "store", ![c].run = req[c][2]]
        /\ req' = [req EXCEPT ![c] = None] /\ UNCHANGED <<rep, worker, conn, current>>
    BY <1>10 DEF RecordRun, clientVars
  <2>3. /\ handler'[c].at = "store" /\ handler'[c].run = req[c][2]
        /\ handler'[c].acct = handler[c].acct
        /\ \A d \in Conns : d # c => handler'[d] = handler[d] /\ req'[d] = req[d]
        /\ req'[c] = None
    BY <1>0, <2>2 DEF HandlerState
  <2>4. conn = c => worker = "exchange" /\ req[c] = <<"submit", current.id>> /\ rep[c] = None
    BY <1>0, <1>10, <2>1 DEF RecordRun, Kind
  <2> QED
    BY <1>0, <2>1, <2>2, <2>3, <2>4
<1>11. ASSUME NEW c \in Conns, StoreRun(c)
       PROVE  LinkInv'
  <2>1. /\ handler'[c].at # "store" /\ handler[c].at = "store"
        /\ conn = c => handler'[c].at = "receive"
        /\ \A d \in Conns : d # c => handler'[d] = handler[d] /\ rep'[d] = rep[d]
        /\ UNCHANGED <<req, worker, conn, current>>
    BY <1>0, <1>11 DEF StoreRun, OrEnd, Gone, HandlerState, clientVars, Answer
  <2> QED
    BY <1>0, <2>1
<1>12. ASSUME NEW c \in Conns, RefuseRun(c)
       PROVE  LinkInv'
  <2>1. /\ UNCHANGED <<worker, conn, current>> /\ Take(c, handler[c]) /\ req[c] # None
        /\ handler[c].at = "receive" /\ (Answer(c, <<"error">>) \/ Answer(c, <<"ack">>))
    BY <1>12 DEF RefuseRun, clientVars, Kind
  <2> QED
    BY <1>0, <1>8, <2>1, MessageFacts
<1>13. ASSUME NEW c \in Conns, HandlerEnds(c)
       PROVE  LinkInv'
  <2>1. /\ UNCHANGED <<worker, conn, current>> /\ Take(c, Gone) /\ Gone \in HandlerState
        /\ Gone.at = "none"
    BY <1>13, RequestFacts DEF HandlerEnds, clientVars, Gone
  <2>2. CASE req[c] # None
    BY <1>8, <1>13, <2>1, <2>2, MessageFacts DEF HandlerEnds
  <2>3. CASE req[c] = None
    <3>1. rep' = rep
      BY <1>13, <2>3 DEF HandlerEnds
    <3> QED
      BY <1>0, <2>1, <2>3, <3>1, Takes DEF OrEnd
  <2> QED
    BY <2>2, <2>3
<1>14. CASE Flush \/ Restart \/ \E t \in sessions : Expire(t)
  BY <1>14 DEF Flush, Restart, Expire, wire, clientVars
<1>15. CASE Crash \/ ServerStop
  <2>1. /\ handler' = [c \in Conns |-> Gone] /\ req' = [c \in Conns |-> None]
        /\ UNCHANGED <<rep, conn, worker, current>> /\ Gone.at = "none"
    BY <1>15 DEF Crash, ServerStop, ForgetAnd, clientVars, Gone
  <2> QED
    BY <1>0, <2>1
<1> QED
  BY <1>1, <1>2, <1>3, <1>4, <1>5, <1>6, <1>7, <1>9, <1>10, <1>11, <1>12, <1>13, <1>14, <1>15
  DEF Next, Worker, Server, Serve

-----------------------------------------------------------------------------
(* Requests, and the profile they wait under *)

\* Requests go on waiting in one place, for the active profile.
LEMMA QueueStep ==
    ASSUME Typed, LinkInv, QueueInv, [Next]_vars
    PROVE  QueueInv'
<1> USE DEF QueueInv
<1>0. /\ queue \in Seq(Request) /\ Len(queue) \in Nat
      /\ \A i \in 1 .. Len(queue) : queue[i] \in Request /\ queue[i].id \in Runs
      /\ outcome \in [Runs -> {"new", "waiting", "acked", "refused", "dropped"}]
      /\ since \in [Runs -> SUBSET Profiles]
      /\ worker = "exchange" => current \in Request /\ current.id \in Runs
  <2>1. /\ queue \in Seq(Request)
        /\ worker = "exchange" => current \in Request
        /\ outcome \in [Runs -> {"new", "waiting", "acked", "refused", "dropped"}]
        /\ since \in [Runs -> SUBSET Profiles]
    BY DEF Typed, WorkerTyped, GameTyped
  <2>2. Len(queue) \in Nat /\ \A i \in 1 .. Len(queue) : queue[i] \in Request
    BY <2>1
  <2> QED
    BY <2>1, <2>2, RequestFacts
<1>1. CASE UNCHANGED vars \/ Server \/ Stop
  BY <1>1, ServerLeaves DEF vars, clientVars, gameVars, Stop
<1>2. ASSUME NEW q \in Runs, SubmitScore(q)
      PROVE  QueueInv'
  <2> DEFINE x == [id |-> q, attempts |-> 0]
  <2>1. x \in Request /\ x.id = q
    BY RequestFacts
  <2>2. /\ queue' = Append(queue, x) /\ outcome[q] = "new" /\ UNCHANGED <<worker, current, profile>>
        /\ outcome' = [outcome EXCEPT ![q] = "waiting"] /\ since' = [since EXCEPT ![q] = {profile}]
    BY <1>2 DEF SubmitScore
  <2>3. Len(queue') = Len(queue) + 1
        /\ \A i \in 1 .. Len(queue) + 1 : queue'[i] = IF i = Len(queue) + 1 THEN x ELSE queue[i]
    BY <1>0, <2>1, <2>2, QueueFacts
  <2>4. \A i \in 1 .. Len(queue) : queue[i].id # q
    BY <2>2
  <2>5. worker = "exchange" => current.id # q
    BY <2>2
  <2> HIDE DEF x
  <2>6. \A i \in 1 .. Len(queue') : outcome'[queue'[i].id] = "waiting"
    BY <1>0, <2>1, <2>2, <2>3, <2>4
  <2>7. \A i, j \in 1 .. Len(queue') : queue'[i].id = queue'[j].id => i = j
    BY <1>0, <2>1, <2>3, <2>4
  <2>8. worker' = "exchange" => /\ outcome'[current'.id] = "waiting"
                                /\ \A i \in 1 .. Len(queue') : queue'[i].id # current'.id
    BY <1>0, <2>1, <2>2, <2>3, <2>5
  <2> QED
    BY <1>0, <2>2, <2>6, <2>7, <2>8
<1>3. ASSUME NEW p \in Profiles, Activate(p)
      PROVE  QueueInv'
  <2>1. /\ profile' = p /\ UNCHANGED <<queue, worker, current, outcome>>
        /\ since' = [r \in Runs |-> IF outcome[r] = "waiting" THEN since[r] \cup {p} ELSE since[r]]
    BY <1>3 DEF Activate
  <2> QED
    BY <1>0, <2>1
<1>4. CASE Connect \/ Authenticate \/ SignedIn \/ Reconnect \/ ConnectionLost
  <2>1. worker' # "exchange" /\ UNCHANGED <<queue, outcome, profile, since>>
    BY <1>4 DEF Connect, Authenticate, SignedIn, Reconnect, ConnectionLost, CloseAnd, gameVars
  <2> QED
    BY <2>1
<1>5. CASE Pop
  <2>1. /\ queue' = Tail(queue) /\ queue # <<>> /\ current'.id = queue[1].id
        /\ UNCHANGED <<outcome, profile, since>>
    BY <1>5, Pops DEF gameVars
  <2>2. /\ Len(queue') = Len(queue) - 1 /\ Len(queue) \in Nat \ {0}
        /\ \A i \in 1 .. Len(queue) - 1 : queue'[i] = queue[i + 1]
    BY <1>0, <2>1, TailFacts
  <2>3. \A i \in 1 .. Len(queue') : queue'[i] = queue[i + 1] /\ i + 1 \in 1 .. Len(queue)
    BY <2>2
  <2> QED
    BY <2>1, <2>2, <2>3
<1>6. CASE Replied
  <2>1. worker' # "exchange" /\ UNCHANGED <<queue, profile, since>> /\ worker = "exchange"
    BY <1>6 DEF Replied, gameVars
  <2>2. \E o \in {"acked", "refused"} : outcome' = [outcome EXCEPT ![current.id] = o]
    BY <1>6 DEF Replied
  <2> QED
    BY <1>0, <2>1, <2>2
<1>7. CASE ExchangeFails
  <2>1. worker' # "exchange" /\ UNCHANGED <<profile, since>> /\ worker = "exchange"
    BY <1>7 DEF ExchangeFails, CloseAnd, gameVars
  <2>2. CASE queue' = <<current>> \o queue /\ UNCHANGED outcome
    <3>1. queue' = <<current>> \o queue /\ UNCHANGED outcome
      BY <2>2
    <3>2. /\ Len(queue') = Len(queue) + 1
          /\ \A i \in 1 .. Len(queue) + 1 : queue'[i] = IF i = 1 THEN current ELSE queue[i - 1]
      BY <1>0, <2>1, <3>1, QueueFacts
    <3>3. \A i \in 1 .. Len(queue') : i # 1 => queue'[i] = queue[i - 1] /\ i - 1 \in 1 .. Len(queue)
      BY <1>0, <3>2
    <3>4. queue'[1] = current
      BY <1>0, <3>2
    <3>5. \A i, j \in 1 .. Len(queue') : queue'[i].id = queue'[j].id => i = j
      <4> SUFFICES ASSUME NEW i \in 1 .. Len(queue'), NEW j \in 1 .. Len(queue'),
                          queue'[i].id = queue'[j].id
                   PROVE  i = j
        OBVIOUS
      <4>1. CASE i = 1 \/ j = 1
        BY <4>1, <2>1, <3>3, <3>4
      <4>2. CASE i # 1 /\ j # 1
        <5>1. i - 1 = j - 1
          BY <4>2, <3>3
        <5> QED
          BY <1>0, <3>2, <5>1
      <4> QED
        BY <4>1, <4>2
    <3> QED
      BY <2>1, <3>1, <3>3, <3>4, <3>5
  <2>3. CASE UNCHANGED queue /\ outcome' = [outcome EXCEPT ![current.id] = "dropped"]
    BY <1>0, <2>1, <2>3
  <2> QED
    BY <1>7, <2>2, <2>3 DEF ExchangeFails
<1>8. CASE WorkerEnds
  <2>1. /\ worker' # "exchange" /\ queue' = <<>> /\ UNCHANGED <<profile, since>>
        /\ outcome' = [q \in Runs |-> IF \E i \in DOMAIN queue : queue[i].id = q
                                      THEN "dropped" ELSE outcome[q]]
    BY <1>8 DEF WorkerEnds, gameVars
  <2>2. \A r \in Runs : outcome'[r] \in {outcome[r], "dropped"}
    BY <2>1
  <2> QED
    BY <2>1, <2>2
<1> QED
  BY <1>1, <1>2, <1>3, <1>4, <1>5, <1>6, <1>7, <1>8
  DEF Next, Game, Worker, SelectProfile, AddProfile, Profiles

-----------------------------------------------------------------------------
(* Whose account a connection is used for *)

\* A connection in use is signed in to the active account, or to none.
LEMMA AccountStep ==
    ASSUME Typed, LinkInv, AccountInv, [Next]_vars
    PROVE  AccountInv'
<1> USE DEF AccountInv
<1>0. /\ \A c \in Conns : handler[c] \in HandlerState /\ req[c] \in Message \cup {None}
      /\ conn \in Conns \cup {None} /\ None \notin Conns
      /\ handler \in [Conns -> HandlerState] /\ req \in [Conns -> Message \cup {None}]
  BY Apart DEF Typed, WireTyped, WorkerTyped
<1>1. CASE UNCHANGED vars \/ Stop \/ \E q \in Runs : SubmitScore(q)
  BY <1>1 DEF Stop, SubmitScore, vars, gameVars, clientVars, wire
<1>2. CASE AddProfile \/ \E p \in Profiles : SelectProfile(p)
  BY <1>2 DEF AddProfile, SelectProfile, Activate, CredentialsOf, Token
<1>3. ASSUME Worker
      PROVE  UNCHANGED <<profile, cred>> /\ (profile' # Local => cred' = profile')
  BY <1>3, WorkerLeaves DEF gameVars
<1>4. CASE Connect
  <2>1. conn' \in Conns /\ req'[conn'] = None /\ handler'[conn'].acct = None
    BY <1>0, <1>4 DEF Connect, Free, Accept, LinkInv, Gone
  <2> QED
    BY <1>3, <1>4, <2>1 DEF Worker
<1>5. CASE Authenticate
  <2>1. conn \in Conns /\ UNCHANGED <<rep, handler, conn, reconnect>> /\ worker = "greet"
    BY <1>5, Connected DEF Authenticate
  <2>2. req[conn] = None
    BY <1>5, <2>1 DEF LinkInv, Authenticate
  <2>3. ASSUME profile # Local
        PROVE  cred = profile /\ cred # None /\ <<"login", cred>> \in Message
    BY <2>3, Apart, MessageFacts DEF Typed, GameTyped, Profiles
  <2>4. profile # Local => Put(conn, <<"login", profile>>)
    BY <1>5, <2>3 DEF Authenticate
  <2>5. profile # Local => req'[conn] = None \/ req'[conn] = <<"login", profile>>
    BY <2>1, <2>2, <2>3, <2>4, Puts
  <2> QED
    BY <1>3, <1>5, <2>1, <2>2, <2>5 DEF Worker
<1>6. CASE SignedIn \/ Replied
  BY <1>3, <1>6 DEF SignedIn, Replied, Worker
<1>7. CASE Reconnect \/ ConnectionLost \/ ExchangeFails \/ WorkerEnds
  BY <1>3, <1>7, Closes DEF Worker, WorkerEnds
<1>8. CASE Pop
  <2>1. <<"submit", current'.id>> \in Message
    BY <1>8, Pops, MessageFacts
  <2>2. req'[conn] = req[conn] \/ req'[conn] = <<"submit", current'.id>>
    BY <1>8, <2>1, Pops, Puts
  <2> QED
    BY <1>3, <1>8, <2>2, Pops DEF Worker
<1>9. ASSUME Server, conn # None =>
                \/ req'[conn] = req[conn] /\ handler'[conn].acct = handler[conn].acct
                \/ req'[conn] = None /\ handler'[conn].acct \in {handler[conn].acct, None}
                \/ req'[conn] = None /\ req[conn][1] = "login"
                     /\ req[conn] # None /\ handler'[conn].acct = req[conn][2]
                \/ req[conn] # None /\ req[conn][1] = "resume"
      PROVE  AccountInv'
  BY <1>9, ServerLeaves DEF gameVars, clientVars
<1>10. ASSUME NEW c \in Conns, ServeLogin(c) \/ ServeResume(c)
       PROVE  AccountInv'
  <2>1. req[c] # None
    BY <1>10 DEF ServeLogin, ServeResume, Kind
  <2>2. PICK h \in HandlerState : /\ Take(c, h) /\ req[c][1] \in {"login", "resume"}
                                  /\ req[c][1] = "login" => h.acct = req[c][2]
    BY <1>10, SignsIn
  <2>3. /\ req'[c] = None
        /\ conn = c => handler'[c] = h
        /\ \A d \in Conns : d # c => handler'[d] = handler[d] /\ req'[d] = req[d]
    BY <2>2, Takes DEF OrEnd
  <2> QED
    BY <1>0, <1>9, <1>10, <2>1, <2>2, <2>3 DEF Server, Serve
<1>11. ASSUME NEW c \in Conns, RecordRun(c) \/ StoreRun(c) \/ RefuseRun(c) \/ HandlerEnds(c)
       PROVE  AccountInv'
  <2>1. /\ handler'[c].acct \in {handler[c].acct, None}
        /\ req'[c] = None \/ (req'[c] = req[c] /\ (conn = c => handler'[c].acct = handler[c].acct))
        /\ \A d \in Conns : d # c => handler'[d] = handler[d] /\ req'[d] = req[d]
    <3>1. CASE RecordRun(c)
      BY <1>0, <3>1 DEF RecordRun, HandlerState
    <3>2. CASE StoreRun(c)
      BY <1>0, <3>2 DEF StoreRun, OrEnd, HandlerState, Gone
    <3>3. CASE RefuseRun(c)
      BY <1>0, <3>3, Takes DEF RefuseRun, OrEnd, Gone
    <3>4. CASE HandlerEnds(c)
      <4>1. Gone \in HandlerState /\ Take(c, Gone) /\ Gone.acct = None
        BY <3>4, RequestFacts DEF HandlerEnds, Gone
      <4> QED
        BY <4>1, Takes DEF OrEnd
    <3> QED
      BY <1>11, <3>1, <3>2, <3>3, <3>4
  <2> QED
    BY <1>0, <1>9, <1>11, <2>1 DEF Server, Serve
<1>12. CASE Flush \/ Restart \/ \E t \in sessions : Expire(t)
  BY <1>9, <1>12 DEF Flush, Restart, Expire, wire, Server
<1>13. CASE Crash \/ ServerStop
  <2>1. /\ handler' = [c \in Conns |-> Gone] /\ req' = [c \in Conns |-> None] /\ Gone.acct = None
    BY <1>13 DEF Crash, ServerStop, ForgetAnd, Gone
  <2> QED
    BY <1>0, <1>9, <1>13, <2>1 DEF Server
<1> QED
  BY <1>1, <1>2, <1>4, <1>5, <1>6, <1>7, <1>8, <1>10, <1>11, <1>12, <1>13
  DEF Next, Game, Worker, Server, Serve

\* Who was active stays among those who were, and no step signs in another.
LEMMA SeenStep ==
    ASSUME Typed, LinkInv, SeenInv, [Next]_vars
    PROVE  SeenInv'
<1> USE DEF SeenInv
<1>0. /\ \A c \in Conns : handler[c] \in HandlerState /\ req[c] \in Message \cup {None}
      /\ handler \in [Conns -> HandlerState] /\ req \in [Conns -> Message \cup {None}]
      /\ rep \in [Conns -> Reply \cup {None}]
      /\ outcome \in [Runs -> {"new", "waiting", "acked", "refused", "dropped"}]
      /\ before \in [Runs -> SUBSET Profiles] /\ since \in [Runs -> SUBSET Profiles]
  BY DEF Typed, WireTyped, WorkerTyped, GameTyped
<1>1. CASE UNCHANGED vars \/ Stop
  BY <1>1 DEF vars, gameVars, clientVars, wire, Stop
<1>2. ASSUME NEW q \in Runs, SubmitScore(q)
      PROVE  SeenInv'
  <2>1. \A r \in Runs : outcome'[r] = "waiting" => seen' \subseteq before'[r] \cup since'[r]
    BY <1>0, <1>2 DEF SubmitScore
  <2> QED
    BY <1>2, <2>1 DEF SubmitScore, wire
<1>3. ASSUME NEW p \in Profiles, Activate(p), cred' \in {cred, p, None}, session' \in {session, None}
      PROVE  SeenInv'
  <2>1. seen' = seen \cup {p} /\ profile' = p /\ UNCHANGED wire
    BY <1>3 DEF Activate
  <2>2. \A r \in Runs : outcome'[r] = "waiting" => seen' \subseteq before'[r] \cup since'[r]
    BY <1>3 DEF Activate
  <2> QED
    BY <1>3, <2>1, <2>2 DEF wire
\* The worker and the server: what they pass on names only who was active.
<1>4. ASSUME UNCHANGED <<gameVars, cred>>,
             \A r \in Runs : outcome'[r] = "waiting" => outcome[r] = "waiting",
             session' = session \/ (session' # None => session'[1] \in seen),
             \A c \in Conns :
                /\ handler'[c].acct \in {handler[c].acct, None} \cup seen
                /\ \/ req'[c] \in {req[c], None}
                   \/ /\ req'[c][1] = "login" => req'[c][2] \in seen
                      /\ req'[c][1] = "resume" => req'[c][2][1] \in seen
                /\ \/ rep'[c] \in {rep[c], None}
                   \/ rep'[c][1] = "welcome" => rep'[c][2][1] \in seen
      PROVE  SeenInv'
  BY <1>4 DEF gameVars
<1>5. CASE Connect
  <2>1. /\ UNCHANGED <<gameVars, cred, session, outcome, req, rep>>
        /\ \A c \in Conns : handler'[c].acct \in {handler[c].acct, None}
    BY <1>0, <1>5 DEF Connect, Accept, Gone
  <2> QED
    BY <1>4, <2>1
<1>6. CASE Authenticate
  <2>1. /\ conn \in Conns
        /\ UNCHANGED <<gameVars, cred, session, outcome, rep, handler>>
    BY <1>6, Connected DEF Authenticate
  <2>2. \/ UNCHANGED req
        \/ \E m \in Message : /\ Put(conn, m)
                              /\ m[1] = "login" => m[2] \in seen
                              /\ m[1] = "resume" => m[2][1] \in seen
    <3>1. cred # None => <<"login", cred>> \in Message /\ cred \in seen
      BY MessageFacts DEF Typed, GameTyped
    <3>2. session # None => <<"resume", session>> \in Message /\ session[1] \in seen
      BY MessageFacts DEF Typed, WorkerTyped
    <3> QED
      BY <1>6, <3>1, <3>2 DEF Authenticate
  <2>3. \A c \in Conns :
           \/ req'[c] = req[c]
           \/ /\ req'[c][1] = "login" => req'[c][2] \in seen
              /\ req'[c][1] = "resume" => req'[c][2][1] \in seen
    BY <2>1, <2>2, Puts
  <2> QED
    BY <1>4, <2>1, <2>3
<1>7. CASE SignedIn \/ Replied
  <2>1. conn \in Conns /\ UNCHANGED <<gameVars, cred, req, handler>> /\ rep[conn] # None
    BY <1>7, Connected DEF SignedIn, Replied
  <2>2. session' = session \/ (session' # None => session'[1] \in seen)
    BY <1>7, <2>1 DEF SignedIn, Replied
  <2>3. \A c \in Conns : rep'[c] \in {rep[c], None}
    BY <1>0, <1>7 DEF SignedIn, Replied
  <2>4. \A r \in Runs : outcome'[r] = "waiting" => outcome[r] = "waiting"
    BY <1>0, <1>7 DEF SignedIn, Replied
  <2> QED
    BY <1>4, <2>1, <2>2, <2>3, <2>4
<1>8. CASE Reconnect \/ ConnectionLost \/ ExchangeFails
  <2>0. UNCHANGED <<gameVars, cred>> /\ Gone.acct = None
    BY <1>8 DEF Gone, Reconnect, ConnectionLost, ExchangeFails
  <2>1. /\ UNCHANGED <<gameVars, cred, req, session>> /\ rep' = [c \in Conns |-> None]
        /\ \A c \in Conns : handler'[c].acct \in {handler[c].acct, None}
    BY <1>8, <2>0, Closes
  <2>2. \A r \in Runs : outcome'[r] = "waiting" => outcome[r] = "waiting"
    BY <1>0, <1>8 DEF Reconnect, ConnectionLost, ExchangeFails
  <2> QED
    BY <1>4, <2>1, <2>2
<1>9. CASE Pop
  <2>1. <<"submit", current'.id>> \in Message
    BY <1>9, Pops, MessageFacts
  <2>2. \A c \in Conns : req'[c] = req[c] \/ req'[c] = <<"submit", current'.id>>
    BY <1>9, <2>1, Pops, Puts
  <2>3. UNCHANGED <<gameVars, cred, session, outcome, rep, handler>>
    BY <1>9 DEF Pop
  <2> QED
    BY <1>4, <2>2, <2>3
<1>10. CASE WorkerEnds
  <2>1. /\ UNCHANGED <<gameVars, cred, req, session>> /\ rep' = [c \in Conns |-> None]
        /\ \A c \in Conns : handler'[c].acct \in {handler[c].acct, None}
        /\ \A r \in Runs : outcome'[r] = "waiting" => outcome[r] = "waiting"
    BY <1>0, <1>10 DEF WorkerEnds, Gone
  <2> QED
    BY <1>4, <2>1
<1>11. ASSUME NEW c \in Conns, NEW h \in HandlerState, Take(c, h), UNCHANGED <<gameVars, clientVars>>,
              h.acct \in {handler[c].acct, None} \cup seen,
              \/ UNCHANGED rep
              \/ \E m \in Reply : Answer(c, m) /\ (m[1] = "welcome" => m[2][1] \in seen)
       PROVE  SeenInv'
  <2>1. /\ \A d \in Conns : d # c => handler'[d] = handler[d] /\ req'[d] = req[d]
        /\ req'[c] = None /\ handler'[c] \in {h, Gone} /\ Gone.acct = None
    BY <1>11, Takes DEF OrEnd, Gone
  <2>2. \A d \in Conns : \/ rep'[d] = rep[d]
                         \/ rep'[d][1] = "welcome" => rep'[d][2][1] \in seen
    BY <1>0, <1>11 DEF Answer
  <2>3. \A d \in Conns : /\ handler'[d].acct \in {handler[d].acct, None} \cup seen
                         /\ req'[d] \in {req[d], None}
    BY <1>11, <2>1
  <2> QED
    BY <1>4, <1>11, <2>2, <2>3 DEF clientVars
<1>12. ASSUME NEW c \in Conns, ServeLogin(c)
       PROVE  SeenInv'
  <2>1. req[c] \in Message /\ req[c][1] = "login" /\ req[c] # None /\ UNCHANGED <<gameVars, clientVars>>
    BY <1>0, <1>12 DEF ServeLogin, Kind
  <2>2. req[c][2] \in Players /\ req[c][2] \in seen /\ epoch \in 0 .. MaxEpochs
    BY <2>1, MessageFacts DEF Typed, ServerTyped
  <2> DEFINE a == req[c][2]
             h == [handler[c] EXCEPT !.acct = a]
             m == <<"welcome", <<a, epoch>>>>
  <2>3. h \in HandlerState /\ h.acct = a
    BY <1>0, <2>2, RequestFacts DEF HandlerState
  <2>4. m \in Reply /\ m[2][1] \in seen
    BY <2>2, MessageFacts, TokenFacts
  <2>5. Take(c, h) /\ Answer(c, m)
    BY <1>12 DEF ServeLogin
  <2> HIDE DEF h, m
  <2> QED
    BY <1>11, <2>1, <2>2, <2>3, <2>4, <2>5
<1>13. ASSUME NEW c \in Conns, ServeResume(c)
       PROVE  SeenInv'
  <2>1. req[c] \in Message /\ req[c][1] = "resume" /\ req[c] # None /\ UNCHANGED <<gameVars, clientVars>>
    BY <1>0, <1>13 DEF ServeResume, Kind
  <2>2. req[c][2] \in Tokens /\ req[c][2][1] \in seen /\ epoch \in 0 .. MaxEpochs
    BY <2>1, MessageFacts DEF Typed, ServerTyped
  <2> DEFINE a == req[c][2][1]
             h == [handler[c] EXCEPT !.acct = a]
             m == <<"welcome", <<a, epoch>>>>
  <2>3. a \in Players
    BY <2>2, TokenFacts
  <2>4. h \in HandlerState /\ h.acct = a /\ handler[c] \in HandlerState
    BY <1>0, <2>3, RequestFacts DEF HandlerState
  <2>5. m \in Reply /\ m[2][1] \in seen /\ <<"rejected">> \in Reply /\ <<"rejected">>[1] # "welcome"
    BY <2>2, <2>3, MessageFacts, TokenFacts
  <2>6. \/ Take(c, h) /\ Answer(c, m)
        \/ Take(c, handler[c]) /\ Answer(c, <<"rejected">>)
    BY <1>13 DEF ServeResume
  <2> HIDE DEF h, m
  <2> QED
    BY <1>11, <2>1, <2>2, <2>4, <2>5, <2>6
<1>14. ASSUME NEW c \in Conns, RecordRun(c)
       PROVE  SeenInv'
  <2>1. /\ UNCHANGED <<gameVars, clientVars, rep>>
        /\ \A d \in Conns : handler'[d].acct = handler[d].acct /\ req'[d] \in {req[d], None}
    BY <1>0, <1>14 DEF RecordRun, HandlerState
  <2> QED
    BY <1>4, <2>1 DEF clientVars
<1>15. ASSUME NEW c \in Conns, StoreRun(c)
       PROVE  SeenInv'
  <2>1. /\ UNCHANGED <<gameVars, clientVars, req>>
        /\ \A d \in Conns : handler'[d].acct \in {handler[d].acct, None}
    BY <1>0, <1>15 DEF StoreRun, OrEnd, Gone, HandlerState
  <2>2. <<"ack">> \in Reply /\ <<"ack">>[1] # "welcome"
    BY MessageFacts
  <2>3. \A d \in Conns : rep'[d] = rep[d] \/ rep'[d] = <<"ack">>
    BY <1>0, <1>15 DEF StoreRun, Answer
  <2> QED
    BY <1>4, <2>1, <2>2, <2>3 DEF clientVars
<1>16. ASSUME NEW c \in Conns, RefuseRun(c) \/ HandlerEnds(c)
       PROVE  SeenInv'
  <2>1. /\ <<"error">> \in Reply /\ <<"error">>[1] # "welcome"
        /\ <<"ack">> \in Reply /\ <<"ack">>[1] # "welcome"
    BY MessageFacts
  <2>2. UNCHANGED <<gameVars, clientVars>> /\ Gone \in HandlerState /\ Gone.acct = None
    BY <1>16, RequestFacts DEF RefuseRun, HandlerEnds, Gone
  <2>3. CASE RefuseRun(c)
    BY <1>0, <1>11, <2>1, <2>2, <2>3 DEF RefuseRun
  <2>4. CASE HandlerEnds(c)
    BY <1>0, <1>11, <2>1, <2>2, <2>4 DEF HandlerEnds
  <2> QED
    BY <1>16, <2>3, <2>4
<1>17. CASE Flush \/ Restart \/ \E t \in sessions : Expire(t)
  BY <1>4, <1>17 DEF Flush, Restart, Expire, wire, clientVars
<1>18. CASE Crash \/ ServerStop
  <2>1. /\ handler' = [c \in Conns |-> Gone] /\ req' = [c \in Conns |-> None] /\ Gone.acct = None
        /\ UNCHANGED <<gameVars, clientVars, rep>>
    BY <1>18 DEF Crash, ServerStop, ForgetAnd, Gone
  <2> QED
    BY <1>4, <2>1 DEF clientVars
<1>19. CASE AddProfile \/ \E p \in Profiles : SelectProfile(p)
  BY <1>3, <1>19 DEF AddProfile, SelectProfile, CredentialsOf, Token, Profiles
<1> QED
  BY <1>1, <1>2, <1>5, <1>6, <1>7, <1>8, <1>9, <1>10, <1>12, <1>13, <1>14, <1>15, <1>16, <1>17,
     <1>18, <1>19
  DEF Next, Game, Worker, Server, Serve

\* A profile that may be credited stays one.
LEMMA CreditStays ==
    ASSUME Typed, QueueInv, [Next]_vars, NEW a, NEW r \in Runs, MayCredit(a, r)
    PROVE  MayCredit(a, r)'
<1> USE DEF MayCredit
<1>1. CASE UNCHANGED vars \/ Worker \/ Server \/ Stop
  BY <1>1, WorkerLeaves, ServerLeaves DEF vars, gameVars, Stop
<1>2. ASSUME NEW q \in Runs, SubmitScore(q)
      PROVE  MayCredit(a, r)'
  BY <1>2 DEF SubmitScore, QueueInv, Typed, GameTyped
<1>3. ASSUME NEW p \in Profiles, Activate(p)
      PROVE  MayCredit(a, r)'
  BY <1>3 DEF Activate
<1> QED
  BY <1>1, <1>2, <1>3 DEF Next, Game, AddProfile, SelectProfile, Profiles

\* No step records, or sends, a run for a player it does not belong to.
LEMMA CreditStep ==
    ASSUME Typed, LinkInv, QueueInv, AccountInv, SeenInv, CreditInv, idsDisk = ids, [Next]_vars
    PROVE  CreditInv'
<1> USE DEF CreditInv
<1>0. /\ \A c \in Conns : handler[c] \in HandlerState /\ req[c] \in Message \cup {None}
      /\ conn \in Conns \cup {None} /\ None \notin Conns /\ ids \subseteq Rows
      /\ handler \in [Conns -> HandlerState] /\ req \in [Conns -> Message \cup {None}]
  BY Apart DEF Typed, WireTyped, WorkerTyped, ServerTyped
\* What was sent before: the request and who asks are as they were.
<1>1. ASSUME ids' \subseteq ids,
             \A c \in Conns :
                \/ req'[c] = None
                \/ req'[c][1] # "submit"
                \/ handler'[c].acct = None
                \/ req'[c] = req[c] /\ handler'[c].acct = handler[c].acct
      PROVE  CreditInv'
  <2>1. \A x \in ids' : MayCredit(x[1], x[2])'
    BY <1>0, <1>1, CreditStays, TokenFacts
  <2>2. ASSUME NEW c \in Conns, req'[c] # None, req'[c][1] = "submit", handler'[c].acct # None
        PROVE  MayCredit(handler[c].acct, req[c][2])'
    <3>1. req'[c] = req[c] /\ handler'[c].acct = handler[c].acct
      BY <1>1, <2>2
    <3>2. req[c][2] \in Runs /\ MayCredit(handler[c].acct, req[c][2])
      BY <1>0, <2>2, <3>1, MessageFacts
    <3>3. MayCredit(handler[c].acct, req[c][2])
          => \/ handler[c].acct \in since'[req[c][2]]
             \/ Local \in since'[req[c][2]] /\ handler[c].acct \in before'[req[c][2]]
      BY <3>2, CreditStays DEF MayCredit
    <3> QED
      BY <3>1, <3>2, <3>3 DEF MayCredit
  <2> QED
    BY <2>1, <2>2
<1>2. CASE UNCHANGED vars \/ Game
  BY <1>1, <1>2, GameLeaves DEF vars, wire, serverVars
<1>3. ASSUME Worker
      PROVE  ids' \subseteq ids
  BY <1>3, WorkerLeaves DEF serverVars
<1>4. CASE Connect
  <2>1. \A c \in Conns : handler'[c] = handler[c] \/ handler'[c].acct = None
    BY <1>0, <1>4 DEF Connect, Free, Accept, Gone
  <2> QED
    BY <1>1, <1>3, <1>4, <2>1 DEF Worker, Connect
<1>5. CASE Authenticate
  <2>1. \/ UNCHANGED req
        \/ \E m \in Message : Put(conn, m) /\ m[1] # "submit"
    BY <1>5, MessageFacts DEF Authenticate, Typed, GameTyped, WorkerTyped
  <2>2. conn \in Conns /\ UNCHANGED handler
    BY <1>5, Connected DEF Authenticate
  <2>3. \A c \in Conns : req'[c] = req[c] \/ req'[c][1] # "submit"
    BY <2>1, <2>2, Puts
  <2> QED
    BY <1>1, <1>3, <1>5, <2>2, <2>3 DEF Worker
<1>6. CASE SignedIn \/ Replied
  BY <1>1, <1>3, <1>6 DEF SignedIn, Replied, Worker
<1>7. CASE Reconnect \/ ConnectionLost \/ ExchangeFails
  <2>1. Gone.acct = None
    BY DEF Gone
  <2> QED
    BY <1>1, <1>3, <1>7, <2>1, Closes DEF Worker
<1>8. CASE WorkerEnds
  <2>1. \A c \in Conns : handler'[c] = handler[c] \/ handler'[c].acct = None
    BY <1>0, <1>8 DEF WorkerEnds, Gone
  <2> QED
    BY <1>1, <1>3, <1>8, <2>1 DEF Worker, WorkerEnds
\* What is sent now: the connection is signed in for the active profile.
<1>9. CASE Pop
  <2> DEFINE r == current'.id
  <2>1. /\ r \in Runs /\ conn \in Conns /\ Put(conn, <<"submit", r>>) /\ <<"submit", r>> \in Message
        /\ UNCHANGED <<handler, before, since>> /\ r = queue[1].id /\ ~ reconnect
        /\ queue \in Seq(Request) /\ queue # <<>>
    BY <1>9, Pops, MessageFacts DEF gameVars, Typed, WorkerTyped
  <2>2. profile \in since[r] /\ seen \subseteq before[r] \cup since[r]
    <3>1. 1 \in 1 .. Len(queue)
      BY <2>1, TailFacts
    <3> QED
      BY <2>1, <3>1 DEF QueueInv, SeenInv
  <2>3. handler[conn].acct # None => MayCredit(handler[conn].acct, r)
    BY <2>1, <2>2, <1>0 DEF AccountInv, SeenInv, MayCredit
  <2>4. \A c \in Conns : req'[c] = req[c] \/ (c = conn /\ req'[c] = <<"submit", r>>)
    BY <2>1, Puts
  <2>5. ASSUME NEW c \in Conns, req'[c] # None, req'[c][1] = "submit", handler'[c].acct # None
        PROVE  MayCredit(handler[c].acct, req[c][2])'
    <3>1. CASE req'[c] = req[c]
      BY <2>1, <2>5, <3>1 DEF MayCredit
    <3>2. CASE c = conn /\ req'[c] = <<"submit", r>>
      <4>1. req'[c][2] = r
        BY <3>2
      <4> HIDE DEF r
      <4> QED
        BY <2>1, <2>3, <2>5, <3>2, <4>1 DEF MayCredit
    <3> QED
      BY <2>4, <3>1, <3>2
  <2>6. ids' = ids
    BY <1>9, Pops DEF serverVars
  <2> QED
    BY <2>1, <2>5, <2>6 DEF MayCredit
<1>10. ASSUME NEW c \in Conns, ServeLogin(c) \/ ServeResume(c)
       PROVE  CreditInv'
  <2>1. /\ req'[c] = None /\ UNCHANGED ids
        /\ \A d \in Conns : d # c => handler'[d] = handler[d] /\ req'[d] = req[d]
    BY <1>10, SignsIn, Takes
  <2> QED
    BY <1>1, <2>1
\* What is recorded: it was sent for a player who may be credited.
<1>11. ASSUME NEW c \in Conns, RecordRun(c)
       PROVE  CreditInv'
  <2> DEFINE x == <<handler[c].acct, req[c][2]>>
  <2>1. /\ req[c] \in Message /\ req[c] # None /\ req[c][1] = "submit" /\ req[c][2] \in Runs
        /\ handler[c].acct # None
    BY <1>0, <1>11, MessageFacts DEF RecordRun, Kind
  <2>2. /\ ids' = ids \cup {x} /\ UNCHANGED <<before, since>>
        /\ handler' = [handler EXCEPT ![c].at = "store", ![c].run = req[c][2]]
        /\ req' = [req EXCEPT ![c] = None]
    BY <1>11 DEF RecordRun, gameVars
  <2>3. MayCredit(x[1], x[2])
    BY <2>1
  <2>4. /\ req'[c] = None
        /\ \A d \in Conns : d # c => handler'[d] = handler[d] /\ req'[d] = req[d]
    BY <1>0, <2>2
  <2> QED
    BY <2>2, <2>3, <2>4 DEF MayCredit
<1>12. ASSUME NEW c \in Conns, StoreRun(c)
       PROVE  CreditInv'
  <2>1. /\ UNCHANGED <<ids, req>> /\ handler'[c].acct \in {handler[c].acct, None}
        /\ \A d \in Conns : d # c => handler'[d] = handler[d]
    BY <1>0, <1>12 DEF StoreRun, OrEnd, HandlerState, Gone
  <2> QED
    BY <1>1, <2>1
<1>13. ASSUME NEW c \in Conns, RefuseRun(c) \/ HandlerEnds(c)
       PROVE  CreditInv'
  <2>1. UNCHANGED ids /\ \E h \in HandlerState : Take(c, h)
    BY <1>0, <1>13, RequestFacts DEF RefuseRun, HandlerEnds, serverVars
  <2> QED
    BY <1>1, <2>1, Takes
<1>14. CASE Flush \/ Restart \/ \E t \in sessions : Expire(t)
  BY <1>1, <1>14 DEF Flush, Restart, Expire, wire
<1>15. CASE Crash \/ ServerStop
  <2>1. req' = [c \in Conns |-> None] /\ ids' = idsDisk
    BY <1>15 DEF Crash, ServerStop, ForgetAnd
  <2> QED
    BY <1>0, <1>1, <2>1
<1> QED
  BY <1>2, <1>4, <1>5, <1>6, <1>7, <1>8, <1>9, <1>10, <1>11, <1>12, <1>13, <1>14, <1>15
  DEF Next, Worker, Server, Serve

-----------------------------------------------------------------------------
(* Acceptance *)

\* The ids stay the same on disk and in memory, and count what was accepted.
LEMMA AcceptStep ==
    ASSUME Typed, AcceptInv, [Next]_vars
    PROVE  AcceptInv'
<1> USE DEF AcceptInv
<1>1. CASE UNCHANGED vars \/ Game \/ Worker
  BY <1>1, GameLeaves, WorkerLeaves DEF vars, serverVars
<1>2. ASSUME NEW c \in Conns, ServeLogin(c) \/ ServeResume(c) \/ StoreRun(c) \/ RefuseRun(c)
                              \/ HandlerEnds(c)
      PROVE  AcceptInv'
  BY <1>2 DEF ServeLogin, ServeResume, StoreRun, RefuseRun, HandlerEnds, serverVars
<1>3. ASSUME NEW c \in Conns, RecordRun(c)
      PROVE  AcceptInv'
  <2> DEFINE x == <<handler[c].acct, req[c][2]>>
  <2>1. x \in Rows
    <3>1. handler[c].acct \in Players /\ req[c][2] \in Runs
      BY <1>3, MessageFacts, RequestFacts DEF RecordRun, Kind, Typed, WireTyped
    <3> QED
      BY <3>1, TokenFacts
  <2>2. /\ x \notin ids /\ ids' = ids \cup {x} /\ idsDisk' = ids'
        /\ accepts' = [accepts EXCEPT ![x] = @ + 1]
    BY <1>3 DEF RecordRun
  <2> HIDE DEF x
  <2> QED
    BY <2>1, <2>2 DEF Typed, ServerTyped
<1>4. CASE Flush \/ Restart \/ \E t \in sessions : Expire(t)
  BY <1>4 DEF Flush, Restart, Expire
<1>5. CASE Crash \/ ServerStop
  BY <1>5 DEF Crash, ServerStop, ForgetAnd
<1> QED
  BY <1>1, <1>2, <1>3, <1>4, <1>5 DEF Next, Server, Serve

-----------------------------------------------------------------------------
(* What is kept *)

\* The rows of each account when one is added to account a's, or taken from them.
LEMMA RowsThen ==
    ASSUME NEW b, NEW d, NEW a \in Players, NEW r \in Runs
    PROVE  /\ d = b \cup {<<a, r>>} => /\ RowsOf(a, d) = RowsOf(a, b) \cup {r}
                                       /\ \A e \in Players : e # a => RowsOf(e, d) = RowsOf(e, b)
           /\ d = b \ {<<a, r>>} => /\ RowsOf(a, d) = RowsOf(a, b) \ {r}
                                    /\ \A e \in Players : e # a => RowsOf(e, d) = RowsOf(e, b)
  BY DEF RowsOf

\* One account's list S: ranked; with a run added, or put in the place of the worst;
\* and what it makes of a run.
RankedList(S) ==
    /\ S \subseteq Runs /\ IsFiniteSet(S) /\ Cardinality(S) <= MaxScores
    /\ \A q, p \in S : q # p => ScoreOf[q] # ScoreOf[p]
Placed(S, r, T) ==
    \/ Cardinality(S \cup {r}) <= MaxScores /\ T = S \cup {r}
    \/ /\ Cardinality(S \cup {r}) > MaxScores
       /\ \E worst \in S \cup {r} :
            /\ \A q \in S \cup {r} : ScoreOf[worst] <= ScoreOf[q]
            /\ T = (S \cup {r}) \ {worst}
Covers(S, q) ==
    \/ \E p \in S : ScoreOf[p] = ScoreOf[q]
    \/ Cardinality(S) = MaxScores /\ \A p \in S : ScoreOf[p] > ScoreOf[q]

\* A new score that is placed leaves the list ranked, and covers what it did.
LEMMA ListAfter ==
    ASSUME NEW S, NEW T, NEW r \in Runs, RankedList(S), Placed(S, r, T),
           \A q \in S : ScoreOf[q] # ScoreOf[r]
    PROVE  /\ RankedList(T) /\ Covers(T, r)
           /\ \A q \in Runs : Covers(S, q) => Covers(T, q)
<1> DEFINE A == S \cup {r}
<1>1. /\ ScoreOf \in [Runs -> Nat] /\ MaxScores \in Nat /\ r \notin S /\ A \subseteq Runs
      /\ \A q \in Runs : ScoreOf[q] \in Nat
  BY SyncConstants DEF RankedList
<1>2. IsFiniteSet(A) /\ Cardinality(A) = Cardinality(S) + 1 /\ Cardinality(S) \in Nat
  BY <1>1, FS_AddElement, FS_CardinalityType DEF RankedList
<1>3. \A q, p \in A : q # p => ScoreOf[q] # ScoreOf[p]
  BY DEF RankedList
<1>4. CASE Cardinality(A) <= MaxScores /\ T = A
  BY <1>1, <1>2, <1>3, <1>4 DEF RankedList, Covers
<1>5. ASSUME NEW worst \in A, \A q \in A : ScoreOf[worst] <= ScoreOf[q], T = A \ {worst},
             Cardinality(A) > MaxScores
      PROVE  /\ RankedList(T) /\ Covers(T, r)
             /\ \A q \in Runs : Covers(S, q) => Covers(T, q)
  <2>1. IsFiniteSet(T) /\ Cardinality(T) = Cardinality(A) - 1
    BY <1>2, <1>5, FS_RemoveElement
  <2>2. Cardinality(T) = MaxScores /\ Cardinality(S) = MaxScores
    BY <1>1, <1>2, <1>5, <2>1 DEF RankedList
  <2>3. \A p \in T : ScoreOf[p] > ScoreOf[worst]
    BY <1>1, <1>3, <1>5
  <2>4. ASSUME NEW q \in Runs, NEW p \in A, ScoreOf[p] = ScoreOf[q]
        PROVE  Covers(T, q)
    <3>1. CASE p = worst
      BY <2>2, <2>3, <2>4, <3>1 DEF Covers
    <3>2. CASE p # worst
      BY <1>5, <2>4, <3>2 DEF Covers
    <3> QED
      BY <3>1, <3>2
  <2>5. ASSUME NEW q \in Runs, \A p \in S : ScoreOf[p] > ScoreOf[q]
        PROVE  Covers(T, q)
    <3>1. CASE worst = r
      BY <1>5, <2>2, <2>5, <3>1 DEF Covers
    <3>2. CASE worst # r
      <4>1. ScoreOf[worst] > ScoreOf[q]
        BY <1>5, <2>5, <3>2
      <4>2. \A p \in T : ScoreOf[p] > ScoreOf[q]
        BY <1>1, <1>5, <2>3, <4>1
      <4> QED
        BY <2>2, <4>2 DEF Covers
    <3> QED
      BY <3>1, <3>2
  <2>6. RankedList(T)
    BY <1>1, <1>3, <1>5, <2>1, <2>2 DEF RankedList
  <2>7. \A q \in Runs : Covers(S, q) => Covers(T, q)
    BY <2>4, <2>5 DEF Covers
  <2> QED
    BY <2>4, <2>6, <2>7
<1> QED
  BY <1>4, <1>5 DEF Placed

\* Submit leaves the boards ranked, counts the run, and still counts the others.
LEMMA Submits ==
    ASSUME Ranked(board), NEW a \in Players, NEW r \in Runs, Submit(a, r)
    PROVE  /\ Ranked(board') /\ board' \subseteq board \cup {<<a, r>>}
           /\ Counted(a, r, board')
           /\ \A e \in Players, q \in Runs : Counted(e, q, board) => Counted(e, q, board')
<1> DEFINE S == RowsOf(a, board)
           T == RowsOf(a, board')
<1>1. CASE a \in Hidden \/ \E q \in S : ScoreOf[q] = ScoreOf[r]
  <2>1. board' = board
    BY <1>1 DEF Submit
  <2>2. Ranked(board') /\ \A e \in Players, q \in Runs : Counted(e, q, board) => Counted(e, q, board')
    BY <2>1
  <2> QED
    BY <1>1, <2>1, <2>2 DEF Counted
<1>2. CASE ~ (a \in Hidden \/ \E q \in S : ScoreOf[q] = ScoreOf[r])
  <2>1. RankedList(S) /\ \A q \in S : ScoreOf[q] # ScoreOf[r]
    BY <1>2 DEF Ranked, RankedList, RowsOf
  <2>2. \/ Cardinality(S \cup {r}) <= MaxScores /\ board' = board \cup {<<a, r>>}
        \/ /\ Cardinality(S \cup {r}) > MaxScores
           /\ \E worst \in S \cup {r} :
                /\ \A q \in S \cup {r} : ScoreOf[worst] <= ScoreOf[q]
                /\ board' = (board \cup {<<a, r>>}) \ {<<a, worst>>}
    BY <1>2 DEF Submit
  <2>3. /\ board' \subseteq board \cup {<<a, r>>} /\ Placed(S, r, T)
        /\ \A e \in Players : e # a => RowsOf(e, board') = RowsOf(e, board)
    <3>1. CASE board' = board \cup {<<a, r>>} /\ Cardinality(S \cup {r}) <= MaxScores
      BY <3>1, RowsThen DEF Placed
    <3>2. ASSUME NEW worst \in S \cup {r}, \A q \in S \cup {r} : ScoreOf[worst] <= ScoreOf[q],
                 board' = (board \cup {<<a, r>>}) \ {<<a, worst>>}, Cardinality(S \cup {r}) > MaxScores
          PROVE  /\ board' \subseteq board \cup {<<a, r>>} /\ Placed(S, r, T)
                 /\ \A e \in Players : e # a => RowsOf(e, board') = RowsOf(e, board)
      <4>1. PICK d : d = board \cup {<<a, r>>}
        OBVIOUS
      <4>2. worst \in Runs /\ board' = d \ {<<a, worst>>} /\ board' \subseteq d
        BY <2>1, <3>2, <4>1 DEF RankedList
      <4>3. RowsOf(a, d) = S \cup {r} /\ \A e \in Players : e # a => RowsOf(e, d) = RowsOf(e, board)
        BY <4>1, RowsThen
      <4>4. /\ RowsOf(a, board') = RowsOf(a, d) \ {worst}
            /\ \A e \in Players : e # a => RowsOf(e, board') = RowsOf(e, d)
        BY <4>2, RowsThen
      <4> QED
        BY <3>2, <4>1, <4>2, <4>3, <4>4 DEF Placed
    <3> QED
      BY <2>2, <3>1, <3>2
  <2> HIDE DEF S, T
  <2>4. RankedList(T) /\ Covers(T, r) /\ \A q \in Runs : Covers(S, q) => Covers(T, q)
    BY <2>1, <2>3, ListAfter
  <2>5. Ranked(board')
    BY <2>3, <2>4 DEF Ranked, RankedList, T
  <2>6. Counted(a, r, board')
    BY <2>4 DEF Counted, Covers, T
  <2>7. ASSUME NEW e \in Players, NEW q \in Runs, Counted(e, q, board)
        PROVE  Counted(e, q, board')
    <3>1. CASE e = a
      BY <2>4, <2>7, <3>1 DEF Counted, Covers, S, T
    <3>2. CASE e # a
      BY <2>3, <2>7, <3>2 DEF Counted
    <3> QED
      BY <3>1, <3>2
  <2> QED
    BY <2>3, <2>5, <2>6, <2>7
<1> QED
  BY <1>1, <1>2

\* A recorded run that counts, or that a handler is about to store, goes on doing so
\* unless it is lost.
Keeps ==
    /\ ids \subseteq ids' /\ lost \subseteq lost'
    /\ \A a \in Players, r \in Runs : <<a, r>> \in ids /\ Counted(a, r, board)
                                        => Counted(a, r, board') \/ r \in lost'
    /\ \A c \in Conns : handler[c].at = "store" =>
          \/ handler'[c] = handler[c]
          \/ Counted(handler[c].acct, handler[c].run, board')
          \/ handler[c].run \in lost'

\* Then what was kept stays kept.
LEMMA KeptStays ==
    ASSUME LinkInv, KeptInv, Keeps, NEW r \in Runs
    PROVE  /\ Kept(r) => Kept(r)'
           /\ \A a \in Players :
                 <<a, r>> \in ids /\ (Counted(a, r, board) \/ Storing(a, r) \/ r \in lost)
                   => Counted(a, r, board') \/ Storing(a, r)' \/ r \in lost'
<1>1. \A c \in Conns : handler[c].at = "store" =>
         handler[c].acct \in Players /\ <<handler[c].acct, handler[c].run>> \in ids
  BY DEF LinkInv, KeptInv
<1>2. Kept(r) => Kept(r)'
  BY <1>1 DEF Keeps, Kept
<1>3. ASSUME NEW a \in Players, <<a, r>> \in ids, Counted(a, r, board) \/ Storing(a, r) \/ r \in lost
      PROVE  Counted(a, r, board') \/ Storing(a, r)' \/ r \in lost'
  BY <1>3 DEF Keeps, Storing
<1> QED
  BY <1>2, <1>3

\* A process that ends forgets the handlers: what they were about to store, and
\* what was not on disk, is lost.
LEMMA ForgetKeeps ==
    ASSUME Typed, LinkInv, AcceptInv, KeptInv, Crash \/ ServerStop
    PROVE  Keeps
<1>1. /\ idsDisk = ids
      /\ \A c \in Conns : handler[c].at = "store" =>
            /\ handler[c].acct \in Players /\ handler[c].run \in Runs
            /\ <<handler[c].acct, handler[c].run>> \in ids
  BY DEF AcceptInv, KeptInv, LinkInv
<1>2. PICK disk : /\ board' = disk /\ ids' = idsDisk
                  /\ lost' = lost \cup {r \in Runs : \E a \in Players : <<a, r>> \in idsDisk
                                                                    /\ ~ Counted(a, r, disk)}
  BY DEF Crash, ServerStop, ForgetAnd
<1>3. \A a \in Players, r \in Runs : <<a, r>> \in ids => Counted(a, r, disk) \/ r \in lost'
  BY <1>1, <1>2
<1> QED
  BY <1>1, <1>2, <1>3 DEF Keeps

\* No step forgets a recorded run without counting it as lost.
LEMMA StepKeeps ==
    ASSUME Typed, LinkInv, AcceptInv, KeptInv, [Next]_vars
    PROVE  Keeps
<1> USE DEF Keeps
<1>0. handler \in [Conns -> HandlerState]
  BY DEF Typed, WireTyped
<1>1. CASE UNCHANGED vars \/ Game
  BY <1>1, GameLeaves DEF vars, serverVars, wire
<1>2. CASE Worker
  <2>1. UNCHANGED <<board, ids, lost>>
    BY <1>2, WorkerLeaves DEF serverVars
  <2>2. \A c \in Conns : handler[c].at = "store" => handler'[c] = handler[c]
    <3>1. CASE Connect
      BY <1>0, <3>1 DEF Connect, Free, Accept
    <3>2. CASE Authenticate \/ SignedIn \/ Replied \/ Pop
      BY <3>2 DEF Authenticate, SignedIn, Replied, Pop
    <3>3. CASE Reconnect \/ ConnectionLost \/ ExchangeFails
      BY <3>3, Closes
    <3>4. CASE WorkerEnds
      BY <1>0, <3>4 DEF WorkerEnds
    <3> QED
      BY <1>2, <3>1, <3>2, <3>3, <3>4 DEF Worker
  <2> QED
    BY <2>1, <2>2
<1>3. ASSUME NEW c \in Conns, Serve(c) \/ HandlerEnds(c)
      PROVE  Keeps
  <2>1. CASE ServeLogin(c) \/ ServeResume(c)
    BY <2>1, SignsIn, Takes
  <2>2. CASE RecordRun(c)
    BY <1>0, <2>2 DEF RecordRun, Kind
  <2>3. CASE StoreRun(c)
    <3>1. /\ Submit(handler[c].acct, handler[c].run) /\ UNCHANGED <<ids, lost>>
          /\ \A d \in Conns : d # c => handler'[d] = handler[d]
      BY <1>0, <2>3 DEF StoreRun
    <3>2. handler[c].acct \in Players /\ handler[c].run \in Runs /\ Ranked(board)
      BY <2>3 DEF StoreRun, LinkInv, KeptInv
    <3> QED
      BY <3>1, <3>2, Submits
  <2>4. CASE RefuseRun(c) \/ HandlerEnds(c)
    BY <1>0, <2>4, Takes, RequestFacts DEF RefuseRun, HandlerEnds, Kind, serverVars
  <2> QED
    BY <1>3, <2>1, <2>2, <2>3, <2>4 DEF Serve
<1>4. CASE Flush \/ Restart \/ \E t \in sessions : Expire(t)
  BY <1>4 DEF Flush, Restart, Expire, wire
<1>5. CASE Crash \/ ServerStop
  BY <1>5, ForgetKeeps
<1> QED
  BY <1>1, <1>2, <1>3, <1>4, <1>5 DEF Next, Server

\* Only RecordRun adds to the recorded ids, and nothing takes from them.
LEMMA IdsSteps ==
    ASSUME AcceptInv, [Next]_vars
    PROVE  ids' = ids \/ \E c \in Conns : RecordRun(c)
<1>1. CASE UNCHANGED vars \/ Game \/ Worker
  BY <1>1, GameLeaves, WorkerLeaves DEF vars, serverVars
<1>2. CASE Server
  BY <1>2 DEF AcceptInv, Server, Serve, ServeLogin, ServeResume, StoreRun, RefuseRun,
          HandlerEnds,
     Expire, Flush, Crash, ServerStop, ForgetAnd, Restart, serverVars
<1> QED
  BY <1>1, <1>2 DEF Next

\* Rows come from the handlers, and the handlers' runs are recorded.
LEMMA RowsStep ==
    ASSUME Typed, LinkInv, AcceptInv, KeptInv, [Next]_vars
    PROVE  /\ board' \subseteq ids' /\ boardDisk' \subseteq ids'
           /\ Ranked(board') /\ Ranked(boardDisk')
           /\ \A c \in Conns : handler'[c].at = "store"
                => <<handler'[c].acct, handler'[c].run>> \in ids'
<1> DEFINE Goal == /\ board' \subseteq ids' /\ boardDisk' \subseteq ids'
                   /\ Ranked(board') /\ Ranked(boardDisk')
                   /\ \A c \in Conns : handler'[c].at = "store"
                        => <<handler'[c].acct, handler'[c].run>> \in ids'
<1>0. /\ board \subseteq ids /\ boardDisk \subseteq ids /\ idsDisk = ids
      /\ Ranked(board) /\ Ranked(boardDisk)
      /\ \A c \in Conns : handler[c].at = "store" => <<handler[c].acct, handler[c].run>> \in ids
      /\ handler \in [Conns -> HandlerState]
  BY DEF KeptInv, AcceptInv, Typed, WireTyped
<1>1. CASE UNCHANGED vars \/ Game
  BY <1>0, <1>1, GameLeaves DEF vars, serverVars, wire
<1>2. CASE Worker
  <2>1. UNCHANGED <<board, boardDisk, ids>>
    BY <1>2, WorkerLeaves DEF serverVars
  <2>2. \A c \in Conns : handler'[c].at = "store" => handler'[c] = handler[c]
    <3>1. CASE Connect
      BY <1>0, <3>1 DEF Connect, Accept, Gone
    <3>2. CASE Authenticate \/ SignedIn \/ Replied \/ Pop
      BY <3>2 DEF Authenticate, SignedIn, Replied, Pop
    <3>3. CASE Reconnect \/ ConnectionLost \/ ExchangeFails
      BY <3>3, Closes DEF Gone
    <3>4. CASE WorkerEnds
      BY <1>0, <3>4 DEF WorkerEnds, Gone
    <3> QED
      BY <1>2, <3>1, <3>2, <3>3, <3>4 DEF Worker
  <2> QED
    BY <1>0, <2>1, <2>2
<1>3. ASSUME NEW c \in Conns, ServeLogin(c) \/ ServeResume(c)
      PROVE  Goal
  <2>1. /\ UNCHANGED <<ids, board, boardDisk>>
        /\ \A d \in Conns : d # c => handler'[d] = handler[d]
        /\ handler'[c].at # "store"
    BY <1>3, SignsIn, Takes DEF OrEnd, Gone
  <2> QED
    BY <1>0, <2>1
<1>4. ASSUME NEW c \in Conns, RecordRun(c)
      PROVE  Goal
  <2>1. /\ handler'[c].acct = handler[c].acct /\ handler'[c].run = req[c][2]
        /\ \A d \in Conns : d # c => handler'[d] = handler[d]
    BY <1>0, <1>4 DEF RecordRun, HandlerState
  <2> QED
    BY <1>0, <1>4, <2>1 DEF RecordRun
<1>5. ASSUME NEW c \in Conns, StoreRun(c)
      PROVE  Goal
  <2>1. /\ handler'[c].at # "store" /\ UNCHANGED <<ids, boardDisk>>
        /\ \A d \in Conns : d # c => handler'[d] = handler[d]
    BY <1>0, <1>5 DEF StoreRun, OrEnd, Gone, HandlerState
  <2>2. /\ Submit(handler[c].acct, handler[c].run) /\ handler[c].at = "store"
        /\ handler[c].acct \in Players /\ handler[c].run \in Runs
    BY <1>5 DEF StoreRun, LinkInv
  <2>3. Ranked(board') /\ board' \subseteq board \cup {<<handler[c].acct, handler[c].run>>}
    BY <1>0, <2>2, Submits
  <2> QED
    BY <1>0, <2>1, <2>2, <2>3
<1>6. ASSUME NEW c \in Conns, RefuseRun(c) \/ HandlerEnds(c)
      PROVE  Goal
  <2>1. \E h \in HandlerState : Take(c, h) /\ h.at # "store"
    BY <1>0, <1>6, RequestFacts DEF RefuseRun, HandlerEnds, Kind, Gone
  <2>2. /\ UNCHANGED <<ids, board, boardDisk>>
        /\ \A d \in Conns : d # c => handler'[d] = handler[d]
        /\ handler'[c].at # "store"
    BY <1>6, <2>1, Takes DEF RefuseRun, HandlerEnds, serverVars, OrEnd, Gone
  <2> QED
    BY <1>0, <2>2
<1>7. CASE Flush \/ Restart \/ \E t \in sessions : Expire(t)
  BY <1>0, <1>7 DEF Flush, Restart, Expire, wire
<1>8. CASE Crash \/ ServerStop
  BY <1>0, <1>8 DEF Crash, ServerStop, ForgetAnd, Gone
<1> QED
  BY <1>1, <1>2, <1>3, <1>4, <1>5, <1>6, <1>7, <1>8 DEF Next, Server, Serve

\* An acknowledgement is only sent for a run that is kept.
LEMMA AckStep ==
    ASSUME Typed, LinkInv, AcceptInv, KeptInv, [Next]_vars,
           worker' = "exchange", rep'[conn'] # None, rep'[conn'] = <<"ack">>
    PROVE  Kept(current.id)'
<1>0. /\ rep \in [Conns -> Reply \cup {None}] /\ None \notin Conns /\ conn \in Conns \cup {None}
      /\ \A c \in Conns : req[c] \in Message \cup {None} /\ handler[c] \in HandlerState
      /\ worker = "exchange" => current \in Request /\ conn \in Conns
  BY Apart DEF Typed, WireTyped, WorkerTyped, LinkInv
\* An answer that was there is for the same request.
<1>1. ASSUME UNCHANGED <<conn, current, worker>>, rep'[conn] = rep[conn]
      PROVE  Kept(current.id)'
  <2>1. current.id \in Runs /\ Kept(current.id)
    BY <1>0, <1>1, RequestFacts DEF KeptInv
  <2>2. \A r \in Runs : Kept(r) => Kept(r)'
    BY StepKeeps, KeptStays
  <2>3. PICK r \in Runs : r = current.id
    BY <2>1
  <2> QED
    BY <1>1, <2>1, <2>2, <2>3 DEF Kept
<1>2. CASE UNCHANGED vars \/ Game
  BY <1>1, <1>2, GameLeaves DEF vars, wire, clientVars
<1>3. CASE Worker
  <2>1. Pop
    BY <1>3, Closes DEF Worker, Connect, Authenticate, SignedIn, Replied, WorkerEnds
  <2>2. rep'[conn'] = None
    BY <1>0, <2>1, Pops DEF LinkInv
  <2> QED
    BY <2>2
<1>4. ASSUME NEW c \in Conns, NEW m \in Reply, Answer(c, m), UNCHANGED <<conn, current, worker>>,
             conn # c \/ m # <<"ack">>
      PROVE  Kept(current.id)'
  BY <1>0, <1>1, <1>4 DEF Answer
<1>5. ASSUME NEW c \in Conns, ServeLogin(c) \/ ServeResume(c)
      PROVE  Kept(current.id)'
  <2>1. UNCHANGED <<conn, current, worker>>
    BY <1>5 DEF ServeLogin, ServeResume, clientVars
  <2> QED
    BY <1>4, <1>5, <2>1, SignsIn
<1>6. ASSUME NEW c \in Conns, RecordRun(c)
      PROVE  Kept(current.id)'
  BY <1>1, <1>6 DEF RecordRun, clientVars
<1>7. ASSUME NEW c \in Conns, StoreRun(c)
      PROVE  Kept(current.id)'
  <2>1. UNCHANGED <<conn, current, worker>> /\ Answer(c, <<"ack">>) /\ handler[c].at = "store"
        /\ Submit(handler[c].acct, handler[c].run) /\ ids' = ids
    BY <1>7 DEF StoreRun, clientVars
  <2>2. CASE conn = c
    <3>1. /\ worker = "exchange" /\ handler[c].run = current.id /\ handler[c].acct \in Players
          /\ handler[c].run \in Runs /\ Ranked(board)
          /\ <<handler[c].acct, handler[c].run>> \in ids
      BY <1>0, <2>1, <2>2 DEF LinkInv, KeptInv
    <3>2. Counted(handler[c].acct, handler[c].run, board')
      BY <2>1, <3>1, Submits
    <3> QED
      BY <2>1, <3>1, <3>2 DEF Kept
  <2>3. CASE conn # c
    BY <1>4, <2>1, <2>3, MessageFacts
  <2> QED
    BY <2>2, <2>3
<1>8. ASSUME NEW c \in Conns, RefuseRun(c)
      PROVE  Kept(current.id)'
  <2>1. /\ UNCHANGED <<conn, current, worker, board, lost>> /\ req[c] # None
        /\ req[c][1] = "submit" /\ Take(c, handler[c]) /\ handler[c].at = "receive"
    BY <1>8 DEF RefuseRun, clientVars, serverVars, Kind
  <2>2. CASE Answer(c, <<"error">>)
    BY <1>4, <2>1, <2>2, MessageFacts
  <2>3. CASE /\ handler[c].acct # None /\ <<handler[c].acct, req[c][2]>> \in ids
             /\ Answer(c, <<"ack">>)
    <3>1. CASE conn = c
      <4>1. worker = "exchange"
        BY <2>1
      <4>2. req[c] = <<"submit", current.id>> /\ current.id \in Runs
        BY <1>0, <2>1, <3>1, <4>1, RequestFacts DEF LinkInv
      <4>3. req[c][2] = current.id
        BY <4>2
      <4>4. handler[c].acct \in Players
        BY <1>0, <2>3, RequestFacts
      <4>5. Kept(current.id)
        BY <2>3, <4>2, <4>3, <4>4 DEF KeptInv, Storing, Kept
      <4>6. \A r \in Runs : Kept(r) => Kept(r)'
        BY StepKeeps, KeptStays
      <4>7. PICK r \in Runs : r = current.id
        BY <4>2
      <4> QED
        BY <2>1, <4>5, <4>6, <4>7 DEF Kept
    <3>2. CASE conn # c
      BY <1>4, <2>1, <2>3, <3>2, MessageFacts
    <3> QED
      BY <3>1, <3>2
  <2> QED
    BY <1>8, <2>2, <2>3 DEF RefuseRun
<1>9. ASSUME NEW c \in Conns, HandlerEnds(c)
      PROVE  Kept(current.id)'
  <2>1. UNCHANGED <<conn, current, worker>> /\ (rep' = rep \/ Answer(c, <<"error">>))
    BY <1>9 DEF HandlerEnds, clientVars
  <2> QED
    BY <1>1, <1>4, <2>1, MessageFacts
<1>10. CASE Flush \/ Crash \/ ServerStop \/ Restart \/ \E t \in sessions : Expire(t)
  BY <1>1, <1>10 DEF Flush, Crash, ServerStop, ForgetAnd, Restart, Expire, wire, clientVars
<1> QED
  BY <1>2, <1>3, <1>5, <1>6, <1>7, <1>8, <1>9, <1>10 DEF Next, Server, Serve

\* A recorded run stays on the board, about to be, or lost by a crash.
LEMMA KeptStep ==
    ASSUME Typed, LinkInv, AcceptInv, KeptInv, [Next]_vars
    PROVE  KeptInv'
<1>1. \A a \in Players, r \in Runs : <<a, r>> \in ids' =>
         Counted(a, r, board') \/ Storing(a, r)' \/ r \in lost'
  <2> SUFFICES ASSUME NEW a \in Players, NEW r \in Runs, <<a, r>> \in ids'
               PROVE  Counted(a, r, board') \/ Storing(a, r)' \/ r \in lost'
    OBVIOUS
  <2>1. CASE <<a, r>> \in ids
    BY <2>1, StepKeeps, KeptStays DEF KeptInv
  <2>2. ASSUME NEW c \in Conns, RecordRun(c), <<a, r>> \notin ids
        PROVE  Storing(a, r)'
    <3>1. handler \in [Conns -> HandlerState] /\ a = handler[c].acct /\ r = req[c][2]
      BY <2>2 DEF Typed, WireTyped, RecordRun
    <3>2. handler'[c].at = "store" /\ handler'[c].acct = a /\ handler'[c].run = r
      BY <2>2, <3>1 DEF RecordRun, HandlerState
    <3> QED
      BY <3>2 DEF Storing
  <2> QED
    BY <2>1, <2>2, IdsSteps
<1>2. AckedIsKept'
  <2>1. ASSUME NEW r \in Runs, outcome'[r] = "acked"
        PROVE  Kept(r)'
    <3>1. CASE outcome[r] = "acked"
      BY <3>1, StepKeeps, KeptStays DEF KeptInv, AckedIsKept, Kept
    <3>2. CASE outcome[r] # "acked"
      <4>1. Replied
        BY <2>1, <3>2, ServerLeaves DEF Next, Game, Worker, Stop, SubmitScore,
           AddProfile, SelectProfile, Activate, Connect,
           Authenticate, SignedIn, Reconnect, Pop, ExchangeFails, ConnectionLost, WorkerEnds,
           vars, clientVars, Typed, WorkerTyped
      <4>2. r = current.id /\ rep[conn] = <<"ack">> /\ rep[conn] # None /\ worker = "exchange"
        BY <2>1, <3>2, <4>1 DEF Replied, Typed, WorkerTyped
      <4> QED
        BY <4>2, StepKeeps, KeptStays DEF KeptInv
    <3> QED
      BY <3>1, <3>2
  <2> QED
    BY <2>1 DEF AckedIsKept, Kept
<1> QED
  BY <1>1, <1>2, RowsStep, AckStep DEF KeptInv

-----------------------------------------------------------------------------
(* The theorems *)

\* The invariant holds at the start.
LEMMA InitInv ==
    ASSUME Init
    PROVE  IInv
<1> USE DEF Init
<1>0. /\ Earlier \subseteq Rows /\ Ranked(Earlier) /\ EarlierRuns \subseteq Runs
      /\ \A x \in Earlier : x[1] \in Players /\ x[2] \in Runs /\ x = <<x[1], x[2]>>
  BY SyncConstants, TokenFacts DEF Rows, EarlierRuns
<1>1. Typed
  <2>1. /\ profile \in Profiles /\ cred \in Players \cup {None}
        /\ since \in [Runs -> SUBSET Profiles] /\ before \in [Runs -> SUBSET Profiles]
    BY Apart DEF Profiles, Token
  <2>2. WorkerTyped
    BY DEF WorkerTyped
  <2>4. WireTyped
    BY RequestFacts DEF WireTyped
  <2>5. FlagsTyped
    BY DEF FlagsTyped
  <2>3. GameTyped /\ ServerTyped
    BY <1>0, <2>1, Apart DEF GameTyped, ServerTyped
  <2> QED
    BY <2>2, <2>3, <2>4, <2>5 DEF Typed
<1>2. LinkInv /\ AccountInv
  BY Apart DEF LinkInv, AccountInv, Token, Gone
<1>3. QueueInv
  <2>1. \A r \in Runs : outcome[r] # "waiting" /\ (outcome[r] = "new" => r \notin EarlierRuns)
    OBVIOUS
  <2>2. \A r \in Runs : r \notin EarlierRuns => since[r] = {}
    BY <1>0 DEF EarlierRuns
  <2> QED
    BY <2>1, <2>2 DEF QueueInv
<1>4. SeenInv
  BY Apart DEF SeenInv, Token, Gone
<1>5. CreditInv /\ AcceptInv
  BY <1>0 DEF CreditInv, AcceptInv, MayCredit
<1>6. KeptInv
  <2>1. \A a \in Players, r \in Runs : <<a, r>> \in Earlier => Counted(a, r, Earlier)
    BY DEF Counted, RowsOf
  <2>2. AckedIsKept
    <3>1. ASSUME NEW r \in Runs, outcome[r] = "acked"
          PROVE  \E a \in Players : <<a, r>> \in Earlier
      BY <1>0, <3>1 DEF EarlierRuns
    <3> QED
      BY <2>1, <3>1 DEF AckedIsKept
  <2> QED
    BY <1>0, <2>1, <2>2 DEF KeptInv, Gone
<1> QED
  BY <1>1, <1>2, <1>3, <1>4, <1>5, <1>6 DEF IInv

\* Every step keeps it.
LEMMA StepInv ==
    ASSUME IInv, [Next]_vars
    PROVE  IInv'
<1> USE DEF IInv
<1>1. Typed'
  BY GameTypes, WorkerTypes, WireTypes, ServerTypes, FlagTypes DEF Typed
<1>2. CreditInv'
  BY CreditStep DEF AcceptInv
<1> QED
  BY <1>1, <1>2, LinkStep, QueueStep, AccountStep, SeenStep, AcceptStep, KeptStep

\* So it holds throughout.
LEMMA Invariant == Spec => []IInv
  BY InitInv, StepInv, PTL DEF Spec

\* The client's and the server's variables keep their types: no request is sent
\* more often than max_attempts allows, and an answer only waits for the worker
\* on the connection it reads.
THEOREM TypeCorrect == Spec => []TypeOK
<1>1. ASSUME IInv
      PROVE  TypeOK
  <2>1. running \in BOOLEAN /\ reconnect \in BOOLEAN /\ up \in BOOLEAN
    BY <1>1 DEF IInv, Typed, FlagsTyped
  <2>2. \A i \in DOMAIN queue : queue[i] \in Request
    BY <1>1 DEF IInv, Typed, WorkerTyped
  <2> QED
    BY <1>1, <2>1, <2>2 DEF IInv, Typed, GameTyped, WorkerTyped, WireTyped, ServerTyped, TypeOK,
       Request, HandlerState, Tokens
<1> QED
  BY <1>1, Invariant, PTL

\* A score on a board, in memory or on disk, belongs to a player who was active
\* while the run waited; or, when it waited under a profile without a token too, to
\* one who was active before it was submitted.  So it is for any number of players,
\* runs, connections, crashes and reconnects.
THEOREM CreditedToItsPlayer == Spec => []CreditFollowsProfile
<1>1. IInv => CreditFollowsProfile
  BY DEF IInv, KeptInv, CreditInv, CreditFollowsProfile, MayCredit
<1> QED
  BY <1>1, Invariant, PTL

\* A retried run is accepted once, across reconnects, overlapping handlers and
\* restarts of the server.
THEOREM RunsAcceptedOnce == Spec => []AcceptedOnce
<1>1. IInv => AcceptedOnce
  BY DEF IInv, AcceptInv, AcceptedOnce
<1> QED
  BY <1>1, Invariant, PTL

\* A run the client was told of as accepted is remembered, and its score counts on
\* its account's board: it is there, or discarded as one the account had reached,
\* or below a list that is full of better ones, or the account is hidden.  Else a
\* handler is about to store it, or a crash between the two files lost it.
THEOREM AcknowledgedIsKept == Spec => []AckedIsKept
<1>1. IInv => AckedIsKept
  BY DEF IInv, KeptInv
<1> QED
  BY <1>1, Invariant, PTL
=============================================================================
