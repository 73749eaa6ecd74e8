-------------------------- MODULE ChallengeServer --------------------------
(***************************************************************************)
(* The trading contest of final_project: a thread announces a challenge    *)
(* every ten seconds by UDP, traders answer it over TCP, and the session   *)
(* handlers, which all run on the thread of io_context.run(), give the     *)
(* challenge to the first right answer.  The two threads share             *)
(* current_challenge under challenge_mutex.                                *)
(*                                                                         *)
(* What a challenge asks for, the bid and ask of its target ticker, is one *)
(* value of Quote: two quotes are the same if they agree within the        *)
(* server's tolerance, in which the %.6f of the client always is.  Time is *)
(* not modelled: the next challenge may come at any moment, so any answer  *)
(* may be late.  A datagram may be lost, delayed, reordered or duplicated; *)
(* the lines on one TCP connection arrive once each and in order, until    *)
(* its trader leaves or the connection is reset.  The replies are left     *)
(* out: client.cpp reads none, and a failed one is only reported.          *)
(***************************************************************************)
EXTENDS Naturals, Sequences

CONSTANTS Traders,    \* client processes, one connection each
          Guessers,   \* those that are not client.cpp and may send any line
          Quote, NoQuote,
          Nobody,     \* the empty name, which is no trader's
          EmptyLine,
          OtherLine   \* a line with another header than CHALLENGE_RESPONSE

ASSUME TradersAssumption == Guessers \subseteq Traders /\ Nobody \notin Traders

VARIABLES global_challenge_id,
          udpStage,           \* where udp_broadcast_thread is
          newChallenge,       \* its local variable
          current_challenge,
          datagrams,          \* announcements that may still arrive somewhere
          received,           \* trader -> the announcement it is answering
          connection,         \* trader -> "none", "open", "closed" or "reset"
          socket,             \* trader -> lines it wrote and no one has read
          server,             \* "running" or "dead"
          session,            \* trader -> "none", "reading" or "ended"
          answered,           \* history: the answers judged, in order
          linesRead           \* history: trader -> how many of its lines were read

udpVars     == <<global_challenge_id, udpStage, newChallenge>>
sessionVars == <<server, session, answered, linesRead>>
vars == <<udpVars, current_challenge, datagrams, received, connection, socket, sessionVars>>

Name         == Traders \cup {Nobody}
Announcement == [challenge_id : Nat, quote : Quote]
Answer       == [challenge_id : Nat, quote : Quote, client_name : Name]
Ignored      == {EmptyLine, OtherLine}
Judged       == [line : Answer, against : Nat]
Nothing      == [challenge_id |-> 0, quote |-> NoQuote]

Unwon(id, q) == [challenge_id |-> id, quote |-> q,
                 winner_declared |-> FALSE, winner_name |-> Nobody]

Init ==
  /\ global_challenge_id = 0
  /\ udpStage = "open"
  /\ newChallenge = Unwon(0, NoQuote)
  /\ current_challenge = Unwon(0, NoQuote)
  /\ datagrams = {}
  /\ received = [t \in Traders |-> Nothing]
  /\ connection = [t \in Traders |-> "none"]
  /\ socket = [t \in Traders |-> << >>]
  /\ server = "running"
  /\ session = [t \in Traders |-> "none"]
  /\ answered = << >>
  /\ linesRead = [t \in Traders |-> 0]
-----------------------------------------------------------------------------
\* udp_broadcast_thread

\* Opening the socket may throw: the thread ends, the server goes on.
OpenSocket ==
  /\ server = "running" /\ udpStage = "open"
  /\ udpStage' \in {"generate", "ended"}
  /\ UNCHANGED <<global_challenge_id, newChallenge, current_challenge, datagrams,
                 received, connection, socket, sessionVars>>

\* Mutant: the challenge is announced before it is published.
AnnounceFirst ==
  /\ server = "running" /\ udpStage = "generate"
  /\ global_challenge_id' = global_challenge_id + 1
  /\ \E q \in Quote :
       /\ newChallenge' = Unwon(global_challenge_id', q)
       /\ datagrams' = datagrams \cup {[challenge_id |-> global_challenge_id', quote |-> q]}
  /\ udpStage' = "publish"
  /\ UNCHANGED <<current_challenge, received, connection, socket, sessionVars>>

GenerateChallenge ==
  /\ server = "running" /\ udpStage = "generate"
  /\ global_challenge_id' = global_challenge_id + 1
  /\ \E q \in Quote : newChallenge' = Unwon(global_challenge_id', q)
  /\ udpStage' = "publish"
  /\ UNCHANGED <<current_challenge, datagrams, received, connection, socket, sessionVars>>

\* Mutant: the winner of the last challenge is carried over.
PublishWon ==
  /\ server = "running" /\ udpStage = "publish"
  /\ current_challenge' = [newChallenge EXCEPT !.winner_declared = current_challenge.winner_declared,
                                               !.winner_name = current_challenge.winner_name]
  /\ udpStage' = "send"
  /\ UNCHANGED <<global_challenge_id, newChallenge, datagrams, received, connection, socket,
                 sessionVars>>

Publish ==
  /\ server = "running" /\ udpStage = "publish"
  /\ current_challenge' = newChallenge
  /\ udpStage' = "send"
  /\ UNCHANGED <<global_challenge_id, newChallenge, datagrams, received, connection, socket,
                 sessionVars>>

\* The message is 394 bytes or so, one fragment of MAX_UDP_PAYLOAD; a failed
\* send_to is reported and the challenge is not sent again.
Broadcast ==
  /\ server = "running" /\ udpStage = "send"
  /\ datagrams' \in {datagrams,
                     datagrams \cup {[challenge_id |-> newChallenge.challenge_id,
                                      quote |-> newChallenge.quote]}}
  /\ udpStage' = "generate"
  /\ UNCHANGED <<global_challenge_id, newChallenge, current_challenge, received,
                 connection, socket, sessionVars>>
-----------------------------------------------------------------------------
\* client.cpp, and other programs that take part

Connect(t) ==
  /\ server = "running"
  /\ connection[t] = "none"
  /\ connection' = [connection EXCEPT ![t] = "open"]
  /\ UNCHANGED <<udpVars, current_challenge, datagrams, received, socket, sessionVars>>

ReceiveFrom(t) ==
  /\ t \notin Guessers
  /\ connection[t] = "open"
  /\ received[t] = Nothing
  /\ \E d \in datagrams : received' = [received EXCEPT ![t] = d]
  /\ UNCHANGED <<udpVars, current_challenge, datagrams, connection, socket, sessionVars>>

Respond(t) ==
  /\ connection[t] = "open"
  /\ received[t] # Nothing
  /\ socket' = [socket EXCEPT ![t] = Append(@, [challenge_id |-> received[t].challenge_id,
                                                quote |-> received[t].quote,
                                                client_name |-> t])]
  /\ received' = [received EXCEPT ![t] = Nothing]
  /\ UNCHANGED <<udpVars, current_challenge, datagrams, connection, sessionVars>>

\* Any challenge, any prices, anybody's name; or what is no answer at all.
Guess(t, line) ==
  /\ t \in Guessers
  /\ connection[t] = "open"
  /\ socket' = [socket EXCEPT ![t] = Append(@, line)]
  /\ UNCHANGED <<udpVars, current_challenge, datagrams, received, connection, sessionVars>>

\* The process ends, and the server may read what it wrote up to then.
Close(t) ==
  /\ connection[t] = "open"
  /\ connection' = [connection EXCEPT ![t] = "closed"]
  /\ UNCHANGED <<udpVars, current_challenge, datagrams, received, socket, sessionVars>>

\* The connection breaks, as it does when a trader ends with replies unread or
\* is sent one after its end.
Reset(t) ==
  /\ connection[t] \in {"open", "closed"}
  /\ connection' = [connection EXCEPT ![t] = "reset"]
  /\ UNCHANGED <<udpVars, current_challenge, datagrams, received, socket, sessionVars>>
-----------------------------------------------------------------------------
\* TCPServer and TCPSession: one handler after the other

DoAccept(t) ==
  /\ server = "running"
  /\ session[t] = "none"
  /\ connection[t] \in {"open", "closed"}
  /\ session' = [session EXCEPT ![t] = "reading"]
  /\ UNCHANGED <<udpVars, current_challenge, datagrams, received, connection, socket,
                 server, answered, linesRead>>

\* An accept error is reported and the server goes on accepting.  One that
\* leaves the connection waiting changes nothing.
AcceptError(t) ==
  /\ server = "running"
  /\ session[t] = "none"
  /\ connection[t] = "reset"
  /\ session' = [session EXCEPT ![t] = "ended"]
  /\ UNCHANGED <<udpVars, current_challenge, datagrams, received, connection, socket,
                 server, answered, linesRead>>

\* remote_endpoint() may throw where the peer has gone.  Nothing catches that
\* before main(), which destroys a thread it has not joined: the end of the
\* process, and of all its connections.
RemoteEndpointThrows(t) ==
  /\ server = "running"
  /\ session[t] = "none"
  /\ connection[t] \in {"closed", "reset"}
  /\ server' = "dead"
  /\ connection' = [u \in Traders |-> IF connection[u] = "none" THEN "none" ELSE "reset"]
  /\ UNCHANGED <<udpVars, current_challenge, datagrams, received, socket, session,
                 answered, linesRead>>

\* Mutant: the prices are not compared.
MatchesIdOnly(line) ==
  /\ current_challenge.challenge_id = line.challenge_id
  /\ ~current_challenge.winner_declared

Wins(line) ==
  /\ current_challenge.challenge_id = line.challenge_id
  /\ ~current_challenge.winner_declared
  /\ current_challenge.quote = line.quote

ProcessOrder(line) ==
  /\ current_challenge' = IF Wins(line)
       THEN [current_challenge EXCEPT !.winner_declared = TRUE,
                                      !.winner_name = line.client_name]
       ELSE current_challenge
  /\ answered' = Append(answered, [line |-> line, against |-> current_challenge.challenge_id])

\* Mutant: the handler only reads again after a line that is not empty.
ReadUntilEmpty(t) ==
  /\ server = "running"
  /\ session[t] = "reading"
  /\ socket[t] # << >>
  /\ \/ Head(socket[t]) \in Ignored /\ UNCHANGED <<current_challenge, answered>>
     \/ Head(socket[t]) \notin Ignored /\ ProcessOrder(Head(socket[t]))
  /\ session' = [session EXCEPT ![t] = IF Head(socket[t]) = EmptyLine THEN "ended" ELSE @]
  /\ socket' = [socket EXCEPT ![t] = Tail(@)]
  /\ linesRead' = [linesRead EXCEPT ![t] = @ + 1]
  /\ UNCHANGED <<udpVars, datagrams, received, connection, server>>

\* The handler of do_read, which reads again whatever the line was.
ReadLine(t) ==
  /\ server = "running"
  /\ session[t] = "reading"
  /\ socket[t] # << >>
  /\ \/ Head(socket[t]) \in Ignored /\ UNCHANGED <<current_challenge, answered>>
     \/ Head(socket[t]) \notin Ignored /\ ProcessOrder(Head(socket[t]))
  /\ socket' = [socket EXCEPT ![t] = Tail(@)]
  /\ linesRead' = [linesRead EXCEPT ![t] = @ + 1]
  /\ UNCHANGED <<udpVars, datagrams, received, connection, server, session>>

\* ec is set at the end of the lines, or at any moment after a reset.
ReadError(t) ==
  /\ server = "running"
  /\ session[t] = "reading"
  /\ \/ connection[t] = "closed" /\ socket[t] = << >>
     \/ connection[t] = "reset"
  /\ session' = [session EXCEPT ![t] = "ended"]
  /\ UNCHANGED <<udpVars, current_challenge, datagrams, received, connection, socket,
                 server, answered, linesRead>>
-----------------------------------------------------------------------------
Udp          == OpenSocket \/ GenerateChallenge \/ Publish \/ Broadcast
Accepting(t) == DoAccept(t) \/ AcceptError(t) \/ RemoteEndpointThrows(t)
Reading(t)   == ReadLine(t) \/ ReadError(t)
Trading(t)   == Connect(t) \/ ReceiveFrom(t) \/ Respond(t) \/ Close(t) \/ Reset(t)

Next == \/ Udp
        \/ \E t \in Traders : \/ Trading(t)
                             \/ \E line \in Answer \cup Ignored : Guess(t, line)
                             \/ Accepting(t) \/ Reading(t)

\* io_context.run() runs the handler of every ready socket in its turn, until
\* an exception leaves it.
HandlersRun == \A t \in Traders : WF_vars(Accepting(t)) /\ WF_vars(Reading(t))

Spec == Init /\ [][Next]_vars /\ HandlersRun
-----------------------------------------------------------------------------
(***************************************************************************)
(* Types of the shared challenge, the lines in flight and the sessions.    *)
(***************************************************************************)
TypeOK ==
  /\ global_challenge_id \in Nat
  /\ udpStage \in {"open", "generate", "publish", "send", "ended"}
  /\ \A c \in {newChallenge, current_challenge} :
       c \in [challenge_id : Nat, quote : Quote \cup {NoQuote},
              winner_declared : BOOLEAN, winner_name : Name]
  /\ datagrams \subseteq Announcement
  /\ received \in [Traders -> Announcement \cup {Nothing}]
  /\ connection \in [Traders -> {"none", "open", "closed", "reset"}]
  /\ socket \in [Traders -> Seq(Answer \cup Ignored)]
  /\ server \in {"running", "dead"}
  /\ session \in [Traders -> {"none", "reading", "ended"}]
  /\ answered \in Seq(Judged)
  /\ linesRead \in [Traders -> Nat]

(***************************************************************************)
(* "Ensure only the first correct submission wins": the winner recorded in *)
(* the current challenge is the name on the first line, of all those read  *)
(* while it was current, that named it and had its quote; and there is no  *)
(* winner as long as there was no such line.                               *)
(***************************************************************************)
Correct(k, c) ==
  /\ answered[k].against = c.challenge_id
  /\ answered[k].line.challenge_id = c.challenge_id
  /\ answered[k].line.quote = c.quote

FirstCorrectWins ==
  LET correct == {k \in DOMAIN answered : Correct(k, current_challenge)}
  IN  IF correct = {}
        THEN ~current_challenge.winner_declared
        ELSE /\ current_challenge.winner_declared
             /\ \E k \in correct :
                  /\ \A j \in correct : k <= j
                  /\ current_challenge.winner_name = answered[k].line.client_name

(***************************************************************************)
(* No answer of client.cpp is ahead of the server: whatever the network    *)
(* does, an answer on its way names a challenge that is published already, *)
(* so a fast trader is never taken for a late one.                         *)
(***************************************************************************)
NoAnswerAhead ==
  \A t \in Traders \ Guessers :
    /\ received[t].challenge_id <= current_challenge.challenge_id
    /\ \A k \in DOMAIN socket[t] :
          /\ socket[t][k] \in Answer
          /\ socket[t][k].challenge_id <= current_challenge.challenge_id

(***************************************************************************)
(* What makes the two inductive: the UDP thread publishes its challenges   *)
(* unwon and in the order of their ids, announces only what is published,  *)
(* and no line has been judged against a challenge still to come.          *)
(***************************************************************************)
PublishedInOrder ==
  /\ IF udpStage = "publish"
       THEN /\ newChallenge.challenge_id = global_challenge_id
            /\ current_challenge.challenge_id < global_challenge_id
            /\ ~newChallenge.winner_declared
       ELSE current_challenge.challenge_id = global_challenge_id
  /\ udpStage \in {"publish", "send"} => newChallenge.quote \in Quote
  /\ udpStage = "send" => newChallenge.challenge_id = global_challenge_id
  /\ \A d \in datagrams : d.challenge_id <= current_challenge.challenge_id

AnsweredInPast ==
  \A k \in DOMAIN answered : answered[k].against <= current_challenge.challenge_id

JudgingInv == /\ TypeOK
              /\ PublishedInOrder
              /\ AnsweredInPast
              /\ NoAnswerAhead
              /\ FirstCorrectWins
=============================================================================
