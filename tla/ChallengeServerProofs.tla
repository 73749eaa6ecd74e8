----------------------- MODULE ChallengeServerProofs -----------------------
(***************************************************************************)
(* TLAPS proofs about the contest of ChallengeServer, for any set of       *)
(* traders, guessers and quotes, and any number of challenges and lines.   *)
(***************************************************************************)
EXTENDS ChallengeServer, TLAPS

LEMMA JudgingStart == Init => JudgingInv
<1> SUFFICES ASSUME Init PROVE JudgingInv
  OBVIOUS
<1>1. TypeOK
  BY DEF Init, TypeOK, Unwon, Name
<1>2. PublishedInOrder /\ AnsweredInPast
  BY DEF Init, PublishedInOrder, AnsweredInPast, Unwon
<1>3. NoAnswerAhead
  <2> SUFFICES ASSUME NEW t \in Traders \ Guessers
               PROVE  /\ received[t].challenge_id <= current_challenge.challenge_id
                      /\ DOMAIN socket[t] = {}
    BY Zenon DEF NoAnswerAhead
  <2>1. t \in Traders
    OBVIOUS
  <2>2. received[t].challenge_id = 0 /\ socket[t] = << >>
    BY <2>1 DEF Init, Nothing
  <2>3. current_challenge.challenge_id = 0
    BY DEF Init, Unwon
  <2>4. QED
    BY <2>2, <2>3
<1>4. FirstCorrectWins
  BY DEF Init, FirstCorrectWins, Unwon
<1>5. QED
  BY <1>1, <1>2, <1>3, <1>4 DEF JudgingInv

\* The records of the history, one by one.
LEMMA AnsweredTypes ==
  ASSUME TypeOK
  PROVE  /\ DOMAIN answered = 1 .. Len(answered) /\ Len(answered) \in Nat
         /\ \A k \in DOMAIN answered : answered[k] \in Judged /\ answered[k].against \in Nat
         /\ current_challenge.challenge_id \in Nat /\ newChallenge.challenge_id \in Nat
<1>1. answered \in Seq(Judged)
  BY DEF TypeOK
<1>2. \A k \in DOMAIN answered : answered[k] \in Judged
  BY <1>1
<1>3. QED
  BY <1>1, <1>2 DEF TypeOK, Judged

LEMMA LineTypes ==
  ASSUME TypeOK, NEW t \in Traders
  PROVE  /\ socket[t] \in Seq(Answer \cup Ignored) /\ received[t].challenge_id \in Nat
         /\ \A k \in DOMAIN socket[t] : socket[t][k] \in Answer \cup Ignored
         /\ \A line \in Answer : line.challenge_id \in Nat /\ line.client_name \in Name
<1>1. socket[t] \in Seq(Answer \cup Ignored)
  BY DEF TypeOK
<1>2. \A k \in DOMAIN socket[t] : socket[t][k] \in Answer \cup Ignored
  BY <1>1
<1>3. received[t].challenge_id \in Nat
  BY DEF TypeOK, Announcement, Nothing
<1>4. QED
  BY <1>1, <1>2, <1>3 DEF Answer

\* The UDP thread, except for the step that replaces the current challenge.
LEMMA UdpStep ==
  ASSUME JudgingInv, OpenSocket \/ GenerateChallenge \/ Broadcast
  PROVE  JudgingInv'
<1>1. UNCHANGED <<current_challenge, received, connection, socket, server, session,
                  answered, linesRead>>
  BY DEF OpenSocket, GenerateChallenge, Broadcast, sessionVars
<1>2. AnsweredInPast' /\ NoAnswerAhead' /\ FirstCorrectWins'
  BY <1>1 DEF JudgingInv, AnsweredInPast, NoAnswerAhead, FirstCorrectWins, Correct
<1>3. CASE OpenSocket
  <2>1. TypeOK'
    BY <1>1, <1>3 DEF OpenSocket, JudgingInv, TypeOK
  <2>2. PublishedInOrder'
    BY <1>1, <1>3 DEF OpenSocket, JudgingInv, PublishedInOrder
  <2>3. QED
    BY <1>2, <2>1, <2>2 DEF JudgingInv
<1>4. CASE GenerateChallenge
  <2>1. PICK q \in Quote : newChallenge' = Unwon(global_challenge_id + 1, q)
    BY <1>4 DEF GenerateChallenge
  <2>2. /\ global_challenge_id \in Nat /\ global_challenge_id' = global_challenge_id + 1
        /\ newChallenge'.challenge_id = global_challenge_id'
        /\ ~newChallenge'.winner_declared /\ newChallenge'.quote \in Quote
        /\ udpStage = "generate" /\ udpStage' = "publish" /\ datagrams' = datagrams
    BY <1>4, <2>1 DEF GenerateChallenge, JudgingInv, TypeOK, Unwon
  <2>3. newChallenge' \in [challenge_id : Nat, quote : Quote \cup {NoQuote},
                          winner_declared : BOOLEAN, winner_name : Name]
    BY <2>1, <2>2 DEF Unwon, Name
  <2>4. TypeOK'
    BY <1>1, <2>2, <2>3 DEF JudgingInv, TypeOK
  <2>5. PublishedInOrder'
    BY <1>1, <2>2 DEF JudgingInv, PublishedInOrder, TypeOK
  <2>6. QED
    BY <1>2, <2>4, <2>5 DEF JudgingInv
<1>5. CASE Broadcast
  <2>1. /\ newChallenge.challenge_id \in Nat /\ newChallenge.quote \in Quote
        /\ udpStage = "send" /\ newChallenge.challenge_id = global_challenge_id
    BY <1>5 DEF Broadcast, JudgingInv, TypeOK, PublishedInOrder
  <2>2. datagrams' \subseteq Announcement
    BY <1>5, <2>1 DEF Broadcast, JudgingInv, TypeOK, Announcement
  <2>3. TypeOK'
    BY <1>1, <1>5, <2>2 DEF Broadcast, JudgingInv, TypeOK
  <2>4. PublishedInOrder'
    BY <1>1, <1>5, <2>1 DEF Broadcast, JudgingInv, TypeOK, PublishedInOrder
  <2>5. QED
    BY <1>2, <2>3, <2>4 DEF JudgingInv
<1>6. QED
  BY <1>3, <1>4, <1>5

\* A new challenge: no line has been judged against it yet.
LEMMA PublishStep ==
  ASSUME JudgingInv, Publish
  PROVE  JudgingInv'
<1>1. /\ UNCHANGED <<global_challenge_id, newChallenge, datagrams, received, connection,
                     socket, server, session, answered, linesRead>>
      /\ current_challenge' = newChallenge
      /\ current_challenge.challenge_id < newChallenge.challenge_id
      /\ udpStage = "publish" /\ udpStage' = "send"
  BY DEF Publish, JudgingInv, PublishedInOrder, sessionVars
<1>2. TypeOK'
  BY <1>1 DEF JudgingInv, TypeOK
<1>3. /\ current_challenge.challenge_id \in Nat /\ newChallenge.challenge_id \in Nat
      /\ \A k \in DOMAIN answered : answered[k].against \in Nat
  BY AnsweredTypes DEF JudgingInv
<1>4. PublishedInOrder'
  BY <1>1, <1>3 DEF JudgingInv, PublishedInOrder, TypeOK, Announcement
<1>5. \A k \in DOMAIN answered : answered[k].against < newChallenge.challenge_id
  BY <1>1, <1>3 DEF JudgingInv, AnsweredInPast
<1>6. AnsweredInPast'
  BY <1>1, <1>3, <1>5 DEF AnsweredInPast
<1>7. NoAnswerAhead'
  <2>1. ASSUME NEW t \in Traders \ Guessers
        PROVE  received[t].challenge_id <= newChallenge.challenge_id
    BY <1>1, <1>3, LineTypes DEF NoAnswerAhead, JudgingInv
  <2>2. ASSUME NEW t \in Traders \ Guessers, NEW k \in DOMAIN socket[t]
        PROVE  /\ socket[t][k] \in Answer
               /\ socket[t][k].challenge_id <= newChallenge.challenge_id
    <3>1. socket[t][k] \in Answer /\ socket[t][k].challenge_id \in Nat
      BY LineTypes DEF JudgingInv, NoAnswerAhead
    <3>2. socket[t][k].challenge_id <= current_challenge.challenge_id
      BY DEF NoAnswerAhead, JudgingInv
    <3>3. QED
      BY <1>1, <1>3, <3>1, <3>2
  <2>3. QED
    BY <1>1, <2>1, <2>2 DEF NoAnswerAhead
<1>8. FirstCorrectWins'
  <2>1. ~newChallenge.winner_declared
    BY <1>1 DEF JudgingInv, PublishedInOrder
  <2>2. \A k \in DOMAIN answered : answered[k].against # newChallenge.challenge_id
    BY <1>3, <1>5
  <2>3. QED
    BY <1>1, <2>1, <2>2 DEF FirstCorrectWins, Correct
<1>9. QED
  BY <1>2, <1>4, <1>6, <1>7, <1>8 DEF JudgingInv

\* A line that a trader writes: that of client.cpp is not ahead.
LEMMA WriteStep ==
  ASSUME JudgingInv, NEW t \in Traders, NEW line \in Answer \cup Ignored,
         socket' = [socket EXCEPT ![t] = Append(@, line)],
         t \notin Guessers => /\ line \in Answer
                             /\ line.challenge_id <= current_challenge.challenge_id
  PROVE  /\ socket' \in [Traders -> Seq(Answer \cup Ignored)]
         /\ \A u \in Traders \ Guessers : \A k \in DOMAIN socket'[u] :
              /\ socket'[u][k] \in Answer
              /\ socket'[u][k].challenge_id <= current_challenge.challenge_id
<1>1. /\ socket \in [Traders -> Seq(Answer \cup Ignored)]
      /\ \A u \in Traders : socket'[u] = IF u = t THEN Append(socket[t], line) ELSE socket[u]
  BY DEF JudgingInv, TypeOK
<1>2. Append(socket[t], line) \in Seq(Answer \cup Ignored)
  BY <1>1
<1>3. ASSUME NEW u \in Traders \ Guessers, NEW k \in DOMAIN socket'[u]
      PROVE  /\ socket'[u][k] \in Answer
             /\ socket'[u][k].challenge_id <= current_challenge.challenge_id
  <2>1. CASE u = t
    <3>1. /\ socket[t] \in Seq(Answer \cup Ignored) /\ socket'[t] = Append(socket[t], line)
          /\ k \in DOMAIN socket'[t]
      BY <1>1, <2>1
    <3>2. CASE k = Len(socket[t]) + 1
      BY <2>1, <3>1, <3>2
    <3>3. CASE k # Len(socket[t]) + 1
      <4>1. k \in DOMAIN socket[t] /\ socket'[t][k] = socket[t][k]
        BY <3>1, <3>3
      <4>2. QED
        BY <2>1, <4>1 DEF JudgingInv, NoAnswerAhead
    <3>4. QED
      BY <3>2, <3>3
  <2>2. CASE u # t
    BY <1>1, <2>2 DEF JudgingInv, NoAnswerAhead
  <2>3. QED
    BY <2>1, <2>2
<1>4. QED
  BY <1>1, <1>2, <1>3

\* A trader receives an announcement, or writes a line.
LEMMA TraderStep ==
  ASSUME JudgingInv, NEW t \in Traders,
         ReceiveFrom(t) \/ Respond(t) \/ \E line \in Answer \cup Ignored : Guess(t, line)
  PROVE  JudgingInv'
<1>1. /\ UNCHANGED <<udpVars, current_challenge, datagrams, connection, server, session,
                     answered, linesRead>>
      /\ UNCHANGED <<global_challenge_id, udpStage, newChallenge>>
  BY DEF ReceiveFrom, Respond, Guess, udpVars, sessionVars
<1>2. PublishedInOrder' /\ AnsweredInPast' /\ FirstCorrectWins'
  BY <1>1 DEF JudgingInv, PublishedInOrder, AnsweredInPast, FirstCorrectWins, Correct
<1>3. CASE ReceiveFrom(t)
  BY <1>1, <1>2, <1>3 DEF ReceiveFrom, JudgingInv, TypeOK, NoAnswerAhead, PublishedInOrder
<1>4. CASE Respond(t)
  <2> DEFINE line == [challenge_id |-> received[t].challenge_id,
                      quote |-> received[t].quote, client_name |-> t]
  <2>1. /\ received[t] \in Announcement
        /\ received' = [received EXCEPT ![t] = Nothing]
        /\ socket' = [socket EXCEPT ![t] = Append(@, line)]
    BY <1>4 DEF Respond, JudgingInv, TypeOK
  <2>2. line \in Answer
    BY <2>1 DEF Answer, Announcement, Name
  <2>3. t \notin Guessers => line.challenge_id <= current_challenge.challenge_id
    BY DEF JudgingInv, NoAnswerAhead
  <2> HIDE DEF line
  <2>4. /\ socket' \in [Traders -> Seq(Answer \cup Ignored)]
        /\ \A u \in Traders \ Guessers : \A k \in DOMAIN socket'[u] :
             /\ socket'[u][k] \in Answer
             /\ socket'[u][k].challenge_id <= current_challenge.challenge_id
    BY <2>1, <2>2, <2>3, WriteStep
  <2>5. received' \in [Traders -> Announcement \cup {Nothing}]
    BY <2>1 DEF JudgingInv, TypeOK
  <2>6. \A u \in Traders \ Guessers :
          received'[u].challenge_id <= current_challenge.challenge_id
    BY <2>1, LineTypes, AnsweredTypes DEF JudgingInv, TypeOK, NoAnswerAhead, Nothing
  <2>7. TypeOK'
    BY <1>1, <2>4, <2>5 DEF JudgingInv, TypeOK
  <2>8. NoAnswerAhead'
    BY <1>1, <2>4, <2>6 DEF NoAnswerAhead
  <2>9. QED
    BY <1>2, <2>7, <2>8 DEF JudgingInv
<1>5. ASSUME NEW line \in Answer \cup Ignored, Guess(t, line) PROVE JudgingInv'
  <2>1. /\ t \in Guessers /\ received' = received
        /\ socket' = [socket EXCEPT ![t] = Append(@, line)]
    BY <1>5 DEF Guess
  <2>2. /\ socket' \in [Traders -> Seq(Answer \cup Ignored)]
        /\ \A u \in Traders \ Guessers : \A k \in DOMAIN socket'[u] :
             /\ socket'[u][k] \in Answer
             /\ socket'[u][k].challenge_id <= current_challenge.challenge_id
    BY <2>1, WriteStep
  <2>3. TypeOK'
    BY <1>1, <2>1, <2>2 DEF JudgingInv, TypeOK
  <2>4. NoAnswerAhead'
    BY <1>1, <2>1, <2>2 DEF JudgingInv, NoAnswerAhead
  <2>5. QED
    BY <1>2, <2>3, <2>4 DEF JudgingInv
<1>6. QED
  BY <1>3, <1>4, <1>5

\* Connections and sessions begin and end.
LEMMA ConnectionStep ==
  ASSUME JudgingInv, NEW t \in Traders,
         Connect(t) \/ Close(t) \/ Reset(t) \/ Accepting(t) \/ ReadError(t)
  PROVE  JudgingInv'
<1>1. UNCHANGED <<global_challenge_id, udpStage, newChallenge, current_challenge, datagrams,
                  received, socket, answered, linesRead>>
  BY DEF Connect, Close, Reset, Accepting, DoAccept, AcceptError, RemoteEndpointThrows,
         ReadError, udpVars, sessionVars
<1>2. /\ connection' \in [Traders -> {"none", "open", "closed", "reset"}]
      /\ server' \in {"running", "dead"}
      /\ session' \in [Traders -> {"none", "reading", "ended"}]
  <2>1. CASE Connect(t) \/ Close(t) \/ Reset(t)
    BY <2>1 DEF Connect, Close, Reset, JudgingInv, TypeOK, sessionVars
  <2>2. CASE DoAccept(t) \/ AcceptError(t) \/ ReadError(t)
    BY <2>2 DEF DoAccept, AcceptError, ReadError, JudgingInv, TypeOK
  <2>3. CASE RemoteEndpointThrows(t)
    BY <2>3 DEF RemoteEndpointThrows, JudgingInv, TypeOK
  <2>4. QED
    BY <2>1, <2>2, <2>3 DEF Accepting
<1>3. TypeOK'
  BY <1>1, <1>2 DEF JudgingInv, TypeOK
<1>4. PublishedInOrder' /\ AnsweredInPast' /\ NoAnswerAhead' /\ FirstCorrectWins'
  BY <1>1 DEF JudgingInv, PublishedInOrder, AnsweredInPast, NoAnswerAhead, FirstCorrectWins,
              Correct
<1>5. QED
  BY <1>3, <1>4 DEF JudgingInv

\* What is left of a trader's lines when one is read.
LEMMA TailFacts ==
  ASSUME NEW S, NEW q \in Seq(S), q # << >>
  PROVE  /\ Head(q) \in S /\ Tail(q) \in Seq(S)
         /\ \A k \in DOMAIN Tail(q) : k + 1 \in DOMAIN q /\ Tail(q)[k] = q[k + 1]
OBVIOUS

LEMMA LineTaken ==
  ASSUME JudgingInv, NEW t \in Traders, socket[t] # << >>,
         socket' = [socket EXCEPT ![t] = Tail(@)]
  PROVE  /\ Head(socket[t]) \in Answer \cup Ignored
         /\ socket' \in [Traders -> Seq(Answer \cup Ignored)]
         /\ \A u \in Traders \ Guessers : \A k \in DOMAIN socket'[u] :
              /\ socket'[u][k] \in Answer
              /\ socket'[u][k].challenge_id <= current_challenge.challenge_id
<1>1. socket \in [Traders -> Seq(Answer \cup Ignored)]
  BY DEF JudgingInv, TypeOK
<1>2. Tail(socket[t]) \in Seq(Answer \cup Ignored) /\ Head(socket[t]) \in Answer \cup Ignored
  BY <1>1, TailFacts
<1>3. ASSUME NEW u \in Traders \ Guessers, NEW k \in DOMAIN socket'[u]
      PROVE  /\ socket'[u][k] \in Answer
             /\ socket'[u][k].challenge_id <= current_challenge.challenge_id
  <2>1. CASE u = t
    <3>1. /\ socket[t] \in Seq(Answer \cup Ignored) /\ socket[t] # << >>
          /\ socket'[t] = Tail(socket[t]) /\ k \in DOMAIN Tail(socket[t])
      BY <1>1, <2>1
    <3>2. k + 1 \in DOMAIN socket[t] /\ socket'[t][k] = socket[t][k + 1]
      BY <3>1, TailFacts
    <3>3. QED
      BY <2>1, <3>2 DEF JudgingInv, NoAnswerAhead
  <2>2. CASE u # t
    BY <1>1, <2>2 DEF JudgingInv, NoAnswerAhead
  <2>3. QED
    BY <2>1, <2>2
<1>4. QED
  BY <1>1, <1>2, <1>3

\* A line of no order kind.
LEMMA IgnoreStep ==
  ASSUME JudgingInv, NEW t \in Traders, ReadLine(t), Head(socket[t]) \in Ignored
  PROVE  JudgingInv'
<1>1. /\ UNCHANGED <<global_challenge_id, udpStage, newChallenge, current_challenge, datagrams,
                     received, connection, server, session, answered>>
      /\ socket[t] # << >>
      /\ socket' = [socket EXCEPT ![t] = Tail(@)]
      /\ linesRead' = [linesRead EXCEPT ![t] = @ + 1]
  BY DEF ReadLine, udpVars
<1>2. TypeOK'
  BY <1>1, LineTaken DEF JudgingInv, TypeOK
<1>3. NoAnswerAhead'
  BY <1>1, LineTaken DEF JudgingInv, NoAnswerAhead
<1>4. PublishedInOrder' /\ AnsweredInPast' /\ FirstCorrectWins'
  BY <1>1 DEF JudgingInv, PublishedInOrder, AnsweredInPast, FirstCorrectWins, Correct
<1>5. QED
  BY <1>2, <1>3, <1>4 DEF JudgingInv

\* A line is judged.
LEMMA ProcessStep ==
  ASSUME JudgingInv, NEW t \in Traders, ReadLine(t), Head(socket[t]) \notin Ignored
  PROVE  JudgingInv'
<1> DEFINE line == Head(socket[t])
           n    == Len(answered) + 1
           c    == current_challenge
<1>1. answered' = Append(answered, [line |-> line, against |-> c.challenge_id])
  BY DEF ReadLine, ProcessOrder
<1>2. /\ UNCHANGED <<global_challenge_id, udpStage, newChallenge, datagrams, received,
                     connection, server, session>>
      /\ socket[t] # << >>
      /\ socket' = [socket EXCEPT ![t] = Tail(@)]
      /\ linesRead' = [linesRead EXCEPT ![t] = @ + 1]
      /\ c' = IF Wins(line) THEN [c EXCEPT !.winner_declared = TRUE,
                                          !.winner_name = line.client_name]
                            ELSE c
  BY DEF ReadLine, ProcessOrder, udpVars
<1>3. line \in Answer /\ line.client_name \in Name
  BY <1>2, LineTaken, LineTypes DEF JudgingInv
<1>4. /\ c'.challenge_id = c.challenge_id /\ c'.quote = c.quote
      /\ c'.winner_declared = (c.winner_declared \/ Wins(line))
      /\ c'.winner_name = IF Wins(line) THEN line.client_name ELSE c.winner_name
      /\ c' \in [challenge_id : Nat, quote : Quote \cup {NoQuote},
                 winner_declared : BOOLEAN, winner_name : Name]
  BY <1>2, <1>3 DEF JudgingInv, TypeOK, Wins
<1>5. /\ DOMAIN answered = 1 .. n - 1 /\ DOMAIN answered' = 1 .. n
      /\ \A k \in 1 .. n - 1 : answered'[k] = answered[k]
      /\ answered'[n] = [line |-> line, against |-> c.challenge_id]
      /\ answered' \in Seq(Judged)
      /\ n \in Nat \ {0} /\ n \notin DOMAIN answered
  BY <1>1, <1>3, AnsweredTypes DEF JudgingInv, TypeOK, Judged
<1>6. TypeOK'
  BY <1>2, <1>4, <1>5, LineTaken DEF JudgingInv, TypeOK
<1>7. PublishedInOrder'
  BY <1>2, <1>4 DEF JudgingInv, PublishedInOrder
<1>8. AnsweredInPast'
  BY <1>4, <1>5, AnsweredTypes DEF JudgingInv, AnsweredInPast
<1>9. NoAnswerAhead'
  BY <1>2, <1>4, LineTaken DEF JudgingInv, NoAnswerAhead
<1>10. FirstCorrectWins'
  <2> DEFINE correct == {k \in DOMAIN answered : Correct(k, c)}
             New     == line.challenge_id = c.challenge_id /\ line.quote = c.quote
  <2>1. {k \in DOMAIN answered : Correct(k, c)}' = correct \cup {k \in {n} : New}
    BY <1>4, <1>5 DEF Correct
  <2>2. Wins(line) <=> New /\ ~c.winner_declared
    BY DEF Wins
  <2>3. IF correct = {}
          THEN ~c.winner_declared
          ELSE /\ c.winner_declared
               /\ \E k \in correct : /\ \A j \in correct : k <= j
                                     /\ c.winner_name = answered[k].line.client_name
    BY DEF JudgingInv, FirstCorrectWins
  <2>4. CASE correct = {}
    BY <1>4, <1>5, <2>1, <2>2, <2>3, <2>4 DEF FirstCorrectWins
  <2>5. CASE correct # {}
    <3>1. PICK k \in correct : /\ \A j \in correct : k <= j
                               /\ c.winner_name = answered[k].line.client_name
      BY <2>3, <2>5
    <3>2. k < n /\ answered'[k] = answered[k]
      BY <1>5, <3>1
    <3>3. ~Wins(line)
      BY <2>2, <2>3, <2>5
    <3>4. QED
      BY <1>4, <1>5, <2>1, <2>3, <2>5, <3>1, <3>2, <3>3 DEF FirstCorrectWins
  <2>6. QED
    BY <2>4, <2>5
<1>11. QED
  BY <1>6, <1>7, <1>8, <1>9, <1>10 DEF JudgingInv

(***************************************************************************)
(* Types, the order of publication and announcement, and the judging of    *)
(* every line, in every state of the contest.                              *)
(***************************************************************************)
THEOREM JudgingInvariant == Spec => []JudgingInv
<1>1. JudgingInv /\ [Next]_vars => JudgingInv'
  <2> SUFFICES ASSUME JudgingInv, [Next]_vars PROVE JudgingInv'
    OBVIOUS
  <2>1. CASE UNCHANGED vars
    BY <2>1 DEF JudgingInv, TypeOK, PublishedInOrder, AnsweredInPast, NoAnswerAhead,
                FirstCorrectWins, Correct, vars, udpVars, sessionVars
  <2>2. CASE Udp
    BY <2>2, UdpStep, PublishStep DEF Udp
  <2>3. ASSUME NEW t \in Traders,
               \/ Trading(t)
               \/ \E line \in Answer \cup Ignored : Guess(t, line)
               \/ Accepting(t) \/ Reading(t)
        PROVE  JudgingInv'
    <3>1. CASE Trading(t) \/ (\E line \in Answer \cup Ignored : Guess(t, line)) \/ Accepting(t)
      BY <3>1, TraderStep, ConnectionStep DEF Trading
    <3>2. CASE Reading(t)
      BY <3>2, ConnectionStep, IgnoreStep, ProcessStep DEF Reading
    <3>3. QED
      BY <2>3, <3>1, <3>2
  <2>4. QED
    BY <2>1, <2>2, <2>3 DEF Next
<1>2. QED
  BY <1>1, JudgingStart, PTL DEF Spec

(***************************************************************************)
(* The types, for any numbers of traders, challenges and lines.            *)
(***************************************************************************)
THEOREM ContestTypes == Spec => []TypeOK
<1>1. JudgingInv => TypeOK
  BY DEF JudgingInv
<1>2. QED
  BY <1>1, JudgingInvariant, PTL

(***************************************************************************)
(* "Ensure only the first correct submission wins": whoever is recorded as *)
(* the winner is named on the first right line judged while the challenge  *)
(* was current, and a challenge with a right line has a winner.            *)
(***************************************************************************)
THEOREM FirstCorrectWinsHolds == Spec => []FirstCorrectWins
<1>1. JudgingInv => FirstCorrectWins
  BY DEF JudgingInv
<1>2. QED
  BY <1>1, JudgingInvariant, PTL

(***************************************************************************)
(* A challenge is published before it is announced, so no answer that      *)
(* client.cpp writes names a challenge the server does not have yet,       *)
(* whatever lines the other programs send.                                 *)
(***************************************************************************)
THEOREM NoAnswerIsAhead == Spec => []NoAnswerAhead
<1>1. JudgingInv => NoAnswerAhead
  BY DEF JudgingInv
<1>2. QED
  BY <1>1, JudgingInvariant, PTL
=============================================================================
