------------------------- MODULE MCChallengeServer -------------------------
(***************************************************************************)
(* ChallengeServer for TLC: MaxChallenges challenges, MaxLines lines of    *)
(* each guesser and one of each other trader, whose answers are among what *)
(* a guesser may write.  A guesser may name a challenge still to come.     *)
(***************************************************************************)
EXTENDS ChallengeServer

CONSTANTS MaxChallenges, MaxLines

MayWrite(t) == linesRead[t] + Len(socket[t]) < (IF t \in Guessers THEN MaxLines ELSE 1)

Guesses == [challenge_id : 1 .. MaxChallenges, quote : Quote, client_name : {Nobody}] \cup Ignored

\* Quotes differ in name only, so that the first one may be any.
NextQuote ==
  /\ global_challenge_id < MaxChallenges
  /\ GenerateChallenge
  /\ global_challenge_id = 0 => newChallenge'.quote = CHOOSE q \in Quote : TRUE

\* Nothing is left to do within the bounds.
Over == /\ \/ server = "dead"
           \/ \A t \in Traders : session[t] # "none" /\ (socket[t] = << >> \/ session[t] = "ended")
        /\ UNCHANGED vars

MCNext ==
  \/ OpenSocket \/ NextQuote \/ Publish \/ Broadcast
  \/ \E t \in Traders :
       \/ Connect(t) \/ Respond(t) \/ Close(t) \/ Reset(t)
       \/ MayWrite(t) /\ (ReceiveFrom(t) \/ \E line \in Guesses : Guess(t, line))
       \/ DoAccept(t) \/ AcceptError(t) \/ RemoteEndpointThrows(t)
       \/ ReadLine(t) \/ ReadError(t)
  \/ Over

MCSpec == Init /\ [][MCNext]_vars /\ HandlersRun
-----------------------------------------------------------------------------
(***************************************************************************)
(* Whatever the lines of a trader are, whichever challenge is current when *)
(* they come, also when the broadcasting thread has ended or the trader    *)
(* has closed its end: again and again all it has written is read, and so, *)
(* as it writes MaxLines at most, every line is in the end - unless its    *)
(* connection breaks, or the server dies of a trader that has gone before  *)
(* it was accepted.                                                        *)
(***************************************************************************)
EveryLineProcessed ==
  \A t \in Traders :
    []<>(socket[t] = << >> \/ connection[t] = "reset" \/ server = "dead")
=============================================================================
