--------------------------- MODULE OrderedAnswers ----------------------------
(***************************************************************************)
(* What a peer may rely on when it sends requests to an endpoint, with the *)
(* queues, the handlers and the poll left out: requests are numbered as    *)
(* they arrive; one is taken in or turned away; one that was taken in is   *)
(* answered when no older one is left, or is dropped; nothing else happens *)
(* to it.                                                                  *)
(***************************************************************************)
EXTENDS Naturals

VARIABLES
  arrived,    \* the number of requests so far
  inFlight,   \* the requests taken in and not yet answered or dropped
  lastSent    \* the request answered last, 0 at first

answerVars == <<arrived, inFlight, lastSent>>

AnswersInit ==
  /\ arrived = 0
  /\ inFlight = {}
  /\ lastSent = 0

TakeIn ==
  /\ arrived' = arrived + 1
  /\ inFlight' = inFlight \cup {arrived + 1}
  /\ UNCHANGED lastSent

TurnAway ==
  /\ arrived' = arrived + 1
  /\ UNCHANGED <<inFlight, lastSent>>

Answer(t) ==
  /\ t \in inFlight
  /\ \A u \in inFlight : t <= u
  /\ inFlight' = inFlight \ {t}
  /\ lastSent' = t
  /\ UNCHANGED arrived

Drop(t) ==
  /\ t \in inFlight
  /\ inFlight' = inFlight \ {t}
  /\ UNCHANGED <<arrived, lastSent>>

AnswersNext ==
  \/ TakeIn
  \/ TurnAway
  \/ \E t \in inFlight : Answer(t) \/ Drop(t)

AnswersSpec == AnswersInit /\ [][AnswersNext]_answerVars

=============================================================================
