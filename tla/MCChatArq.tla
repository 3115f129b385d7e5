----------------------------- MODULE MCChatArq -----------------------------
(* Small instances of ChatArq for TLC.                                     *)
EXTENDS ChatArq

CONSTANTS alice, bob

MCBoards == {alice, bob}

\* numbers that never meet, as two random draws among 32768, or 256, hardly do
MCFirstSeq == [b \in MCBoards |-> IF b = alice THEN <<100, 200>> ELSE <<300, 400>>]
MCFirstId  == [b \in MCBoards |-> IF b = alice THEN <<50, 60>> ELSE <<70, 80>>]

Scenario(arq, stalls, ofAlice, ofBob, startsOfAlice, startsOfBob) ==
  [arq    |-> arq, stalls |-> stalls,
   lines  |-> [b \in MCBoards |-> IF b = alice THEN ofAlice ELSE ofBob],
   starts |-> [b \in MCBoards |-> IF b = alice THEN startsOfAlice ELSE startsOfBob]]

\* one user types short and long lines; either chat is restarted; both type
\* over mailboxes that stall; chat without --arq
MCPlans == { Scenario(TRUE,  FALSE, <<2, 2, 1>>, <<>>,  1, 1),
             Scenario(TRUE,  FALSE, <<1, 2>>,    <<>>,  1, 2),
             Scenario(TRUE,  FALSE, <<2, 2>>,    <<>>,  2, 1),
             Scenario(TRUE,  TRUE,  <<1>>,       <<1>>, 1, 1),
             Scenario(FALSE, FALSE, <<1, 2>>,    <<>>,  1, 2) }

MCBothType == {Scenario(TRUE, FALSE, <<1>>, <<1>>, 1, 1)}

\* a user ends his chat in a long line and starts it again
MCCut == {Scenario(TRUE, FALSE, <<2>>, <<>>, 2, 1)}

\* they do not meet in these plans
ASSUME MCApart == SeqsApart /\ IdsApart
=============================================================================
