-------------------------- MODULE HanabiFinalRound --------------------------
(***************************************************************************)
(* The engine with one history variable: the seats whose turn has passed   *)
(* since the deck ran out.  The variable only observes the engine.         *)
(***************************************************************************)
EXTENDS Hanabi

VARIABLE lastTurns

RoundInit == Init /\ lastTurns = {}

\* The seat in turn when a request or a forced action was accepted.
Observe ==
  lastTurns' = IF deck = {} /\ <<hands, hintTokens>>' # <<hands, hintTokens>>
               THEN lastTurns \cup {turnIndex} ELSE lastTurns

RoundNext == Next /\ Observe

RoundSpec == RoundInit /\ [][RoundNext]_<<vars, lastTurns>>

\* docs/game_rule/hanabi.md:56 (and game_service.go:259): after the last card
\* of the deck is drawn every player takes one more turn, and then the game
\* ends.
FinalRoundForAll ==
  gameOver /\ missTokens > 0 /\ Score(fireworks) # PerfectScore
    => lastTurns = Seats
=============================================================================
